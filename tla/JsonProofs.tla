------------------------------ MODULE JsonProofs ------------------------------
(***************************************************************************)
(* Proofs about the JSON objects of module CjsonHeap and their client of   *)
(* module Cjson, for any pointers, clients, values, bounds and any number  *)
(* of slots that containers grow by.  First what is in the reach of an     *)
(* object, then what each function of cjson.h does to a heap in which      *)
(* every object has one owner (Good): it copies, fills, releases and only  *)
(* then owns.  With that, the invariant of the client (IInv), and from it  *)
(* that objects keep their shape and their one owner, and that one call    *)
(* changes what one pointer refers to.                                     *)
(***************************************************************************)
EXTENDS Cjson, FiniteSetTheorems, TLAPS

-----------------------------------------------------------------------------
(* The natural numbers. *)
VP == INSTANCE VarIntProofs WITH
  W <- 8, Null <- NULL, sent <- NULL, signed <- FALSE, wire <- <<>>, position <- 0, got <- NULL

LEMMA WidthOfTheCode == 8 \in Nat /\ 8 >= 1
OBVIOUS

(* What the proofs need of natural numbers, as module VarIntProofs proves it. *)
LEMMA SetInduction ==
  ASSUME NEW P, 0 \in P, \A n \in Nat : n \in P => n + 1 \in P
  PROVE  Nat \subseteq P
BY WidthOfTheCode, VP!SetInduction, Zenon

LEMMA GreatestNatural ==
  ASSUME NEW T, T \subseteq Nat, T # {}, NEW b \in Nat, \A y \in T : y <= b
  PROVE  \E x \in T : \A y \in T : y <= x
BY WidthOfTheCode, VP!GreatestNatural, Zenon

LEMMA WalkExists ==
  ASSUME NEW D, NEW c \in D, NEW n \in Nat, NEW F \in [1 .. n -> [D -> D]]
  PROVE  \E g \in [0 .. n -> D] : g[0] = c /\ \A k \in 1 .. n : g[k] = F[k][g[k - 1]]
BY WidthOfTheCode, VP!WalkExists

LEMMA FiniteBound ==
  ASSUME NEW S, IsFiniteSet(S), S \subseteq Nat
  PROVE  \E b \in Nat : \A y \in S : y <= b
BY WidthOfTheCode, VP!FiniteBound, Zenon DEF IsFiniteSet, VP!IsFiniteSet

-----------------------------------------------------------------------------
(* A walk through the places D that F takes step by step, as far as one likes. *)
LEMMA WalkWithoutEnd ==
  ASSUME NEW D, NEW c \in D, NEW F \in [D -> D]
  PROVE  \E g : g = [n \in Nat |-> IF n = 0 THEN c ELSE F[g[n - 1]]] /\ g \in [Nat -> D]
<1>. DEFINE IsWalk(n, g) == /\ g \in [0 .. n -> D] /\ g[0] = c
                            /\ \A k \in 1 .. n : g[k] = F[g[k - 1]]
            W(n) == CHOOSE g : IsWalk(n, g)
            G == [n \in Nat |-> W(n)[n]]
<1>1. ASSUME NEW n \in Nat PROVE IsWalk(n, W(n))
  <2>1. PICK H \in [1 .. n -> [D -> D]] : \A k \in 1 .. n : H[k] = F
    <3>1. [k \in 1 .. n |-> F] \in [1 .. n -> [D -> D]]
      OBVIOUS
    <3>. QED
      BY <3>1
  <2>2. PICK g \in [0 .. n -> D] : g[0] = c /\ \A k \in 1 .. n : g[k] = H[k][g[k - 1]]
    BY WalkExists
  <2>3. IsWalk(n, g)
    BY <2>1, <2>2
  <2>. QED
    BY <2>3, Zenon
<1>2. ASSUME NEW n \in Nat PROVE G[n + 1] = F[G[n]]
  <2>. DEFINE P == {k \in Nat : k <= n => W(n + 1)[k] = W(n)[k]}
  <2>1. IsWalk(n, W(n)) /\ IsWalk(n + 1, W(n + 1))
    <3>1. n + 1 \in Nat
      OBVIOUS
    <3>. QED
      BY <1>1, <3>1, Zenon
  <2>. HIDE DEF W
  <2>2. 0 \in P
    BY <2>1
  <2>3. ASSUME NEW k \in Nat, k \in P PROVE k + 1 \in P
    BY <2>1, <2>3
  <2>. HIDE DEF P
  <2>4. n \in P
    BY <2>2, <2>3, SetInduction
  <2>. QED
    BY <2>1, <2>4 DEF P
<1>3. G[0] = c /\ G \in [Nat -> D]
  <2>1. \A n \in Nat : IsWalk(n, W(n))
    BY <1>1
  <2>. HIDE DEF W
  <2>. QED
    BY <2>1
<1>. HIDE DEF G
<1>4. ASSUME NEW n \in Nat PROVE G[n] = IF n = 0 THEN c ELSE F[G[n - 1]]
  <2>1. CASE n = 0
    BY <1>3, <2>1
  <2>2. CASE n # 0
    <3>1. n - 1 \in Nat
      BY <2>2
    <3>. QED
      BY <1>2, <2>2, <3>1
  <2>. QED
    BY <2>1, <2>2
<1>5. G = [n \in Nat |-> IF n = 0 THEN c ELSE F[G[n - 1]]]
  BY <1>3, <1>4
<1>. QED
  BY <1>3, <1>5

-----------------------------------------------------------------------------
(* A heap is a record of finitely many objects at addresses that are not    *)
(* null; what a slot refers to is live, or nothing.                         *)
IsObject(o) ==
  /\ o = [type |-> o.type, value |-> o.value, kids |-> o.kids, capacity |-> o.capacity]
  /\ o.type \in DOMAIN jstype /\ o.kids \in Seq(Nat) /\ o.capacity \in Nat
IsHeap(h) ==
  /\ h = [objs |-> h.objs, wild |-> h.wild]
  /\ h.objs = [r \in Live(h) |-> h.objs[r]]
  /\ Live(h) \subseteq Nat \ {0} /\ IsFiniteSet(Live(h))
  /\ \A r \in Live(h) : IsObject(h.objs[r])

(* A set that holds all that its members refer to. *)
IsClosed(h, C) == \A x \in C : Kids(h, x) \subseteq C
Spread(h, C) == C \cup UNION {Kids(h, x) : x \in C}

LEMMA WithObjects ==
  ASSUME NEW h, NEW F, h = [objs |-> h.objs, wild |-> h.wild]
  PROVE  /\ [h EXCEPT !.objs = F] = [objs |-> F, wild |-> h.wild]
         /\ [h EXCEPT !.objs = F].objs = F
         /\ [h EXCEPT !.objs = F].wild = h.wild
<1>1. ASSUME NEW a, NEW b PROVE [[objs |-> a, wild |-> b] EXCEPT !.objs = F] = [objs |-> F, wild |-> b]
  OBVIOUS
<1>. QED
  BY <1>1

LEMMA KidsDef ==
  ASSUME NEW h, IsHeap(h), NEW r
  PROVE  /\ r \notin Live(h) => Kids(h, r) = {}
         /\ r \in Live(h) =>
              /\ Kids(h, r) = {h.objs[r].kids[i] : i \in 1 .. Len(h.objs[r].kids)} \ {0}
              /\ h.objs[r].kids \in Seq(Nat)
         /\ Kids(h, r) \subseteq Nat \ {0}
<1>1. r \notin Live(h) => Kids(h, r) = {}
  BY DEF Kids
<1>2. CASE r \in Live(h)
  <2>1. h.objs[r].kids \in Seq(Nat)
    BY <1>2 DEF IsHeap, IsObject
  <2>. DEFINE s == h.objs[r].kids
  <2>2. DOMAIN s = 1 .. Len(s)
    BY <2>1
  <2>3. Kids(h, r) = {s[i] : i \in DOMAIN s} \ {0}
    BY <1>2 DEF Kids, ToSet, NULL
  <2>4. \A i \in 1 .. Len(s) : s[i] \in Nat
    BY <2>1
  <2>. HIDE DEF s
  <2>5. Kids(h, r) = {s[i] : i \in 1 .. Len(s)} \ {0}
    BY <2>2, <2>3
  <2>6. Kids(h, r) \subseteq Nat \ {0}
    BY <2>4, <2>5
  <2>. QED
    BY <1>2, <2>1, <2>5, <2>6 DEF s
<1>. QED
  BY <1>1, <1>2

(* The levels of Reach. *)
Levels(h, r, g) == g = [n \in Nat |-> IF n = 0 THEN {r} ELSE Spread(h, g[n - 1])]

LEMMA ReachDef ==
  ASSUME NEW h, NEW r
  PROVE  Reach(h, r) = (CHOOSE g : Levels(h, r, g))[Cardinality(Live(h))]
  BY DEF Reach, Levels, Spread

LEMMA LevelsExist ==
  ASSUME NEW h, IsHeap(h), NEW r \in Nat
  PROVE  \E g : Levels(h, r, g) /\ g \in [Nat -> SUBSET Nat]
<1>. DEFINE F == [C \in SUBSET Nat |-> Spread(h, C)]
<1>1. F \in [SUBSET Nat -> SUBSET Nat]
  <2>1. ASSUME NEW C \in SUBSET Nat PROVE Spread(h, C) \in SUBSET Nat
    BY KidsDef DEF Spread
  <2>. QED
    BY <2>1
<1>2. \A C \in SUBSET Nat : F[C] = Spread(h, C)
  OBVIOUS
<1>. HIDE DEF F
<1>3. {r} \in SUBSET Nat
  OBVIOUS
<1>4. PICK g : g = [n \in Nat |-> IF n = 0 THEN {r} ELSE F[g[n - 1]]] /\ g \in [Nat -> SUBSET Nat]
  <2>. DEFINE D == SUBSET Nat
              c == {r}
  <2>1. F \in [D -> D] /\ c \in D
    BY <1>1, <1>3
  <2>. HIDE DEF D, c
  <2>2. \E g : g = [n \in Nat |-> IF n = 0 THEN c ELSE F[g[n - 1]]] /\ g \in [Nat -> D]
    BY <2>1, WalkWithoutEnd
  <2>. QED
    BY <2>2 DEF D, c
<1>5. ASSUME NEW n \in Nat PROVE g[n] = IF n = 0 THEN {r} ELSE Spread(h, g[n - 1])
  <2>1. CASE n = 0
    BY <1>4, <2>1
  <2>2. CASE n # 0
    <3>1. n - 1 \in Nat
      BY <2>2
    <3>2. g[n - 1] \in SUBSET Nat
      BY <1>4, <3>1
    <3>3. g[n] = F[g[n - 1]]
      BY <1>4, <2>2
    <3>. QED
      BY <1>2, <2>2, <3>2, <3>3
  <2>. QED
    BY <2>1, <2>2
<1>6. g = [n \in Nat |-> IF n = 0 THEN {r} ELSE Spread(h, g[n - 1])]
  BY <1>4, <1>5, Zenon
<1>. QED
  BY <1>4, <1>6 DEF Levels

(* Reach is the smallest set that holds r and all its members refer to:     *)
(* as many levels as there are objects get to all of them.                  *)
LEMMA ReachIsClosure ==
  ASSUME NEW h, IsHeap(h), IsClosed(h, Live(h)), NEW r \in Live(h)
  PROVE  /\ r \in Reach(h, r) /\ IsClosed(h, Reach(h, r)) /\ Reach(h, r) \subseteq Live(h)
         /\ \A C : r \in C /\ IsClosed(h, C) => Reach(h, r) \subseteq C
<1>. DEFINE W == CHOOSE g : Levels(h, r, g)
            N == Cardinality(Live(h))
<1>1. Levels(h, r, W) /\ Reach(h, r) = W[N]
  <2>1. r \in Nat
    BY DEF IsHeap
  <2>2. \E g : Levels(h, r, g)
    BY <2>1, LevelsExist
  <2>. QED
    BY <2>2, ReachDef, Zenon
<1>2. IsFiniteSet(Live(h)) /\ N \in Nat
  BY FS_CardinalityType DEF IsHeap
<1>. HIDE DEF W, N
<1>3. W[0] = {r}
  BY <1>1 DEF Levels
<1>4. ASSUME NEW n \in Nat PROVE W[n + 1] = Spread(h, W[n])
  <2>1. n + 1 \in Nat /\ n + 1 # 0 /\ (n + 1) - 1 = n
    OBVIOUS
  <2>. QED
    BY <1>1, <2>1 DEF Levels
<1>5. ASSUME NEW C, r \in C, IsClosed(h, C), NEW m \in Nat PROVE W[m] \subseteq C
  <2>. DEFINE P == {n \in Nat : W[n] \subseteq C}
  <2>1. 0 \in P
    BY <1>3, <1>5
  <2>2. ASSUME NEW n \in Nat, n \in P PROVE n + 1 \in P
    BY <1>4, <1>5, <2>2 DEF IsClosed, Spread
  <2>. HIDE DEF P
  <2>3. m \in P
    BY <2>1, <2>2, SetInduction
  <2>. QED
    BY <2>3 DEF P
<1>6. ASSUME NEW m \in Nat PROVE r \in W[m]
  <2>. DEFINE P == {n \in Nat : r \in W[n]}
  <2>1. 0 \in P
    BY <1>3
  <2>2. ASSUME NEW n \in Nat, n \in P PROVE n + 1 \in P
    BY <1>4, <2>2 DEF Spread
  <2>. HIDE DEF P
  <2>3. m \in P
    BY <2>1, <2>2, SetInduction
  <2>. QED
    BY <2>3 DEF P
<1>7. ASSUME NEW m \in Nat PROVE W[m] \subseteq Live(h) /\ IsFiniteSet(W[m])
  BY <1>2, <1>5, <1>7, FS_Subset
<1>8. ASSUME NEW m \in Nat PROVE IsClosed(h, W[m]) \/ Cardinality(W[m]) >= m + 1
  <2>. DEFINE P == {n \in Nat : IsClosed(h, W[n]) \/ Cardinality(W[n]) >= n + 1}
  <2>1. 0 \in P
    <3>1. Cardinality({r}) = 1
      BY FS_Singleton
    <3>. QED
      BY <1>3, <3>1
  <2>2. ASSUME NEW n \in Nat, n \in P PROVE n + 1 \in P
    <3>1. CASE IsClosed(h, W[n])
      <4>1. Spread(h, W[n]) = W[n]
        BY <3>1 DEF IsClosed, Spread
      <4>2. W[n + 1] = W[n]
        BY <1>4, <4>1
      <4>. QED
        BY <3>1, <4>2
    <3>2. CASE ~IsClosed(h, W[n])
      <4>1. W[n] \subseteq W[n + 1] /\ W[n] # W[n + 1]
        BY <1>4, <3>2 DEF IsClosed, Spread
      <4>2. IsFiniteSet(W[n]) /\ IsFiniteSet(W[n + 1])
        BY <1>7
      <4>3. Cardinality(W[n]) \in Nat /\ Cardinality(W[n + 1]) \in Nat
        BY <4>2, FS_CardinalityType
      <4>4. Cardinality(W[n]) < Cardinality(W[n + 1])
        BY <4>1, <4>2, <4>3, FS_Subset
      <4>5. Cardinality(W[n]) >= n + 1
        BY <2>2, <3>2
      <4>6. Cardinality(W[n + 1]) >= (n + 1) + 1
        BY <4>3, <4>4, <4>5
      <4>. QED
        BY <4>6
    <3>. QED
      BY <3>1, <3>2
  <2>. HIDE DEF P
  <2>3. m \in P
    BY <2>1, <2>2, SetInduction
  <2>. QED
    BY <2>3 DEF P
<1>9. IsClosed(h, W[N])
  <2>1. Cardinality(W[N]) <= N
    BY <1>2, <1>7, FS_Subset DEF N
  <2>2. Cardinality(W[N]) \in Nat
    BY <1>2, <1>7, FS_CardinalityType
  <2>. QED
    BY <1>2, <1>8, <2>1, <2>2
<1>. QED
  BY <1>1, <1>2, <1>5, <1>6, <1>7, <1>9

(* What is in reach of r, and not r, is in a slot of what is in reach.      *)
LEMMA ReachIsReferred ==
  ASSUME NEW h, IsHeap(h), IsClosed(h, Live(h)), NEW r \in Live(h),
         NEW x \in Reach(h, r), x # r
  PROVE  \E y \in Reach(h, r) : x \in Kids(h, y)
<1>. DEFINE C == {y \in Reach(h, r) : y = r \/ \E z \in Reach(h, r) : y \in Kids(h, z)}
<1>1. r \in C /\ IsClosed(h, C)
  BY ReachIsClosure DEF IsClosed
<1>. HIDE DEF C
<1>2. x \in C
  BY <1>1, ReachIsClosure
<1>. QED
  BY <1>2 DEF C

-----------------------------------------------------------------------------
(* What holds of a heap whose loose objects, those no slot refers to and    *)
(* some owner outside of it does, are L.  n tells if a map may have nulls.  *)
Refers(h, L) == \A r \in Live(h) : Kids(h, r) \subseteq Live(h) \ L
Separate(h) == \A p, q \in Live(h) : p # q => Kids(h, p) \cap Kids(h, q) = {}
Distinct(s) == \A i, j \in 1 .. Len(s) : s[i] = s[j] /\ s[i] # 0 => i = j
Rooted(h, L) ==
  \A U \in SUBSET Live(h) : L \subseteq U /\ IsClosed(h, U) => U = Live(h)
IsOwned(h, L) ==
  /\ L \subseteq Live(h)
  /\ Refers(h, L) /\ Separate(h) /\ Rooted(h, L)
  /\ \A r \in Live(h) : Distinct(h.objs[r].kids)

IsPair(h, r) == IsA(h, r, "tuple") /\ Len(h.objs[r].kids) = 2
HasNull(h, r) == \E i \in 1 .. Len(h.objs[r].kids) : h.objs[r].kids[i] = 0
IsShaped(h, r, n) ==
  /\ h.objs[r].type \in Scalars => h.objs[r].kids = <<>>
  /\ h.objs[r].type \in {"array", "map"} => Len(h.objs[r].kids) <= h.objs[r].capacity
  /\ h.objs[r].type = "rt" => Len(h.objs[r].kids) = 1 /\ IsA(h, h.objs[r].kids[1], "array")
  /\ h.objs[r].type = "map" => \A k \in Kids(h, r) : IsPair(h, k)
  /\ HasNull(h, r) => h.objs[r].type = "map" /\ n

Good(h, L, n) ==
  /\ IsHeap(h) /\ h.wild = FALSE
  /\ IsOwned(h, L)
  /\ \A r \in Live(h) : IsShaped(h, r, n)

LEMMA GoodIsClosed ==
  ASSUME NEW h, NEW L, NEW n, Good(h, L, n)
  PROVE  IsHeap(h) /\ IsClosed(h, Live(h))
  BY DEF Good, IsOwned, Refers, IsClosed

LEMMA MoreNulls ==
  ASSUME NEW h, NEW L, NEW n, NEW m, Good(h, L, n), n => m
  PROVE  Good(h, L, m)
  BY DEF Good, IsShaped

(* What is loose is in reach of nothing else. *)
LEMMA LooseIsAlone ==
  ASSUME NEW h, NEW L, NEW n, Good(h, L, n), NEW l \in L, NEW r \in Live(h), l \in Reach(h, r)
  PROVE  l = r
<1>. SUFFICES ASSUME l # r PROVE FALSE
  OBVIOUS
<1>1. PICK y \in Reach(h, r) : l \in Kids(h, y)
  BY GoodIsClosed, ReachIsReferred
<1>2. y \in Live(h)
  BY GoodIsClosed, ReachIsClosure
<1>. QED
  BY <1>1, <1>2 DEF Good, IsOwned, Refers

(* No object is below itself: it and all in its reach would be in the reach *)
(* of nothing loose.                                                        *)
LEMMA NoCycle ==
  ASSUME NEW h, NEW L, NEW n, Good(h, L, n), NEW r \in Live(h), NEW x \in Reach(h, r)
  PROVE  r \notin Kids(h, x)
<1>. SUFFICES ASSUME r \in Kids(h, x) PROVE FALSE
  OBVIOUS
<1>. DEFINE R == Reach(h, r)
            U == Live(h) \ R
<1>1. IsHeap(h) /\ IsClosed(h, Live(h)) /\ R \subseteq Live(h) /\ r \in R
  BY GoodIsClosed, ReachIsClosure
<1>2. \A z \in R : \E w \in R : z \in Kids(h, w)
  <2>. SUFFICES ASSUME NEW z \in R PROVE \E w \in R : z \in Kids(h, w)
    OBVIOUS
  <2>. QED
    BY <1>1, ReachIsReferred
<1>. HIDE DEF R
<1>3. L \subseteq U
  BY <1>1, <1>2 DEF Good, IsOwned, Refers
<1>4. IsClosed(h, U)
  <2>. SUFFICES ASSUME NEW y \in U, NEW z \in Kids(h, y) PROVE z \in U
    BY DEF IsClosed
  <2>1. z \in Live(h)
    BY <1>1 DEF IsClosed
  <2>2. \A w \in R : z \in Kids(h, w) => w = y
    BY <1>1 DEF Good, IsOwned, Separate
  <2>. QED
    BY <1>2, <2>1, <2>2
<1>5. U = Live(h)
  BY <1>3, <1>4 DEF Good, IsOwned, Rooted
<1>. QED
  BY <1>1, <1>5

(* What refers to an object in reach of r, other than r, is in reach too.   *)
LEMMA ReachGoesUp ==
  ASSUME NEW h, NEW L, NEW n, Good(h, L, n), NEW r \in Live(h), NEW y \in Live(h),
         NEW x \in Kids(h, y), x \in Reach(h, r), x # r
  PROVE  y \in Reach(h, r)
<1>1. PICK z \in Reach(h, r) : x \in Kids(h, z)
  BY GoodIsClosed, ReachIsReferred
<1>2. z \in Live(h)
  BY GoodIsClosed, ReachIsClosure
<1>. QED
  BY <1>1, <1>2 DEF Good, IsOwned, Separate

(* Nothing is in reach of two loose objects, *)
LEMMA LooseAreApart ==
  ASSUME NEW h, NEW L, NEW n, Good(h, L, n), NEW l \in L, NEW m \in L, l # m
  PROVE  Reach(h, l) \cap Reach(h, m) = {}
<1>. DEFINE I == Reach(h, l) \cap Reach(h, m)
            U == Live(h) \ I
<1>1. /\ IsHeap(h) /\ IsClosed(h, Live(h)) /\ L \subseteq Live(h)
      /\ I \subseteq Reach(h, l) /\ I \subseteq Reach(h, m) /\ I \subseteq Live(h)
  BY GoodIsClosed, ReachIsClosure DEF Good, IsOwned
<1>2. L \cap I = {}
  BY <1>1, LooseIsAlone
<1>3. IsClosed(h, U)
  <2>. SUFFICES ASSUME NEW y \in U, NEW z \in Kids(h, y), z \in I PROVE FALSE
    BY <1>1 DEF IsClosed
  <2>1. z # l /\ z # m
    BY <1>2
  <2>2. y \in Reach(h, l) /\ y \in Reach(h, m)
    BY <1>1, <2>1, ReachGoesUp
  <2>. QED
    BY <2>2
<1>. HIDE DEF I
<1>4. U = Live(h)
  BY <1>1, <1>2, <1>3 DEF Good, IsOwned, Rooted
<1>5. I = {}
  BY <1>1, <1>4
<1>. QED
  BY <1>5 DEF I

(* and all objects are in reach of one of them. *)
LEMMA AllInReach ==
  ASSUME NEW h, NEW L, NEW n, Good(h, L, n)
  PROVE  Live(h) = UNION {Reach(h, l) : l \in L}
<1>. DEFINE U == UNION {Reach(h, l) : l \in L}
<1>1. \A l \in L : /\ l \in Reach(h, l) /\ IsClosed(h, Reach(h, l))
                   /\ Reach(h, l) \subseteq Live(h)
  BY GoodIsClosed, ReachIsClosure DEF Good, IsOwned
<1>2. L \subseteq U /\ U \subseteq Live(h) /\ IsClosed(h, U)
  BY <1>1 DEF IsClosed
<1>. HIDE DEF U
<1>3. U = Live(h)
  BY <1>2 DEF Good, IsOwned, Rooted
<1>. QED
  BY <1>3 DEF U

(* No slot of the objects R refers to anything twice, or into M. *)
LEMMA MetOnceWhenOwned ==
  ASSUME NEW h, NEW L, NEW n, Good(h, L, n), NEW R, R \subseteq Live(h), NEW M,
         \A r \in R : Kids(h, r) \cap M = {}
  PROVE  MetOnce(h, R, M)
<1>. DEFINE slots == UNION {SlotsOf(h, r) : r \in R}
<1>1. ASSUME NEW p \in slots
      PROVE  /\ p = <<p[1], p[2]>> /\ p[1] \in R /\ At(h, p) \in Kids(h, p[1])
             /\ p[2] \in 1 .. Len(h.objs[p[1]].kids) /\ At(h, p) = h.objs[p[1]].kids[p[2]]
             /\ At(h, p) # 0
  <2>1. PICK r \in R : p \in SlotsOf(h, r)
    OBVIOUS
  <2>2. h.objs[r].kids \in Seq(Nat) /\ r \in Live(h)
    BY KidsDef, GoodIsClosed
  <2>3. DOMAIN h.objs[r].kids = 1 .. Len(h.objs[r].kids)
    BY <2>2
  <2>4. PICK i \in 1 .. Len(h.objs[r].kids) : p = <<r, i>> /\ h.objs[r].kids[i] # 0
    BY <2>1, <2>3 DEF SlotsOf, NULL
  <2>5. h.objs[r].kids[i] \in Kids(h, r)
    BY <2>2, <2>4, KidsDef, GoodIsClosed
  <2>. QED
    BY <2>4, <2>5 DEF At
<1>2. ASSUME NEW p \in slots, NEW q \in slots, At(h, p) = At(h, q) PROVE p = q
  <2>. HIDE DEF slots
  <2>1. p[1] \in Live(h) /\ q[1] \in Live(h)
    BY <1>1
  <2>2. p[1] = q[1]
    BY <1>1, <1>2, <2>1 DEF Good, IsOwned, Separate
  <2>3. Distinct(h.objs[p[1]].kids)
    BY <2>1 DEF Good, IsOwned
  <2>4. /\ p[2] \in 1 .. Len(h.objs[p[1]].kids) /\ At(h, p) = h.objs[p[1]].kids[p[2]]
        /\ q[2] \in 1 .. Len(h.objs[p[1]].kids) /\ At(h, q) = h.objs[p[1]].kids[q[2]]
        /\ At(h, p) # 0 /\ p = <<p[1], p[2]>> /\ q = <<q[1], q[2]>>
    BY <1>1, <2>2
  <2>5. p[2] = q[2]
    BY <1>2, <2>3, <2>4 DEF Distinct
  <2>. QED
    BY <2>2, <2>4, <2>5
<1>3. \A p \in slots : At(h, p) \notin M
  BY <1>1
<1>. QED
  BY <1>2, <1>3 DEF MetOnce

(* which is what OwnedBy says, and what cjson_release and cjson_clone need. *)
LEMMA GoodIsOwnedBy ==
  ASSUME NEW h, NEW L, NEW n, Good(h, L, n)
  PROVE  OwnedBy(h, L)
<1>1. \A r \in Live(h) : Kids(h, r) \cap L = {}
  BY DEF Good, IsOwned, Refers
<1>2. MetOnce(h, Live(h), L)
  BY <1>1, MetOnceWhenOwned
<1>. QED
  BY <1>2, AllInReach DEF OwnedBy

LEMMA ReachIsTree ==
  ASSUME NEW h, NEW L, NEW n, Good(h, L, n), NEW r \in Live(h)
  PROVE  IsTree(h, r, Reach(h, r))
<1>1. Reach(h, r) \subseteq Live(h)
  BY GoodIsClosed, ReachIsClosure
<1>2. \A x \in Reach(h, r) : Kids(h, x) \cap {r} = {}
  BY NoCycle
<1>3. MetOnce(h, Reach(h, r), {r})
  BY <1>1, <1>2, MetOnceWhenOwned
<1>. QED
  BY <1>1, <1>3 DEF IsTree

LEMMA ReleaseFrees ==
  ASSUME NEW h, NEW L, NEW n, Good(h, L, n), NEW r \in Live(h)
  PROVE  Release(h, r) = Free(h, Reach(h, r))
<1>1. r # NULL
  BY DEF Good, IsHeap, NULL
<1>. QED
  BY <1>1, ReachIsTree DEF Release

LEMMA CloneCopies ==
  ASSUME NEW h, NEW L, NEW n, Good(h, L, n), NEW r \in Live(h)
  PROVE  \/ n /\ Clone(h, r) = [heap |-> Wild(h), ref |-> NULL]
         \/ /\ Clone(h, r) = CloneTree(h, r, Reach(h, r))
            /\ \A x \in Reach(h, r) : ~HasNull(h, x)
<1>1. r # NULL /\ Reach(h, r) \subseteq Live(h)
  BY GoodIsClosed, ReachIsClosure DEF Good, IsHeap, NULL
<1>2. ASSUME NEW x \in Live(h) PROVE NULL \in ToSet(h.objs[x].kids) <=> HasNull(h, x)
  <2>1. h.objs[x].kids \in Seq(Nat)
    BY KidsDef, GoodIsClosed
  <2>2. DOMAIN h.objs[x].kids = 1 .. Len(h.objs[x].kids)
    BY <2>1
  <2>. QED
    BY <2>2 DEF HasNull, NULL, ToSet
<1>3. CASE IsIntact(h, r, Reach(h, r))
  BY <1>1, <1>2, <1>3 DEF IsIntact, Clone
<1>4. CASE ~IsIntact(h, r, Reach(h, r))
  <2>1. Clone(h, r) = [heap |-> Wild(h), ref |-> NULL]
    BY <1>1, <1>4 DEF Clone
  <2>2. n
    BY <1>1, <1>2, <1>4, ReachIsTree DEF IsIntact, Good, IsShaped
  <2>. QED
    BY <2>1, <2>2
<1>. QED
  BY <1>3, <1>4

-----------------------------------------------------------------------------
(* What a heap keeps of one before. *)
Keeps(h, g, S) == \A r \in S : r \in Live(g) /\ g.objs[r] = h.objs[r]

(* Two heaps side by side. *)
LEMMA UnionKeeps ==
  ASSUME NEW h, IsHeap(h), NEW f, IsHeap(f), Live(h) \cap Live(f) = {},
         NEW g, g = Added(h, f.objs)
  PROVE  /\ IsHeap(g) /\ g.wild = h.wild /\ Live(g) = Live(h) \cup Live(f)
         /\ Keeps(h, g, Live(h)) /\ Keeps(f, g, Live(f))
<1>1. /\ g = [objs |-> g.objs, wild |-> h.wild]
      /\ g.objs = [r \in Live(h) \cup Live(f) |-> IF r \in Live(h) THEN h.objs[r] ELSE f.objs[r]]
  <2>1. h = [objs |-> h.objs, wild |-> h.wild]
    BY DEF IsHeap
  <2>2. g = [h EXCEPT !.objs = [r \in Live(h) \cup Live(f) |->
                                  IF r \in Live(h) THEN h.objs[r] ELSE f.objs[r]]]
    BY DEF Added, Live
  <2>. DEFINE F == [r \in Live(h) \cup Live(f) |-> IF r \in Live(h) THEN h.objs[r] ELSE f.objs[r]]
  <2>. HIDE DEF F
  <2>3. g = [objs |-> F, wild |-> h.wild]
    <3>1. g = [h EXCEPT !.objs = F]
      BY <2>2 DEF F
    <3>2. h = [objs |-> h.objs, wild |-> h.wild] 
      BY <2>1
    <3>. QED
      BY <3>1, <3>2, WithObjects
  <2>4. g.objs = F /\ g = [objs |-> g.objs, wild |-> h.wild]
    BY <2>3
  <2>. QED
    BY <2>4 DEF F
<1>2. /\ Live(g) = Live(h) \cup Live(f) /\ g.wild = h.wild
      /\ \A r \in Live(h) : g.objs[r] = h.objs[r]
      /\ \A r \in Live(f) : g.objs[r] = f.objs[r]
  BY <1>1 DEF Live
<1>3. IsHeap(g)
  <2>1. g = [objs |-> g.objs, wild |-> g.wild]
    BY <1>1
  <2>2. g.objs = [r \in Live(g) |-> g.objs[r]]
    BY <1>1, <1>2
  <2>3. IsFiniteSet(Live(g))
    <3>1. IsFiniteSet(Live(h)) /\ IsFiniteSet(Live(f))
      BY DEF IsHeap
    <3>. QED
      BY <1>2, <3>1, FS_Union
  <2>4. /\ Live(g) \subseteq Nat \ {0}
        /\ \A r \in Live(g) : IsObject(g.objs[r])
    BY <1>2 DEF IsHeap
  <2>. QED
    BY <2>1, <2>2, <2>3, <2>4 DEF IsHeap
<1>. QED
  BY <1>2, <1>3 DEF Keeps

LEMMA Union ==
  ASSUME NEW h, NEW L, NEW n, Good(h, L, n),
         NEW f, NEW M, Good(f, M, n), Live(h) \cap Live(f) = {},
         NEW g, g = Added(h, f.objs)
  PROVE  Good(g, L \cup M, n)
<1>1. IsHeap(h) /\ IsHeap(f) /\ h.wild = FALSE
  BY DEF Good
<1>2. /\ Live(g) = Live(h) \cup Live(f) /\ g.wild = FALSE
      /\ \A r \in Live(h) : g.objs[r] = h.objs[r]
      /\ \A r \in Live(f) : g.objs[r] = f.objs[r]
  BY <1>1, UnionKeeps DEF Keeps
<1>3. IsHeap(g)
  BY <1>1, UnionKeeps
<1>4. /\ \A r \in Live(h) : Kids(g, r) = Kids(h, r)
      /\ \A r \in Live(f) : Kids(g, r) = Kids(f, r)
      /\ \A r \in Live(h) : Kids(h, r) \subseteq Live(h) \ L
      /\ \A r \in Live(f) : Kids(f, r) \subseteq Live(f) \ M
  BY <1>2 DEF Kids, Good, IsOwned, Refers
<1>5. L \subseteq Live(h) /\ M \subseteq Live(f)
  BY DEF Good, IsOwned
<1>6. Refers(g, L \cup M)
  BY <1>2, <1>4, <1>5 DEF Refers
<1>7. Separate(g)
  <2>. SUFFICES ASSUME NEW p \in Live(g), NEW q \in Live(g), p # q
                PROVE  Kids(g, p) \cap Kids(g, q) = {}
    BY DEF Separate
  <2>1. CASE p \in Live(h) /\ q \in Live(h)
    BY <1>4, <2>1 DEF Good, IsOwned, Separate
  <2>2. CASE p \in Live(f) /\ q \in Live(f)
    BY <1>4, <2>2 DEF Good, IsOwned, Separate
  <2>3. CASE p \in Live(h) /\ q \in Live(f)
    BY <1>4, <2>3
  <2>4. CASE p \in Live(f) /\ q \in Live(h)
    BY <1>4, <2>4
  <2>. QED
    BY <1>2, <2>1, <2>2, <2>3, <2>4
<1>8. Rooted(g, L \cup M)
  <2>. SUFFICES ASSUME NEW U \in SUBSET Live(g), L \cup M \subseteq U, IsClosed(g, U)
                PROVE  U = Live(g)
    BY DEF Rooted
  <2>1. IsClosed(h, U \cap Live(h)) /\ L \subseteq U \cap Live(h)
    BY <1>4, <1>5 DEF IsClosed
  <2>2. IsClosed(f, U \cap Live(f)) /\ M \subseteq U \cap Live(f)
    BY <1>4, <1>5 DEF IsClosed
  <2>3. U \cap Live(h) = Live(h)
    BY <2>1 DEF Good, IsOwned, Rooted
  <2>4. U \cap Live(f) = Live(f)
    BY <2>2 DEF Good, IsOwned, Rooted
  <2>. QED
    BY <1>2, <2>3, <2>4
<1>9. \A r \in Live(g) : Distinct(g.objs[r].kids)
  BY <1>2 DEF Good, IsOwned
<1>10. ASSUME NEW r \in Live(g) PROVE IsShaped(g, r, n)
  <2>1. CASE r \in Live(h)
    <3>1. IsShaped(h, r, n)
      BY <2>1 DEF Good
    <3>2. \A k : IsA(h, k, "array") => IsA(g, k, "array")
      BY <1>2 DEF IsA
    <3>3. \A k : IsPair(h, k) => IsPair(g, k)
      BY <1>2 DEF IsPair, IsA
    <3>. QED
      BY <1>2, <1>4, <2>1, <3>1, <3>2, <3>3 DEF IsShaped, HasNull
  <2>2. CASE r \in Live(f)
    <3>1. IsShaped(f, r, n)
      BY <2>2 DEF Good
    <3>2. \A k : IsA(f, k, "array") => IsA(g, k, "array")
      BY <1>2 DEF IsA
    <3>3. \A k : IsPair(f, k) => IsPair(g, k)
      BY <1>2 DEF IsPair, IsA
    <3>. QED
      BY <1>2, <1>4, <2>2, <3>1, <3>2, <3>3 DEF IsShaped, HasNull
  <2>. QED
    BY <1>2, <2>1, <2>2
<1>11. L \cup M \subseteq Live(g)
  BY <1>2, <1>5
<1>12. Good(g, L \cup M, n)
  BY <1>2, <1>3, <1>6, <1>7, <1>8, <1>9, <1>10, <1>11 DEF Good, IsOwned
<1>. QED
  BY <1>12

-----------------------------------------------------------------------------
(* One object gets other parts: D are the ones it loses, A the loose ones   *)
(* it gets.  C shows that it is not itself in reach of those.               *)
SameBut(h, g, x) ==
  /\ Live(g) = Live(h) /\ g.wild = h.wild
  /\ \A r \in Live(h) \ {x} : g.objs[r] = h.objs[r]
  /\ g.objs[x].type = h.objs[x].type
InMap(h, x) == \E m \in Live(h) : x \in Kids(h, m) /\ h.objs[m].type = "map"

LEMMA NewParts ==
  ASSUME NEW h, NEW L, NEW n, Good(h, L, n), NEW x \in Live(h),
         NEW g, IsHeap(g), SameBut(h, g, x),
         NEW A, NEW D, NEW C, A \subseteq L, D \subseteq Kids(h, x),
         Kids(g, x) = (Kids(h, x) \ D) \cup A, Distinct(g.objs[x].kids),
         A \subseteq C, IsClosed(h, C), x \notin C,
         IsShaped(g, x, n),
         InMap(h, x) => Len(g.objs[x].kids) = Len(h.objs[x].kids)
  PROVE  Good(g, (L \ A) \cup D, n)
<1>. DEFINE M == (L \ A) \cup D
<1>1. Live(g) = Live(h) /\ g.wild = FALSE
  BY DEF SameBut, Good
<1>2. \A r \in Live(h) \ {x} : Kids(g, r) = Kids(h, r)
  BY DEF SameBut, Kids
<1>3. \A r \in Live(h) : Kids(h, r) \subseteq Live(h) \ L
  BY DEF Good, IsOwned, Refers
<1>4. \A r \in Live(h) \ {x} : Kids(h, r) \cap D = {}
  BY DEF Good, IsOwned, Separate
<1>5. M \subseteq Live(g) /\ L \subseteq Live(h)
  BY <1>1, <1>3 DEF Good, IsOwned
<1>6. Refers(g, M)
  BY <1>1, <1>2, <1>3, <1>4, <1>5 DEF Refers
<1>7. Separate(g)
  <2>. SUFFICES ASSUME NEW p \in Live(h), NEW q \in Live(h), p # q
                PROVE  Kids(g, p) \cap Kids(g, q) = {}
    BY <1>1 DEF Separate
  <2>1. Kids(h, p) \cap Kids(h, q) = {}
    BY DEF Good, IsOwned, Separate
  <2>. QED
    BY <1>2, <1>3, <2>1
<1>8. Rooted(g, M)
  <2>. SUFFICES ASSUME NEW U \in SUBSET Live(h), M \subseteq U, IsClosed(g, U)
                PROVE  U = Live(h)
    BY <1>1 DEF Rooted
  <2>1. x \in U => Kids(h, x) \subseteq U
    BY DEF IsClosed
  <2>2. IsClosed(h, U)
    BY <1>2, <2>1 DEF IsClosed
  <2>. DEFINE V == (U \cup C) \cap Live(h)
  <2>3. IsClosed(h, V)
    BY <1>3, <2>2 DEF IsClosed
  <2>4. L \subseteq V /\ V \in SUBSET Live(h)
    BY <1>5
  <2>5. V = Live(h)
    BY <2>3, <2>4 DEF Good, IsOwned, Rooted
  <2>6. x \in U
    BY <2>5
  <2>7. A \subseteq U
    BY <2>6 DEF IsClosed
  <2>8. L \subseteq U
    BY <2>7
  <2>. QED
    BY <2>2, <2>8 DEF Good, IsOwned, Rooted
<1>9. \A r \in Live(g) : Distinct(g.objs[r].kids)
  BY <1>1 DEF Good, IsOwned, SameBut
<1>10. ASSUME NEW r \in Live(h) PROVE IsShaped(g, r, n)
  <2>. SUFFICES ASSUME r # x PROVE IsShaped(g, r, n)
    OBVIOUS
  <2>1. g.objs[r] = h.objs[r] /\ IsShaped(h, r, n)
    BY DEF SameBut, Good
  <2>2. IsA(h, h.objs[r].kids[1], "array") => IsA(g, h.objs[r].kids[1], "array")
    BY DEF IsA, SameBut
  <2>3. ASSUME h.objs[r].type = "map", NEW k \in Kids(h, r) PROVE IsPair(g, k)
    <3>1. IsPair(h, k)
      BY <2>1, <2>3 DEF IsShaped
    <3>2. k = x => Len(g.objs[k].kids) = Len(h.objs[k].kids)
      BY <2>3 DEF InMap
    <3>. QED
      BY <1>1, <3>1, <3>2 DEF IsPair, IsA, SameBut
  <2>. QED
    BY <1>2, <2>1, <2>2, <2>3 DEF IsShaped, HasNull
<1>. QED
  BY <1>1, <1>5, <1>6, <1>7, <1>8, <1>9, <1>10 DEF Good, IsOwned

(* A loose object goes with all of its parts. *)
IsFreed(h, L, n, l, g) ==
  /\ Good(g, L \ {l}, n) /\ Live(g) = Live(h) \ Reach(h, l)
  /\ \A r \in Live(g) : g.objs[r] = h.objs[r]

LEMMA Freed ==
  ASSUME NEW h, NEW L, NEW n, Good(h, L, n), NEW l \in L
  PROVE  IsFreed(h, L, n, l, Free(h, Reach(h, l)))
<1>. DEFINE R == Reach(h, l)
            g == Free(h, R)
<1>1. l \in Live(h) /\ l \in R /\ R \subseteq Live(h) /\ IsClosed(h, R)
  BY GoodIsClosed, ReachIsClosure DEF Good, IsOwned
<1>2. \A r \in R : r # l => \E y \in R : r \in Kids(h, y)
  BY <1>1, GoodIsClosed, ReachIsReferred
<1>3. L \cap R = {l}
  BY <1>1, LooseIsAlone
<1>. HIDE DEF R
<1>. DEFINE F == [r \in Live(h) \ R |-> h.objs[r]]
<1>4. g = [h EXCEPT !.objs = F] /\ h = [objs |-> h.objs, wild |-> h.wild] /\ h.wild = FALSE
  BY DEF Free, Live, Good, IsHeap
<1>. HIDE DEF g
<1>5. g = [objs |-> F, wild |-> FALSE] /\ g.objs = F /\ g.wild = FALSE
  BY <1>4, WithObjects
<1>6. Live(g) = Live(h) \ R /\ \A r \in Live(g) : g.objs[r] = h.objs[r]
  BY <1>5 DEF Live
<1>. HIDE DEF F
<1>7. IsHeap(g)
  <2>1. g.objs = [r \in Live(g) |-> g.objs[r]]
    BY <1>5, <1>6 DEF F
  <2>2. IsFiniteSet(Live(g))
    <3>1. IsFiniteSet(Live(h))
      BY DEF Good, IsHeap
    <3>. QED
      BY <1>6, <3>1, FS_Subset
  <2>3. Live(g) \subseteq Nat \ {0} /\ \A r \in Live(g) : IsObject(g.objs[r])
    BY <1>6 DEF Good, IsHeap
  <2>. QED
    BY <1>5, <2>1, <2>2, <2>3 DEF IsHeap
<1>8. \A r \in Live(g) : Kids(g, r) = Kids(h, r)
  BY <1>6 DEF Kids
<1>9. \A r \in Live(g) : Kids(h, r) \subseteq Live(g) \ L
  <2>. SUFFICES ASSUME NEW r \in Live(g), NEW k \in Kids(h, r) PROVE k \in Live(g) \ L
    OBVIOUS
  <2>1. k \in Live(h) \ L
    BY <1>6 DEF Good, IsOwned, Refers
  <2>2. k \notin R
    BY <1>1, <1>2, <1>6, <2>1 DEF Good, IsOwned, Separate
  <2>. QED
    BY <1>6, <2>1, <2>2
<1>10. Refers(g, L \ {l}) /\ Separate(g)
  BY <1>6, <1>8, <1>9 DEF Refers, Separate, Good, IsOwned
<1>11. Rooted(g, L \ {l})
  <2>. SUFFICES ASSUME NEW U \in SUBSET Live(g), L \ {l} \subseteq U, IsClosed(g, U)
                PROVE  U = Live(g)
    BY DEF Rooted
  <2>1. IsClosed(h, U \cup R) /\ L \subseteq U \cup R /\ U \cup R \in SUBSET Live(h)
    BY <1>1, <1>6, <1>8 DEF IsClosed
  <2>2. U \cup R = Live(h)
    BY <2>1 DEF Good, IsOwned, Rooted
  <2>. QED
    BY <1>6, <2>2
<1>12. L \ {l} \subseteq Live(g) /\ \A r \in Live(g) : Distinct(g.objs[r].kids)
  BY <1>3, <1>6 DEF Good, IsOwned
<1>13. ASSUME NEW r \in Live(g) PROVE IsShaped(g, r, n)
  <2>1. g.objs[r] = h.objs[r] /\ IsShaped(h, r, n)
    BY <1>6 DEF Good
  <2>2. h.objs[r].type = "rt" => IsA(g, h.objs[r].kids[1], "array")
    <3>. SUFFICES ASSUME h.objs[r].type = "rt" PROVE IsA(g, h.objs[r].kids[1], "array")
      OBVIOUS
    <3>1. Len(h.objs[r].kids) = 1 /\ IsA(h, h.objs[r].kids[1], "array")
      BY <2>1 DEF IsShaped
    <3>2. h.objs[r].kids[1] # 0
      BY <3>1 DEF IsA, Good, IsHeap
    <3>3. h.objs[r].kids[1] \in Kids(h, r)
      BY <1>6, <3>1, <3>2, GoodIsClosed, KidsDef
    <3>. QED
      BY <1>6, <1>9, <3>1, <3>3 DEF IsA
  <2>3. \A k \in Kids(h, r) : IsPair(h, k) => IsPair(g, k)
    BY <1>6, <1>9 DEF IsPair, IsA
  <2>. QED
    BY <1>8, <2>1, <2>2, <2>3 DEF IsShaped, HasNull
<1>14. Good(g, L \ {l}, n)
  BY <1>5, <1>7, <1>10, <1>11, <1>12, <1>13 DEF Good, IsOwned
<1>. QED
  BY <1>6, <1>14 DEF IsFreed, g, R

-----------------------------------------------------------------------------
(* New addresses. *)
LEMMA FreshAddresses ==
  ASSUME NEW h, IsHeap(h), NEW s, s \subseteq Nat, IsFiniteSet(s)
  PROVE  /\ DOMAIN Fresh(h, s) = s
         /\ \A x \in s : Fresh(h, s)[x] \in Nat \ {0} /\ Fresh(h, s)[x] \notin Live(h)
         /\ \A x, y \in s : Fresh(h, s)[x] = Fresh(h, s)[y] => x = y
<1>. DEFINE all == Live(h) \cup {NULL}
            top == Max(all)
            rank(x) == Cardinality({y \in s : y <= x})
<1>1. top \in Nat /\ \A y \in Live(h) : y <= top
  <2>1. all \subseteq Nat /\ all # {}
    BY DEF IsHeap, NULL
  <2>2. IsFiniteSet(Live(h)) /\ IsFiniteSet({NULL})
    BY FS_Singleton DEF IsHeap
  <2>3. IsFiniteSet(all)
    BY <2>2, FS_Union
  <2>4. PICK b \in Nat : \A y \in all : y <= b
    BY <2>1, <2>3, FiniteBound
  <2>5. PICK m \in all : \A y \in all : y <= m
    BY <2>1, <2>4, GreatestNatural
  <2>6. \E m2 \in all : \A y \in all : m2 >= y
    BY <2>1, <2>5
  <2>7. top \in all /\ \A y \in all : top >= y
    BY <2>6 DEF Max
  <2>. QED
    BY <2>1, <2>7
<1>2. ASSUME NEW x \in s
      PROVE  IsFiniteSet({y \in s : y <= x}) /\ rank(x) \in Nat /\ rank(x) > 0
  <2>. DEFINE X == {y \in s : y <= x}
  <2>1. x \in Nat
    OBVIOUS
  <2>2. X \subseteq s /\ x \in X
    BY <2>1
  <2>. HIDE DEF X
  <2>3. IsFiniteSet(X) /\ Cardinality(X) \in Nat
    BY <2>2, FS_Subset, FS_CardinalityType
  <2>4. Cardinality(X) # 0
    BY <2>2, <2>3, FS_EmptySet
  <2>5. Cardinality(X) > 0
    BY <2>3, <2>4
  <2>. QED
    BY <2>3, <2>5 DEF X
<1>3. ASSUME NEW x \in s, NEW y \in s, x < y PROVE rank(x) < rank(y)
  <2>. DEFINE X == {z \in s : z <= x}
              Y == {z \in s : z <= y}
  <2>1. X \subseteq Y /\ y \in Y /\ y \notin X
    <3>1. x \in Nat /\ y \in Nat /\ \A z \in s : z \in Nat
      OBVIOUS
    <3>2. \A z \in s : z <= x => z <= y
      BY <1>3, <3>1
    <3>3. y <= y /\ ~(y <= x)
      BY <1>3, <3>1
    <3>. QED
      BY <3>2, <3>3
  <2>2. IsFiniteSet(Y) /\ rank(x) \in Nat /\ rank(y) \in Nat
    BY <1>2
  <2>. HIDE DEF X, Y
  <2>3. Cardinality(X) <= Cardinality(Y) /\ (Cardinality(Y) = Cardinality(X) => Y = X)
    BY <2>1, <2>2, FS_Subset
  <2>. QED
    BY <2>1, <2>2, <2>3 DEF X, Y
<1>. HIDE DEF top
<1>4. Fresh(h, s) = [x \in s |-> top + rank(x)]
  BY DEF Fresh, top
<1>. HIDE DEF rank
<1>5. \A x \in s : Fresh(h, s)[x] = top + rank(x)
  BY <1>4
<1>6. ASSUME NEW x \in s PROVE top + rank(x) \in Nat \ {0} /\ top + rank(x) \notin Live(h)
  <2>1. rank(x) \in Nat /\ rank(x) > 0
    BY <1>2 DEF rank
  <2>2. top + rank(x) > top /\ top + rank(x) \in Nat
    BY <1>1, <2>1
  <2>3. top + rank(x) \in Live(h) => top + rank(x) <= top
    BY <1>1
  <2>. QED
    BY <1>1, <2>2, <2>3
<1>7. ASSUME NEW x \in s, NEW y \in s, top + rank(x) = top + rank(y) PROVE x = y
  <2>1. rank(x) \in Nat /\ rank(y) \in Nat /\ x \in Nat /\ y \in Nat
    BY <1>2 DEF rank
  <2>2. rank(x) = rank(y)
    BY <1>1, <1>7, <2>1
  <2>3. ~(x < y) /\ ~(y < x)
    BY <1>3, <2>1, <2>2 DEF rank
  <2>. QED
    BY <2>1, <2>3
<1>. QED
  BY <1>4, <1>5, <1>6, <1>7

-----------------------------------------------------------------------------
(* Objects without parts, all loose. *)
LEMMA PlainObjects ==
  ASSUME NEW s, s \subseteq Nat \ {0}, IsFiniteSet(s), NEW O, O = [x \in s |-> O[x]], NEW n,
         \A x \in s : IsObject(O[x]) /\ O[x].kids = <<>> /\ O[x].type # "rt"
  PROVE  LET f == [objs |-> O, wild |-> FALSE] IN Live(f) = s /\ Good(f, s, n)
<1>. DEFINE f == [objs |-> O, wild |-> FALSE]
<1>1. f = [objs |-> f.objs, wild |-> f.wild] /\ f.objs = O /\ f.wild = FALSE
  OBVIOUS
<1>2. Live(f) = s
  BY DEF Live
<1>. HIDE DEF f
<1>3. IsHeap(f)
  BY <1>1, <1>2 DEF IsHeap
<1>4. \A x \in s : Kids(f, x) = {} /\ Len(f.objs[x].kids) = 0
  <2>1. \A x \in s : Len(f.objs[x].kids) = 0
    BY <1>1
  <2>2. \A x \in s : Kids(f, x) = {f.objs[x].kids[i] : i \in 1 .. 0} \ {0}
    BY <1>2, <1>3, <2>1, KidsDef
  <2>. QED
    BY <2>1, <2>2
<1>5. IsOwned(f, s)
  <2>1. Refers(f, s) /\ Separate(f) /\ Rooted(f, s)
    BY <1>2, <1>4 DEF Refers, Separate, Rooted
  <2>2. \A x \in s : Distinct(f.objs[x].kids)
    <3>. SUFFICES ASSUME NEW x \in s PROVE Distinct(f.objs[x].kids)
      OBVIOUS
    <3>1. Len(f.objs[x].kids) = 0
      BY <1>4
    <3>. QED
      BY <3>1 DEF Distinct
  <2>. QED
    BY <1>2, <2>1, <2>2 DEF IsOwned
<1>6. \A x \in s : IsShaped(f, x, n)
  <2>. SUFFICES ASSUME NEW x \in s PROVE IsShaped(f, x, n)
    OBVIOUS
  <2>1. f.objs[x].kids = <<>> /\ f.objs[x].type # "rt" /\ f.objs[x].capacity \in Nat
    BY <1>1 DEF IsObject
  <2>. QED
    BY <1>4, <2>1 DEF IsShaped, HasNull
<1>7. Good(f, s, n)
  BY <1>1, <1>2, <1>3, <1>5, <1>6 DEF Good
<1>. QED
  BY <1>2, <1>7 DEF f

LEMMA Allocated ==
  ASSUME NEW h, NEW L, NEW n, Good(h, L, n),
         NEW o, IsObject(o), o.kids = <<>>, o.type # "rt"
  PROVE  LET a == Allocate(h, o)
         IN  /\ a = [heap |-> a.heap, ref |-> a.ref]
             /\ a.ref \notin Live(h) /\ Good(a.heap, L \cup {a.ref}, n)
             /\ Live(a.heap) = Live(h) \cup {a.ref} /\ Keeps(h, a.heap, Live(h))
             /\ a.heap.objs[a.ref] = o /\ Kids(a.heap, a.ref) = {}
<1>. DEFINE r == Fresh(h, {1})[1]
            O == [x \in {r} |-> o]
            g == Added(h, O)
<1>1. Allocate(h, o) = [heap |-> g, ref |-> r]
  BY DEF Allocate
<1>2. r \in Nat \ {0} /\ r \notin Live(h)
  <2>1. IsFiniteSet({1}) /\ IsHeap(h)
    BY FS_Singleton DEF Good
  <2>. QED
    BY <2>1, FreshAddresses
<1>. HIDE DEF r
<1>3. PICK f : f.objs = O /\ Live(f) = {r} /\ Good(f, {r}, n)
  <2>1. IsFiniteSet({r}) /\ {r} \subseteq Nat \ {0}
    BY <1>2, FS_Singleton
  <2>2. O = [x \in {r} |-> O[x]] /\ \A x \in {r} : O[x] = o
    OBVIOUS
  <2>. HIDE DEF O
  <2>3. LET f == [objs |-> O, wild |-> FALSE] IN Live(f) = {r} /\ Good(f, {r}, n)
    BY <2>1, <2>2, PlainObjects
  <2>. QED
    BY <2>3
<1>4. O[r] = o
  OBVIOUS
<1>. HIDE DEF O
<1>5. /\ Good(g, L \cup {r}, n) /\ Live(g) = Live(h) \cup Live(f)
      /\ Keeps(h, g, Live(h)) /\ Keeps(f, g, Live(f))
  <2>1. Live(h) \cap Live(f) = {}
    BY <1>2, <1>3
  <2>2. g = Added(h, f.objs)
    BY <1>3
  <2>3. Good(h, L, n) /\ Good(f, {r}, n) /\ IsHeap(h) /\ IsHeap(f)
    BY <1>3 DEF Good
  <2>. HIDE DEF g
  <2>4. Good(g, L \cup {r}, n)
    BY <2>1, <2>2, <2>3, Union
  <2>. QED
    BY <2>1, <2>2, <2>3, <2>4, UnionKeeps
<1>6. g.objs[r] = o /\ Live(g) = Live(h) \cup {r}
  BY <1>3, <1>4, <1>5 DEF Keeps
<1>. HIDE DEF g
<1>7. Kids(g, r) = {}
  <2>1. Kids(g, r) = {g.objs[r].kids[i] : i \in 1 .. Len(g.objs[r].kids)} \ {0}
    BY <1>5, <1>6, KidsDef, GoodIsClosed
  <2>2. Len(g.objs[r].kids) = 0
    BY <1>6
  <2>. QED
    BY <2>1, <2>2
<1>. QED
  BY <1>1, <1>2, <1>5, <1>6, <1>7

-----------------------------------------------------------------------------
(* The copy of an object with all of its parts is a good heap by itself. *)
Renamed(o, copy) == [o EXCEPT !.kids = [i \in DOMAIN o.kids |-> copy[o.kids[i]]]]
IsCopy(f, h, copy, P) ==
  /\ \A x \in P : copy[x] \in Nat \ {0} /\ f.objs[copy[x]] = Renamed(h.objs[x], copy)
  /\ \A x, y \in P : copy[x] = copy[y] => x = y
  /\ f = [objs |-> f.objs, wild |-> f.wild] /\ f.wild = FALSE
  /\ f.objs = [c \in Live(f) |-> f.objs[c]]
  /\ Live(f) = {copy[x] : x \in P}
LEMMA CopyIsGood ==
  ASSUME NEW h, NEW L, NEW n, Good(h, L, n), NEW r \in Live(h),
         NEW copy, NEW f, IsCopy(f, h, copy, Reach(h, r)),
         \A x \in Reach(h, r) : ~HasNull(h, x)
  PROVE  Good(f, {copy[r]}, n)
<1>. DEFINE P == Reach(h, r)
<1>0. IsCopy(f, h, copy, P) /\ \A x \in P : ~HasNull(h, x)
  OBVIOUS
<1>1. /\ IsHeap(h) /\ IsClosed(h, Live(h)) /\ r \in P /\ IsClosed(h, P) /\ P \subseteq Live(h)
      /\ \A C : r \in C /\ IsClosed(h, C) => P \subseteq C
  BY GoodIsClosed, ReachIsClosure
<1>2. \A x \in P : r \notin Kids(h, x)
  BY NoCycle
<1>. HIDE DEF P
<1>3. ASSUME NEW x \in P
      PROVE  /\ IsObject(f.objs[copy[x]]) /\ f.objs[copy[x]].type = h.objs[x].type
             /\ f.objs[copy[x]].capacity = h.objs[x].capacity
             /\ Len(f.objs[copy[x]].kids) = Len(h.objs[x].kids)
             /\ \A i \in 1 .. Len(h.objs[x].kids) :
                  h.objs[x].kids[i] \in P /\ f.objs[copy[x]].kids[i] = copy[h.objs[x].kids[i]]
  <2>. DEFINE o == h.objs[x]
              k == [i \in DOMAIN o.kids |-> copy[o.kids[i]]]
  <2>1. IsObject(o)
    BY <1>1 DEF IsHeap
  <2>2. \A i \in 1 .. Len(o.kids) : o.kids[i] \in P
    <3>. SUFFICES ASSUME NEW i \in 1 .. Len(o.kids) PROVE o.kids[i] \in P
      OBVIOUS
    <3>1. o.kids[i] # 0
      BY <1>0 DEF HasNull
    <3>2. o.kids[i] \in Kids(h, x)
      BY <1>1, <3>1, KidsDef
    <3>. QED
      BY <1>1, <3>2 DEF IsClosed
  <2>3. f.objs[copy[x]] = [o EXCEPT !.kids = k]
    BY <1>0 DEF IsCopy, Renamed
  <2>. HIDE DEF o
  <2>4. o = [type |-> o.type, value |-> o.value, kids |-> o.kids, capacity |-> o.capacity]
        /\ o.kids \in Seq(Nat) /\ DOMAIN o.kids = 1 .. Len(o.kids) /\ Len(o.kids) \in Nat
    BY <2>1 DEF IsObject
  <2>5. \A i \in 1 .. Len(o.kids) : copy[o.kids[i]] \in Nat
    BY <1>0, <2>2 DEF IsCopy
  <2>6. k = [i \in 1 .. Len(o.kids) |-> copy[o.kids[i]]]
    BY <2>4
  <2>7. k \in Seq(Nat) /\ Len(k) = Len(o.kids)
    BY <2>4, <2>5, <2>6
  <2>8. \A i \in 1 .. Len(o.kids) : k[i] = copy[o.kids[i]]
    BY <2>6
  <2>. HIDE DEF k
  <2>9. f.objs[copy[x]] = [type |-> o.type, value |-> o.value, kids |-> k, capacity |-> o.capacity]
    BY <2>3, <2>4
  <2>10. IsObject(f.objs[copy[x]])
    BY <2>1, <2>7, <2>9 DEF IsObject
  <2>. QED
    BY <2>2, <2>7, <2>8, <2>9, <2>10 DEF o
<1>4. Live(f) = {copy[x] : x \in P} /\ f.wild = FALSE
  BY <1>0 DEF IsCopy
<1>5. \A x \in P : copy[x] \in Nat \ {0}
  BY <1>0 DEF IsCopy
<1>6. \A x, y \in P : copy[x] = copy[y] => x = y
  BY <1>0 DEF IsCopy
<1>7. IsHeap(f)
  <2>1. IsFiniteSet(P)
    BY <1>1, FS_Subset DEF IsHeap
  <2>2. IsFiniteSet(Live(f))
    <3>. DEFINE m == [x \in P |-> copy[x]]
    <3>1. m \in Surjection(P, Live(f))
      BY <1>4 DEF Surjection
    <3>. QED
      BY <2>1, <3>1, FS_Surjection
  <2>3. \A c \in Live(f) : \E x \in P : c = copy[x]
    BY <1>4
  <2>4. Live(f) \subseteq Nat \ {0} /\ \A c \in Live(f) : IsObject(f.objs[c])
    BY <1>3, <1>5, <2>3
  <2>. QED
    BY <1>0, <2>2, <2>4 DEF IsHeap, IsCopy
<1>8. ASSUME NEW x \in P PROVE Kids(f, copy[x]) = {copy[k] : k \in Kids(h, x)}
  <2>1. copy[x] \in Live(f) /\ x \in Live(h)
    BY <1>1, <1>4
  <2>2. Kids(f, copy[x]) = {f.objs[copy[x]].kids[i] : i \in 1 .. Len(f.objs[copy[x]].kids)} \ {0}
    BY <1>7, <2>1, KidsDef
  <2>3. Kids(h, x) = {h.objs[x].kids[i] : i \in 1 .. Len(h.objs[x].kids)} \ {0}
    BY <1>1, <2>1, KidsDef
  <2>4. 0 \notin P
    BY <1>1 DEF IsHeap
  <2>5. Kids(h, x) = {h.objs[x].kids[i] : i \in 1 .. Len(h.objs[x].kids)}
    BY <1>3, <2>3, <2>4
  <2>6. \A i \in 1 .. Len(h.objs[x].kids) : f.objs[copy[x]].kids[i] # 0
    <3>1. \A i \in 1 .. Len(h.objs[x].kids) :
            h.objs[x].kids[i] \in P /\ f.objs[copy[x]].kids[i] = copy[h.objs[x].kids[i]]
      BY <1>3
    <3>. QED
      BY <1>5, <3>1
  <2>7. Kids(f, copy[x]) = {f.objs[copy[x]].kids[i] : i \in 1 .. Len(h.objs[x].kids)}
    BY <1>3, <2>2, <2>6
  <2>8. Kids(f, copy[x]) = {copy[h.objs[x].kids[i]] : i \in 1 .. Len(h.objs[x].kids)}
    <3>1. PICK S, k, l : S = 1 .. Len(h.objs[x].kids) /\ k = h.objs[x].kids /\ l = f.objs[copy[x]].kids
      OBVIOUS
    <3>2. \A i \in S : l[i] = copy[k[i]]
      BY <1>3, <3>1
    <3>3. {l[i] : i \in S} = {copy[k[i]] : i \in S}
      BY <3>2
    <3>4. Kids(f, copy[x]) = {l[i] : i \in S}
      BY <2>7, <3>1
    <3>. QED
      BY <3>1, <3>3, <3>4
  <2>. QED
    BY <2>5, <2>8
<1>9. \A x \in P : Kids(h, x) \subseteq P
  BY <1>1 DEF IsClosed
<1>10. Refers(f, {copy[r]})
  BY <1>1, <1>2, <1>4, <1>6, <1>8, <1>9 DEF Refers
<1>11. Separate(f)
  <2>. SUFFICES ASSUME NEW p \in P, NEW q \in P, copy[p] # copy[q]
                PROVE  Kids(f, copy[p]) \cap Kids(f, copy[q]) = {}
    BY <1>4 DEF Separate
  <2>1. Kids(h, p) \cap Kids(h, q) = {}
    BY <1>1 DEF Good, IsOwned, Separate
  <2>. QED
    BY <1>6, <1>8, <1>9, <2>1
<1>12. Rooted(f, {copy[r]})
  <2>. SUFFICES ASSUME NEW U \in SUBSET Live(f), copy[r] \in U, IsClosed(f, U)
                PROVE  U = Live(f)
    BY DEF Rooted
  <2>. DEFINE C == {x \in P : copy[x] \in U}
  <2>1. r \in C /\ IsClosed(h, C)
    BY <1>1, <1>8, <1>9 DEF IsClosed
  <2>2. P \subseteq C
    BY <1>1, <2>1
  <2>. QED
    BY <1>4, <2>2
<1>13. ASSUME NEW x \in P PROVE Distinct(f.objs[copy[x]].kids)
  <2>1. Distinct(h.objs[x].kids)
    BY <1>1 DEF Good, IsOwned
  <2>2. 0 \notin P
    BY <1>1 DEF IsHeap
  <2>3. /\ Len(f.objs[copy[x]].kids) = Len(h.objs[x].kids)
        /\ \A i \in 1 .. Len(h.objs[x].kids) :
             h.objs[x].kids[i] \in P /\ f.objs[copy[x]].kids[i] = copy[h.objs[x].kids[i]]
    BY <1>3
  <2>. SUFFICES ASSUME NEW i \in 1 .. Len(h.objs[x].kids), NEW j \in 1 .. Len(h.objs[x].kids),
                       f.objs[copy[x]].kids[i] = f.objs[copy[x]].kids[j]
                PROVE  i = j
    BY <2>3 DEF Distinct
  <2>4. h.objs[x].kids[i] = h.objs[x].kids[j] /\ h.objs[x].kids[i] # 0
    <3>1. /\ h.objs[x].kids[i] \in P /\ h.objs[x].kids[j] \in P
          /\ copy[h.objs[x].kids[i]] = copy[h.objs[x].kids[j]]
      BY <2>3
    <3>. QED
      BY <1>6, <2>2, <3>1
  <2>. QED
    BY <2>1, <2>4 DEF Distinct
<1>14. ASSUME NEW x \in P PROVE IsShaped(f, copy[x], n)
  <2>1. IsShaped(h, x, n)
    BY <1>1 DEF Good
  <2>2. h.objs[x].kids = <<>> => f.objs[copy[x]].kids = <<>>
    <3>. SUFFICES ASSUME h.objs[x].kids = <<>> PROVE f.objs[copy[x]].kids = <<>>
      OBVIOUS
    <3>1. Len(f.objs[copy[x]].kids) = 0 /\ f.objs[copy[x]].kids \in Seq(Nat)
      BY <1>3 DEF IsObject
    <3>. QED
      BY <3>1
  <2>3. h.objs[x].type = "rt" => IsA(f, f.objs[copy[x]].kids[1], "array")
    <3>. SUFFICES ASSUME h.objs[x].type = "rt" PROVE IsA(f, f.objs[copy[x]].kids[1], "array")
      OBVIOUS
    <3>1. Len(h.objs[x].kids) = 1 /\ IsA(h, h.objs[x].kids[1], "array")
      BY <2>1 DEF IsShaped
    <3>2. h.objs[x].kids[1] \in P /\ f.objs[copy[x]].kids[1] = copy[h.objs[x].kids[1]]
      BY <1>3, <3>1
    <3>. QED
      BY <1>3, <1>4, <3>1, <3>2 DEF IsA
  <2>4. \A k \in Kids(h, x) : IsPair(h, k) => IsPair(f, copy[k])
    BY <1>3, <1>4, <1>9 DEF IsPair, IsA
  <2>5. ~HasNull(f, copy[x])
    <3>1. /\ Len(f.objs[copy[x]].kids) = Len(h.objs[x].kids)
          /\ \A i \in 1 .. Len(h.objs[x].kids) :
               h.objs[x].kids[i] \in P /\ f.objs[copy[x]].kids[i] = copy[h.objs[x].kids[i]]
      BY <1>3
    <3>. QED
      BY <1>5, <3>1 DEF HasNull
  <2>6. /\ f.objs[copy[x]].type = h.objs[x].type
        /\ f.objs[copy[x]].capacity = h.objs[x].capacity
        /\ Len(f.objs[copy[x]].kids) = Len(h.objs[x].kids)
    BY <1>3
  <2>7. f.objs[copy[x]].type = "map" => \A k \in Kids(f, copy[x]) : IsPair(f, k)
    BY <1>8, <2>1, <2>4, <2>6 DEF IsShaped
  <2>. QED
    BY <2>1, <2>2, <2>3, <2>5, <2>6, <2>7 DEF IsShaped
<1>. QED
  BY <1>1, <1>4, <1>7, <1>10, <1>11, <1>12, <1>13, <1>14 DEF Good, IsOwned

-----------------------------------------------------------------------------
(* A heap of which nothing more is said; it never comes back from that. *)
IsWild(h) == h = [objs |-> h.objs, wild |-> h.wild] /\ h.wild = TRUE

GoneWild(h, n) == n /\ IsWild(h)

LEMMA GoneOn ==
  ASSUME NEW h, NEW g, NEW n, GoneWild(h, n), IsWild(h) => IsWild(g)
  PROVE  GoneWild(g, n)
  BY Zenon DEF GoneWild

LEMMA WildIsWild ==
  ASSUME NEW h, IsHeap(h)
  PROVE  IsWild(Wild(h))
<1>1. ASSUME NEW a, NEW b, NEW v PROVE [[objs |-> a, wild |-> b] EXCEPT !.wild = v] = [objs |-> a, wild |-> v]
  OBVIOUS
<1>2. PICK a, b : h = [objs |-> a, wild |-> b]
  BY DEF IsHeap
<1>3. Wild(h) = [[objs |-> a, wild |-> b] EXCEPT !.wild = TRUE]
  BY <1>2, Zenon DEF Wild
<1>4. Wild(h) = [objs |-> a, wild |-> TRUE]
  BY <1>1, <1>3, Zenon
<1>. QED
  BY <1>4 DEF IsWild

LEMMA StaysWild ==
  ASSUME NEW h, IsWild(h), NEW F
  PROVE  IsWild([h EXCEPT !.objs = F]) /\ IsWild(Wild(h))
<1>1. ASSUME NEW a, NEW b, NEW v
      PROVE  /\ [[objs |-> a, wild |-> b] EXCEPT !.wild = v] = [objs |-> a, wild |-> v]
             /\ [[objs |-> a, wild |-> b] EXCEPT !.objs = F] = [objs |-> F, wild |-> b]
  OBVIOUS
<1>2. PICK a, b : h = [objs |-> a, wild |-> b] /\ b = TRUE
  BY DEF IsWild
<1>3. Wild(h) = [objs |-> a, wild |-> TRUE] /\ [h EXCEPT !.objs = F] = [objs |-> F, wild |-> TRUE]
  BY <1>1, <1>2, Zenon DEF Wild
<1>. QED
  BY <1>3 DEF IsWild

LEMMA AddedStaysWild ==
  ASSUME NEW h, IsWild(h), NEW O
  PROVE  IsWild(Added(h, O))
  BY StaysWild DEF Added

LEMMA FreeStaysWild ==
  ASSUME NEW h, IsWild(h), NEW R
  PROVE  IsWild(Free(h, R))
  BY StaysWild DEF Free

LEMMA ReleaseStaysWild ==
  ASSUME NEW h, IsWild(h), NEW r
  PROVE  IsWild(Release(h, r))
  BY StaysWild, FreeStaysWild DEF Release

LEMMA CloneStaysWild ==
  ASSUME NEW h, IsWild(h), NEW r
  PROVE  IsWild(Clone(h, r).heap)
<1>1. r = NULL => Clone(h, r).heap = Added(h, [x \in {Fresh(h, {1})[1]} |-> jsobj("nil", 0)])
  BY DEF Clone, MakeScalar, Allocate
<1>2. r # NULL /\ ~IsIntact(h, r, Reach(h, r)) => Clone(h, r).heap = Wild(h)
  BY DEF Clone
<1>3. r # NULL /\ IsIntact(h, r, Reach(h, r)) => Clone(h, r) = CloneTree(h, r, Reach(h, r))
  BY DEF Clone
<1>4. IsWild(CloneTree(h, r, Reach(h, r)).heap)
  BY AddedStaysWild DEF CloneTree
<1>. QED
  BY <1>1, <1>2, <1>3, <1>4, AddedStaysWild, StaysWild

-----------------------------------------------------------------------------
(* cjson_clone: the copy is loose, and has nothing in common with the rest. *)
IsClone(h, r, c) ==
  /\ c.heap.wild = FALSE /\ c.ref \notin Live(h) /\ c.ref \in Live(c.heap)
  /\ Live(h) \subseteq Live(c.heap) /\ Keeps(h, c.heap, Live(h))
  /\ IsClosed(c.heap, Live(c.heap) \ Live(h))
  /\ c.heap.objs[c.ref].type = h.objs[r].type
  /\ Len(c.heap.objs[c.ref].kids) = Len(h.objs[r].kids)

LEMMA ClosedInUnion ==
  ASSUME NEW h, NEW L, NEW n, Good(h, L, n), NEW f, NEW M, NEW m, Good(f, M, m),
         NEW g, Live(g) = Live(h) \cup Live(f), Keeps(f, g, Live(f)),
         Live(h) \cap Live(f) = {}
  PROVE  IsClosed(g, Live(g) \ Live(h))
<1>1. Live(g) \ Live(h) = Live(f)
  OBVIOUS
<1>2. \A r \in Live(f) : Kids(g, r) = Kids(f, r)
  BY DEF Keeps, Kids
<1>. QED
  BY <1>1, <1>2, GoodIsClosed DEF IsClosed

LEMMA Cloned ==
  ASSUME NEW h, NEW L, NEW n, Good(h, L, n), NEW r \in Live(h), NEW c, c = Clone(h, r)
  PROVE  \/ GoneWild(c.heap, n)
         \/ Good(c.heap, L \cup {c.ref}, n) /\ IsClone(h, r, c)
<1>1. CASE n /\ c = [heap |-> Wild(h), ref |-> NULL]
  <2>1. c.heap = Wild(h)
    BY <1>1
  <2>2. IsWild(Wild(h))
    BY WildIsWild DEF Good
  <2>3. n
    BY <1>1
  <2>. QED
    BY <2>1, <2>2, <2>3 DEF GoneWild
<1>2. CASE c = CloneTree(h, r, Reach(h, r)) /\ \A x \in Reach(h, r) : ~HasNull(h, x)
  <2>. DEFINE P == Reach(h, r)
              copy == Fresh(h, P)
              Of(a) == CHOOSE x \in P : copy[x] = a
              O == [a \in {copy[x] : x \in P} |-> Renamed(h.objs[Of(a)], copy)]
  <2>1. IsHeap(h) /\ P \subseteq Live(h) /\ r \in P
    BY GoodIsClosed, ReachIsClosure
  <2>2. /\ DOMAIN copy = P
        /\ \A x \in P : copy[x] \in Nat \ {0} /\ copy[x] \notin Live(h)
        /\ \A x, y \in P : copy[x] = copy[y] => x = y
    <3>. HIDE DEF P
    <3>1. IsFiniteSet(P) /\ P \subseteq Nat
      BY <2>1, FS_Subset DEF IsHeap
    <3>. QED
      BY <2>1, <3>1, FreshAddresses, Zenon
  <2>3. c = [heap |-> Added(h, O), ref |-> copy[r]]
    BY <1>2 DEF CloneTree, Renamed
  <2>. HIDE DEF P, copy
  <2>4. ASSUME NEW x \in P PROVE O[copy[x]] = Renamed(h.objs[x], copy)
    <3>1. Of(copy[x]) = x
      BY <2>2
    <3>. QED
      BY <3>1
  <2>. HIDE DEF O
  <2>5. PICK f : f = [objs |-> O, wild |-> FALSE]
    OBVIOUS
  <2>6. f.objs = O /\ f.wild = FALSE /\ f = [objs |-> f.objs, wild |-> f.wild]
    BY <2>5
  <2>7. Live(f) = {copy[x] : x \in P} /\ f.objs = [a \in Live(f) |-> f.objs[a]]
    <3>1. DOMAIN O = {copy[x] : x \in P} /\ O = [a \in DOMAIN O |-> O[a]]
      BY DEF O
    <3>. QED
      BY <2>6, <3>1 DEF Live
  <2>8. IsCopy(f, h, copy, P)
    BY <2>2, <2>4, <2>6, <2>7 DEF IsCopy
  <2>9. Good(f, {copy[r]}, n)
    BY <1>2, <2>8, CopyIsGood DEF P
  <2>10. Live(h) \cap Live(f) = {}
    BY <2>2, <2>7
  <2>11. PICK g : g = Added(h, f.objs) /\ c = [heap |-> g, ref |-> copy[r]]
    BY <2>3, <2>6
  <2>12. IsHeap(f)
    BY <2>9 DEF Good
  <2>13. /\ Live(g) = Live(h) \cup Live(f) /\ g.wild = h.wild
         /\ Keeps(h, g, Live(h)) /\ Keeps(f, g, Live(f))
    BY <2>1, <2>10, <2>11, <2>12, UnionKeeps
  <2>14. Good(g, L \cup {copy[r]}, n)
    BY <2>9, <2>10, <2>11, Union
  <2>15. IsClosed(g, Live(g) \ Live(h))
    BY <2>9, <2>10, <2>13, ClosedInUnion
  <2>16. c.heap = g /\ c.ref = copy[r]
    BY <2>11
  <2>17. copy[r] \in Live(f) /\ g.objs[copy[r]] = Renamed(h.objs[r], copy)
    BY <2>1, <2>4, <2>6, <2>7, <2>13 DEF Keeps
  <2>18. g.objs[copy[r]].type = h.objs[r].type /\ Len(g.objs[copy[r]].kids) = Len(h.objs[r].kids)
    <3>. DEFINE o == h.objs[r]
                k == [i \in DOMAIN o.kids |-> copy[o.kids[i]]]
    <3>1. IsObject(o)
      BY DEF Good, IsHeap
    <3>2. \A i \in DOMAIN o.kids : o.kids[i] \in P
      <4>. SUFFICES ASSUME NEW i \in DOMAIN o.kids PROVE o.kids[i] \in P
        OBVIOUS
      <4>1. i \in 1 .. Len(o.kids)
        BY <3>1 DEF IsObject
      <4>2. o.kids[i] # 0
        BY <1>2, <2>1, <4>1 DEF HasNull, P
      <4>3. o.kids[i] \in Kids(h, r)
        BY <2>1, <4>1, <4>2, KidsDef
      <4>4. Kids(h, r) \subseteq P
        BY <2>1, GoodIsClosed, ReachIsClosure DEF P, IsClosed
      <4>. QED
        BY <4>3, <4>4
    <3>3. g.objs[copy[r]] = [o EXCEPT !.kids = k]
      BY <2>17 DEF Renamed
    <3>. HIDE DEF o
    <3>4. o = [type |-> o.type, value |-> o.value, kids |-> o.kids, capacity |-> o.capacity]
          /\ o.kids \in Seq(Nat) /\ DOMAIN o.kids = 1 .. Len(o.kids) /\ Len(o.kids) \in Nat
      BY <3>1 DEF IsObject
    <3>5. k \in Seq(Nat) /\ Len(k) = Len(o.kids)
      BY <2>2, <3>2, <3>4
    <3>. HIDE DEF k
    <3>6. g.objs[copy[r]] = [type |-> o.type, value |-> o.value, kids |-> k, capacity |-> o.capacity]
      BY <3>3, <3>4
    <3>. QED
      BY <3>5, <3>6 DEF o
  <2>19. h.wild = FALSE
    BY DEF Good
  <2>20. IsClone(h, r, c)
    BY <2>2, <2>1, <2>13, <2>15, <2>16, <2>17, <2>18, <2>19 DEF IsClone
  <2>. QED
    BY <2>14, <2>16, <2>20
<1>. QED
  BY <1>1, <1>2, CloneCopies

-----------------------------------------------------------------------------
(* Other slots, or more space, for one object. *)
LEMMA WithKidsStaysWild ==
  ASSUME NEW h, IsWild(h), NEW r, NEW s
  PROVE  IsWild(WithKids(h, r, s))
  BY StaysWild DEF WithKids

LEMMA WithSpaceStaysWild ==
  ASSUME NEW h, IsWild(h), NEW r, NEW k
  PROVE  IsWild(WithSpace(h, r, k))
  BY StaysWild DEF WithSpace

SetAt(h, r, o) == [h EXCEPT !.objs = [h.objs EXCEPT ![r] = o]]

LEMMA OtherObject ==
  ASSUME NEW h, IsHeap(h), NEW r \in Live(h), NEW o, IsObject(o), o.type = h.objs[r].type,
         NEW g, g = SetAt(h, r, o)
  PROVE  IsHeap(g) /\ SameBut(h, g, r) /\ g.objs[r] = o
<1>. DEFINE F == [h.objs EXCEPT ![r] = o]
<1>1. h = [objs |-> h.objs, wild |-> h.wild] /\ g = [h EXCEPT !.objs = F]
  BY DEF IsHeap, SetAt
<1>. HIDE DEF F
<1>2. g = [objs |-> F, wild |-> h.wild] /\ g.objs = F /\ g.wild = h.wild
  BY <1>1, WithObjects
<1>3. /\ F = [x \in Live(h) |-> F[x]] /\ DOMAIN F = Live(h) /\ F[r] = o
      /\ \A x \in Live(h) \ {r} : F[x] = h.objs[x]
  <2>1. h.objs = [x \in Live(h) |-> h.objs[x]] /\ DOMAIN h.objs = Live(h)
    BY DEF IsHeap, Live
  <2>. QED
    BY <2>1 DEF F
<1>4. Live(g) = Live(h)
  BY <1>2, <1>3 DEF Live
<1>5. SameBut(h, g, r)
  BY <1>2, <1>3, <1>4 DEF SameBut
<1>6. \A x \in Live(g) : IsObject(g.objs[x])
  BY <1>2, <1>3, <1>4 DEF IsHeap
<1>7. IsHeap(g)
  <2>1. g = [objs |-> g.objs, wild |-> g.wild] /\ g.objs = [x \in Live(g) |-> g.objs[x]]
    BY <1>2, <1>3, <1>4
  <2>. QED
    BY <1>4, <1>6, <2>1 DEF IsHeap
<1>. QED
  BY <1>2, <1>3, <1>5, <1>7

LEMMA WithKidsIs ==
  ASSUME NEW h, IsHeap(h), NEW r \in Live(h), NEW s \in Seq(Nat), NEW g, g = WithKids(h, r, s)
  PROVE  /\ IsHeap(g) /\ SameBut(h, g, r)
         /\ g.objs[r].kids = s /\ g.objs[r].capacity = h.objs[r].capacity
         /\ g.objs[r].value = h.objs[r].value
<1>1. PICK o : o = [h.objs[r] EXCEPT !.kids = s]
  OBVIOUS
<1>2. IsObject(h.objs[r])
  BY DEF IsHeap
<1>3. \A p : p = [type |-> p.type, value |-> p.value, kids |-> p.kids, capacity |-> p.capacity] =>
        [p EXCEPT !.kids = s] = [type |-> p.type, value |-> p.value, kids |-> s, capacity |-> p.capacity]
  OBVIOUS
<1>4. o = [type |-> h.objs[r].type, value |-> h.objs[r].value, kids |-> s, capacity |-> h.objs[r].capacity]
  BY <1>1, <1>2, <1>3 DEF IsObject
<1>5. IsObject(o) /\ o.type = h.objs[r].type /\ o.kids = s /\ o.capacity = h.objs[r].capacity
      /\ o.value = h.objs[r].value
  BY <1>2, <1>4 DEF IsObject
<1>6. g = SetAt(h, r, o)
  BY <1>1 DEF WithKids, SetAt
<1>7. IsHeap(g) /\ SameBut(h, g, r) /\ g.objs[r] = o
  <2>1. IsObject(o) /\ o.type = h.objs[r].type
    BY <1>5
  <2>. QED
    BY <1>6, <2>1, OtherObject
<1>. QED
  BY <1>5, <1>7

LEMMA WithSpaceIs ==
  ASSUME NEW h, IsHeap(h), NEW r \in Live(h), NEW k \in Nat, NEW g, g = WithSpace(h, r, k)
  PROVE  /\ IsHeap(g) /\ SameBut(h, g, r)
         /\ g.objs[r].kids = h.objs[r].kids /\ g.objs[r].capacity = k
<1>1. PICK o : o = [h.objs[r] EXCEPT !.capacity = k]
  OBVIOUS
<1>2. IsObject(h.objs[r])
  BY DEF IsHeap
<1>3. \A p : p = [type |-> p.type, value |-> p.value, kids |-> p.kids, capacity |-> p.capacity] =>
        [p EXCEPT !.capacity = k] = [type |-> p.type, value |-> p.value, kids |-> p.kids, capacity |-> k]
  OBVIOUS
<1>4. o = [type |-> h.objs[r].type, value |-> h.objs[r].value, kids |-> h.objs[r].kids, capacity |-> k]
  BY <1>1, <1>2, <1>3 DEF IsObject
<1>5. IsObject(o) /\ o.type = h.objs[r].type /\ o.kids = h.objs[r].kids /\ o.capacity = k
  BY <1>2, <1>4 DEF IsObject
<1>6. g = SetAt(h, r, o)
  BY <1>1 DEF WithSpace, SetAt
<1>7. IsHeap(g) /\ SameBut(h, g, r) /\ g.objs[r] = o
  <2>1. IsObject(o) /\ o.type = h.objs[r].type
    BY <1>5
  <2>. QED
    BY <1>6, <2>1, OtherObject
<1>. QED
  BY <1>5, <1>7

(* The slots of an object, as the set of what is in them. *)
InSlots(s) == {s[i] : i \in 1 .. Len(s)}

LEMMA KidsAreInSlots ==
  ASSUME NEW h, IsHeap(h), NEW r \in Live(h)
  PROVE  Kids(h, r) = InSlots(h.objs[r].kids) \ {0}
  BY KidsDef DEF InSlots

LEMMA MoreSpace ==
  ASSUME NEW h, NEW L, NEW n, Good(h, L, n), NEW r \in Live(h), NEW k \in Nat,
         Len(h.objs[r].kids) <= k, NEW g, g = WithSpace(h, r, k)
  PROVE  Good(g, L, n)
<1>1. IsHeap(g) /\ SameBut(h, g, r) /\ g.objs[r].kids = h.objs[r].kids /\ g.objs[r].capacity = k
  BY WithSpaceIs DEF Good
<1>2. Kids(g, r) = Kids(h, r)
  BY <1>1 DEF Kids, SameBut
<1>3. Distinct(g.objs[r].kids)
  BY <1>1 DEF Good, IsOwned
<1>4. IsShaped(g, r, n)
  <2>1. IsShaped(h, r, n)
    BY DEF Good
  <2>2. \A x : IsA(h, x, "array") => IsA(g, x, "array")
    BY <1>1 DEF IsA, SameBut
  <2>3. \A x : IsPair(h, x) => IsPair(g, x)
    BY <1>1 DEF IsPair, IsA, SameBut
  <2>4. g.objs[r].type = h.objs[r].type
    BY <1>1 DEF SameBut
  <2>. QED
    BY <1>1, <1>2, <2>1, <2>2, <2>3, <2>4 DEF IsShaped, HasNull
<1>5. IsClosed(h, {}) /\ Kids(g, r) = (Kids(h, r) \ {}) \cup {}
  BY <1>2 DEF IsClosed
<1>6. Good(g, (L \ {}) \cup {}, n)
  BY <1>1, <1>3, <1>4, <1>5, NewParts
<1>. QED
  BY <1>6, Zenon

-----------------------------------------------------------------------------
(* Sequences of slots. *)
LEMMA SlotsTogether ==
  ASSUME NEW s \in Seq(Nat), NEW t \in Seq(Nat), Distinct(s), Distinct(t),
         InSlots(s) \cap InSlots(t) \subseteq {0}, NEW u, u = s \o t
  PROVE  /\ u \in Seq(Nat) /\ Len(u) = Len(s) + Len(t)
         /\ InSlots(u) = InSlots(s) \cup InSlots(t) /\ Distinct(u)
         /\ \A i \in 1 .. Len(s) : u[i] = s[i]
<1>1. /\ u \in Seq(Nat) /\ Len(u) = Len(s) + Len(t) /\ Len(s) \in Nat /\ Len(t) \in Nat
      /\ \A i \in 1 .. Len(s) : u[i] = s[i]
      /\ \A i \in 1 .. Len(t) : u[Len(s) + i] = t[i]
  OBVIOUS
<1>2. \A i \in 1 .. Len(u) : \/ i \in 1 .. Len(s) /\ u[i] = s[i]
                             \/ i - Len(s) \in 1 .. Len(t) /\ u[i] = t[i - Len(s)]
  BY <1>1
<1>3. InSlots(u) \subseteq InSlots(s) \cup InSlots(t)
  BY <1>2 DEF InSlots
<1>4. InSlots(s) \subseteq InSlots(u)
  <2>1. 1 .. Len(s) \subseteq 1 .. Len(u)
    BY <1>1
  <2>. QED
    BY <1>1, <2>1 DEF InSlots
<1>5. InSlots(t) \subseteq InSlots(u)
  <2>. SUFFICES ASSUME NEW i \in 1 .. Len(t) PROVE \E j \in 1 .. Len(u) : t[i] = u[j]
    BY DEF InSlots
  <2>1. Len(s) + i \in 1 .. Len(u) /\ u[Len(s) + i] = t[i]
    BY <1>1
  <2>. QED
    BY <2>1
<1>6. Distinct(u)
  <2>. SUFFICES ASSUME NEW i \in 1 .. Len(u), NEW j \in 1 .. Len(u), u[i] = u[j], u[i] # 0
                PROVE  i = j
    BY DEF Distinct
  <2>1. i \in 1 .. Len(s) => u[i] = s[i] /\ s[i] \in InSlots(s)
    BY <1>1 DEF InSlots
  <2>2. j \in 1 .. Len(s) => u[j] = s[j] /\ s[j] \in InSlots(s)
    BY <1>1 DEF InSlots
  <2>3. i \notin 1 .. Len(s) => /\ i - Len(s) \in 1 .. Len(t) /\ u[i] = t[i - Len(s)]
                                /\ t[i - Len(s)] \in InSlots(t)
    BY <1>2 DEF InSlots
  <2>4. j \notin 1 .. Len(s) => /\ j - Len(s) \in 1 .. Len(t) /\ u[j] = t[j - Len(s)]
                                /\ t[j - Len(s)] \in InSlots(t)
    BY <1>2 DEF InSlots
  <2>5. CASE i \in 1 .. Len(s) /\ j \in 1 .. Len(s)
    BY <2>1, <2>2, <2>5 DEF Distinct
  <2>6. CASE i \notin 1 .. Len(s) /\ j \notin 1 .. Len(s)
    <3>1. i - Len(s) = j - Len(s)
      BY <2>3, <2>4, <2>6 DEF Distinct
    <3>. QED
      BY <1>1, <3>1
  <2>7. CASE i \in 1 .. Len(s) /\ j \notin 1 .. Len(s)
    BY <2>1, <2>4, <2>7
  <2>8. CASE i \notin 1 .. Len(s) /\ j \in 1 .. Len(s)
    BY <2>2, <2>3, <2>8
  <2>. QED
    BY <2>5, <2>6, <2>7, <2>8
<1>. QED
  BY <1>1, <1>3, <1>4, <1>5, <1>6

LEMMA OneMoreSlot ==
  ASSUME NEW s \in Seq(Nat), Distinct(s), NEW v \in Nat, v \notin InSlots(s) \/ v = 0,
         NEW u, u = Append(s, v)
  PROVE  /\ u \in Seq(Nat) /\ Len(u) = Len(s) + 1
         /\ InSlots(u) = InSlots(s) \cup {v} /\ Distinct(u)
<1>1. /\ u \in Seq(Nat) /\ Len(u) = Len(s) + 1 /\ u[Len(s) + 1] = v /\ Len(s) \in Nat
      /\ \A i \in 1 .. Len(s) : u[i] = s[i]
  OBVIOUS
<1>2. 1 .. Len(u) = (1 .. Len(s)) \cup {Len(s) + 1}
  BY <1>1
<1>3. InSlots(u) = InSlots(s) \cup {v}
  BY <1>1, <1>2 DEF InSlots
<1>4. Distinct(u)
  BY <1>1, <1>2 DEF InSlots, Distinct
<1>. QED
  BY <1>1, <1>3, <1>4

SlotIs(s, i, v, u) ==
  /\ u \in Seq(Nat) /\ Len(u) = Len(s) /\ u[i] = v /\ Distinct(u)
  /\ InSlots(u) \ {0} = ((InSlots(s) \ {0}) \ ({s[i]} \ {0})) \cup ({v} \ {0})
  /\ \A j \in 1 .. Len(s) : j # i => u[j] = s[j]

LEMMA OtherSlot ==
  ASSUME NEW s \in Seq(Nat), Distinct(s), NEW v \in Nat, v \notin InSlots(s) \/ v = 0,
         NEW i \in 1 .. Len(s), NEW u, u = [s EXCEPT ![i] = v]
  PROVE  SlotIs(s, i, v, u)
<1>1. /\ u \in Seq(Nat) /\ Len(u) = Len(s) /\ u[i] = v
      /\ \A j \in 1 .. Len(s) : j # i => u[j] = s[j]
  OBVIOUS
<1>2. Distinct(u)
  BY <1>1 DEF InSlots, Distinct
<1>3. InSlots(u) \ {0} \subseteq ((InSlots(s) \ {0}) \ ({s[i]} \ {0})) \cup ({v} \ {0})
  BY <1>1 DEF InSlots, Distinct
<1>4. ((InSlots(s) \ {0}) \ ({s[i]} \ {0})) \cup ({v} \ {0}) \subseteq InSlots(u) \ {0}
  BY <1>1 DEF InSlots, Distinct
<1>. QED
  BY <1>1, <1>2, <1>3, <1>4 DEF SlotIs

LEMMA NullInSlots ==
  ASSUME NEW h, NEW r
  PROVE  HasNull(h, r) <=> 0 \in InSlots(h.objs[r].kids)
  BY DEF HasNull, InSlots

(* The slots of a tuple hold no null, and what is in them nothing else does. *)
LEMMA TupleSlots ==
  ASSUME NEW h, NEW L, NEW n, Good(h, L, n), NEW t \in Live(h), h.objs[t].type # "map"
  PROVE  /\ h.objs[t].kids \in Seq(Nat) /\ Len(h.objs[t].kids) \in Nat
         /\ Distinct(h.objs[t].kids)
         /\ 0 \notin InSlots(h.objs[t].kids) /\ InSlots(h.objs[t].kids) = Kids(h, t)
         /\ Kids(h, t) \subseteq Live(h) \ L
<1>1. IsHeap(h) /\ IsShaped(h, t, n) /\ Distinct(h.objs[t].kids) /\ Kids(h, t) \subseteq Live(h) \ L
  BY DEF Good, IsOwned, Refers
<1>2. h.objs[t].kids \in Seq(Nat)
  BY <1>1 DEF IsHeap, IsObject
<1>3. 0 \notin InSlots(h.objs[t].kids)
  BY <1>1, NullInSlots DEF IsShaped
<1>4. Kids(h, t) = InSlots(h.objs[t].kids) \ {0}
  BY <1>1, KidsAreInSlots
<1>5. Len(h.objs[t].kids) \in Nat
  BY <1>2
<1>. QED
  BY <1>1, <1>2, <1>3, <1>4, <1>5

LEMMA TupleShape ==
  ASSUME NEW h, NEW n, NEW t, h.objs[t].type = "tuple", 0 \notin InSlots(h.objs[t].kids)
  PROVE  IsShaped(h, t, n)
<1>1. ~HasNull(h, t)
  BY NullInSlots
<1>. QED
  BY <1>1 DEF IsShaped, Scalars

(* What objects refer to later is what they did, or new. *)
Spreads(h, g) == \A x \in Live(g) : Kids(g, x) \subseteq Kids(h, x) \cup (Live(g) \ Live(h))

LEMMA ScalarObject ==
  ASSUME NEW type \in DOMAIN jstype, NEW value
  PROVE  LET o == jsobj(type, value)
         IN  IsObject(o) /\ o.kids = <<>> /\ o.type = type /\ o.capacity = 0
<1>. DEFINE o == jsobj(type, value)
<1>1. o = [type |-> type, value |-> value, kids |-> <<>>, capacity |-> 0]
  BY DEF jsobj
<1>2. <<>> \in Seq(Nat) /\ 0 \in Nat
  OBVIOUS
<1>3. o.type = type /\ o.value = value /\ o.kids = <<>> /\ o.capacity = 0
  BY <1>1
<1>4. o = [type |-> o.type, value |-> o.value, kids |-> o.kids, capacity |-> o.capacity]
  BY <1>1
<1>. HIDE DEF o
<1>5. IsObject(o)
  BY <1>2, <1>3, <1>4 DEF IsObject
<1>. QED
  BY <1>3, <1>5 DEF o

LEMMA Types ==
  DOMAIN jstype = Scalars \cup {"array", "map", "tuple", "rt"}
  BY DEF jstype, Scalars

(* A tuple with k more slots in a later heap. *)
HasGrown(h, g, t, k) ==
  /\ Live(h) \subseteq Live(g) /\ Keeps(h, g, Live(h) \ {t})
  /\ g.objs[t].type = "tuple" /\ Len(g.objs[t].kids) = Len(h.objs[t].kids) + k
  /\ Kids(h, t) \subseteq Kids(g, t) /\ Spreads(h, g)
  /\ \A x \in Live(g) \ Live(h) : g.objs[x].kids = <<>>

LEMMA WithNilsIsGood ==
  ASSUME NEW h, NEW L, NEW n, Good(h, L, n), NEW t \in Live(h), h.objs[t].type = "tuple",
         ~InMap(h, t), NEW k \in Nat, NEW g, g = WithNils(h, t, k)
  PROVE  Good(g, L, n) /\ HasGrown(h, g, t, k)
<1>. DEFINE nils == Fresh(h, 1 .. k)
            S == ToSet(nils)
            O == [r \in S |-> jsobj("nil", 0)]
            s == h.objs[t].kids
<1>1. IsHeap(h) /\ h.wild = FALSE
  BY DEF Good
<1>2. /\ DOMAIN nils = 1 .. k
      /\ \A x \in 1 .. k : nils[x] \in Nat \ {0} /\ nils[x] \notin Live(h)
      /\ \A x, y \in 1 .. k : nils[x] = nils[y] => x = y
  <2>1. 1 .. k \subseteq Nat /\ IsFiniteSet(1 .. k)
    BY FS_Interval
  <2>. QED
    BY <1>1, <2>1, FreshAddresses
<1>3. nils = [x \in 1 .. k |-> nils[x]]
  BY <1>2 DEF Fresh
<1>4. S = {nils[x] : x \in 1 .. k}
  BY <1>2 DEF ToSet
<1>. HIDE DEF nils
<1>5. nils \in Seq(Nat) /\ Len(nils) = k /\ Distinct(nils) /\ InSlots(nils) = S
  <2>1. nils \in [1 .. k -> Nat]
    BY <1>2, <1>3
  <2>2. nils \in Seq(Nat) /\ Len(nils) = k
    BY <2>1
  <2>. QED
    BY <1>2, <1>4, <2>2 DEF Distinct, InSlots
<1>6. S \subseteq Nat \ {0} /\ IsFiniteSet(S) /\ S \cap Live(h) = {}
  <2>1. IsFiniteSet(1 .. k)
    BY FS_Interval
  <2>2. S \subseteq Nat \ {0} /\ S \cap Live(h) = {}
    BY <1>2, <1>4
  <2>3. IsFiniteSet({nils[x] : x \in 1 .. k})
    <3>1. nils \in Surjection(1 .. k, {nils[x] : x \in 1 .. k})
      BY <1>2, <1>3 DEF Surjection
    <3>. QED
      BY <2>1, <3>1, FS_Surjection
  <2>. QED
    BY <1>4, <2>2, <2>3
<1>. HIDE DEF S
<1>7. PICK f : f = [objs |-> O, wild |-> FALSE]
  OBVIOUS
<1>8. Live(f) = S /\ Good(f, S, n) /\ f.objs = O
  <2>1. \A x \in S : O[x] = jsobj("nil", 0)
    OBVIOUS
  <2>2. O = [x \in S |-> O[x]]
    OBVIOUS
  <2>3. "nil" \in DOMAIN jstype /\ "nil" # "rt"
    BY DEF jstype
  <2>. HIDE DEF O
  <2>4. \A x \in S : IsObject(O[x]) /\ O[x].kids = <<>> /\ O[x].type # "rt"
    BY <2>1, <2>3, ScalarObject
  <2>5. f.objs = O
    BY <1>7
  <2>. QED
    BY <1>6, <1>7, <2>2, <2>4, <2>5, PlainObjects
<1>9. PICK m : m = Added(h, f.objs)
  OBVIOUS
<1>10. IsHeap(f) /\ Live(h) \cap Live(f) = {}
  BY <1>6, <1>8 DEF Good
<1>11. Good(m, L \cup S, n)
  BY <1>8, <1>9, <1>10, Union
<1>12. /\ IsHeap(m) /\ Live(m) = Live(h) \cup S
       /\ Keeps(h, m, Live(h)) /\ Keeps(f, m, S)
  BY <1>1, <1>8, <1>9, <1>10, UnionKeeps
<1>13. \A x \in S : Kids(m, x) = {} /\ m.objs[x].kids = <<>>
  <2>. SUFFICES ASSUME NEW x \in S PROVE Kids(m, x) = {} /\ m.objs[x].kids = <<>>
    OBVIOUS
  <2>1. f.objs[x] = jsobj("nil", 0)
    BY <1>8
  <2>2. m.objs[x].kids = <<>>
    BY <1>12, <2>1 DEF Keeps, jsobj
  <2>3. Kids(m, x) = InSlots(<<>>) \ {0}
    BY <1>12, <2>2, KidsAreInSlots
  <2>. QED
    BY <2>2, <2>3 DEF InSlots
<1>14. \A x \in Live(h) : Kids(m, x) = Kids(h, x)
  BY <1>12 DEF Keeps, Kids
<1>15. /\ s \in Seq(Nat) /\ Len(s) \in Nat /\ Distinct(s) /\ 0 \notin InSlots(s)
       /\ InSlots(s) = Kids(h, t) /\ Kids(h, t) \subseteq Live(h)
  BY TupleSlots
<1>16. t \in Live(m) /\ m.objs[t] = h.objs[t]
  BY <1>12 DEF Keeps
<1>. HIDE DEF O
<1>17. g = WithKids(m, t, s \o nils)
  BY <1>8, <1>9 DEF WithNils, O, S, nils
<1>18. PICK u : u = s \o nils
  OBVIOUS
<1>. HIDE DEF s
<1>19. /\ u \in Seq(Nat) /\ Len(u) = Len(s) + k /\ InSlots(u) = InSlots(s) \cup S /\ Distinct(u)
  <2>1. InSlots(s) \cap InSlots(nils) \subseteq {0}
    BY <1>5, <1>6, <1>15
  <2>. QED
    BY <1>5, <1>15, <1>18, <2>1, SlotsTogether
<1>20. IsHeap(g) /\ SameBut(m, g, t) /\ g.objs[t].kids = u
  <2>1. g = WithKids(m, t, u)
    BY <1>17, <1>18
  <2>. QED
    BY <1>12, <1>16, <1>19, <2>1, WithKidsIs
<1>21. t \in Live(g) /\ g.objs[t].type = "tuple"
  BY <1>16, <1>20 DEF SameBut
<1>22. Kids(g, t) = Kids(h, t) \cup S
  BY <1>6, <1>15, <1>19, <1>20, <1>21, KidsAreInSlots
<1>23. IsShaped(g, t, n)
  BY <1>6, <1>15, <1>19, <1>20, <1>21, TupleShape
<1>24. ~InMap(m, t)
  BY <1>12, <1>13, <1>14 DEF InMap, Keeps
<1>25. IsClosed(m, S)
  BY <1>13 DEF IsClosed
<1>26. Good(g, ((L \cup S) \ S) \cup {}, n)
  <2>1. t \notin S
    BY <1>6
  <2>2. Kids(g, t) = (Kids(m, t) \ {}) \cup S
    BY <1>14, <1>22
  <2>3. Distinct(g.objs[t].kids)
    BY <1>19, <1>20
  <2>4. S \subseteq L \cup S /\ {} \subseteq Kids(m, t) /\ S \subseteq S
    OBVIOUS
  <2>. QED
    BY <1>11, <1>16, <1>20, <1>23, <1>24, <1>25, <2>1, <2>2, <2>3, <2>4, NewParts
<1>27. L \cap S = {}
  BY <1>6 DEF Good, IsOwned
<1>28. ((L \cup S) \ S) \cup {} = L
  BY <1>27
<1>29. Live(g) = Live(h) \cup S
  BY <1>12, <1>20 DEF SameBut
<1>30. Keeps(h, g, Live(h) \ {t})
  BY <1>12, <1>20 DEF SameBut, Keeps
<1>31. Spreads(h, g)
  <2>. SUFFICES ASSUME NEW x \in Live(g) PROVE Kids(g, x) \subseteq Kids(h, x) \cup (Live(g) \ Live(h))
    BY DEF Spreads
  <2>1. S = Live(g) \ Live(h)
    BY <1>6, <1>29
  <2>2. x # t => Kids(g, x) = Kids(m, x)
    BY <1>12, <1>20, <1>29 DEF SameBut, Kids
  <2>. QED
    BY <1>13, <1>14, <1>22, <1>29, <2>1, <2>2
<1>32. \A x \in Live(g) \ Live(h) : g.objs[x].kids = <<>>
  BY <1>12, <1>13, <1>16, <1>20, <1>29 DEF SameBut
<1>. QED
  <2>1. Good(g, L, n)
    BY <1>26, <1>28
  <2>2. Len(g.objs[t].kids) = Len(h.objs[t].kids) + k
    BY <1>19, <1>20 DEF s
  <2>. QED
    BY <1>21, <1>22, <1>29, <1>30, <1>31, <1>32, <2>1, <2>2 DEF HasGrown

-----------------------------------------------------------------------------
(* cjson_make and its like: a loose object more. *)
IsNew(h, g, r) ==
  /\ r \notin Live(h) /\ r \in Live(g) /\ Live(h) \subseteq Live(g)
  /\ Keeps(h, g, Live(h)) /\ IsClosed(g, Live(g) \ Live(h))

IsMade(h, L, n, a, o) ==
  /\ Good(a.heap, L \cup {a.ref}, n) /\ IsNew(h, a.heap, a.ref)
  /\ a.heap.objs[a.ref] = o /\ Live(a.heap) = Live(h) \cup {a.ref}

LEMMA AllocatedIsNew ==
  ASSUME NEW h, NEW L, NEW n, Good(h, L, n),
         NEW o, IsObject(o), o.kids = <<>>, o.type # "rt", NEW a, a = Allocate(h, o)
  PROVE  IsMade(h, L, n, a, o)
<1>1. /\ a.ref \notin Live(h) /\ Good(a.heap, L \cup {a.ref}, n)
      /\ Live(a.heap) = Live(h) \cup {a.ref} /\ Keeps(h, a.heap, Live(h))
      /\ a.heap.objs[a.ref] = o /\ Kids(a.heap, a.ref) = {}
  BY Allocated
<1>2. IsClosed(a.heap, Live(a.heap) \ Live(h))
  BY <1>1 DEF IsClosed
<1>. QED
  BY <1>1, <1>2 DEF IsNew, IsMade

LEMMA ScalarMade ==
  ASSUME NEW h, NEW L, NEW n, Good(h, L, n), NEW type \in Scalars, NEW value
  PROVE  IsMade(h, L, n, MakeScalar(h, type, value), jsobj(type, value))
<1>1. type \in DOMAIN jstype /\ type # "rt"
  BY DEF jstype, Scalars
<1>2. PICK o : o = jsobj(type, value)
  OBVIOUS
<1>3. IsObject(o) /\ o.kids = <<>> /\ o.type # "rt"
  BY <1>1, <1>2, ScalarObject
<1>4. PICK b : b = Allocate(h, o)
  OBVIOUS
<1>5. IsMade(h, L, n, b, o)
  BY <1>3, <1>4, AllocatedIsNew
<1>6. MakeScalar(h, type, value) = b
  BY <1>2, <1>4 DEF MakeScalar
<1>. QED
  BY <1>2, <1>5, <1>6

LEMMA SpaciousObject ==
  ASSUME NEW type \in {"array", "map"},
         NEW o, o = [jsobj(type, NULL) EXCEPT !.capacity = Space]
  PROVE  IsObject(o) /\ o.kids = <<>> /\ o.type = type /\ o.capacity = Space
<1>1. jsobj(type, NULL) = [type |-> type, value |-> NULL, kids |-> <<>>, capacity |-> 0]
  BY DEF jsobj
<1>2. o = [type |-> type, value |-> NULL, kids |-> <<>>, capacity |-> Space]
  BY <1>1
<1>3. o.type = type /\ o.value = NULL /\ o.kids = <<>> /\ o.capacity = Space
  BY <1>2
<1>4. o = [type |-> o.type, value |-> o.value, kids |-> o.kids, capacity |-> o.capacity]
  BY <1>2
<1>5. <<>> \in Seq(Nat) /\ Space \in Nat /\ type \in DOMAIN jstype
  BY SpaceAssumption DEF jstype
<1>6. IsObject(o)
  BY <1>3, <1>4, <1>5 DEF IsObject
<1>. QED
  BY <1>3, <1>6

LEMMA SpaciousMade ==
  ASSUME NEW h, NEW L, NEW n, Good(h, L, n), NEW a, a = MakeArray(h) \/ a = MakeMap(h)
  PROVE  Good(a.heap, L \cup {a.ref}, n) /\ IsNew(h, a.heap, a.ref)
<1>1. PICK type \in {"array", "map"} : a = Allocate(h, [jsobj(type, NULL) EXCEPT !.capacity = Space])
  BY DEF MakeArray, MakeMap
<1>2. PICK o : o = [jsobj(type, NULL) EXCEPT !.capacity = Space]
  OBVIOUS
<1>3. IsObject(o) /\ o.kids = <<>> /\ o.type # "rt"
  BY <1>2, SpaciousObject
<1>4. a = Allocate(h, o)
  BY <1>1, <1>2
<1>. QED
  BY <1>3, <1>4, AllocatedIsNew DEF IsMade

IsTuple(h, L, n, t, k) ==
  /\ Good(t.heap, L \cup {t.ref}, n) /\ IsNew(h, t.heap, t.ref)
  /\ t.heap.objs[t.ref].type = "tuple" /\ Len(t.heap.objs[t.ref].kids) = k
  /\ \A x \in Live(t.heap) \ Live(h) : ~HasNull(t.heap, x)

LEMMA TupleMade ==
  ASSUME NEW h, NEW L, NEW n, Good(h, L, n), NEW k \in Nat, NEW t, t = MakeTuple(h, k)
  PROVE  IsTuple(h, L, n, t, k)
<1>1. PICK o : o = jsobj("tuple", NULL)
  OBVIOUS
<1>2. PICK a : a = Allocate(h, o)
  OBVIOUS
<1>3. t.heap = WithNils(a.heap, a.ref, k) /\ t.ref = a.ref
  BY <1>1, <1>2 DEF MakeTuple
<1>4. "tuple" \in DOMAIN jstype
  BY DEF jstype
<1>5. IsObject(o) /\ o.kids = <<>> /\ o.type = "tuple"
  BY <1>1, <1>4, ScalarObject
<1>6. /\ Good(a.heap, L \cup {a.ref}, n) /\ IsNew(h, a.heap, a.ref)
      /\ a.heap.objs[a.ref] = o /\ Live(a.heap) = Live(h) \cup {a.ref}
  <2>1. IsObject(o) /\ o.kids = <<>> /\ o.type # "rt"
    BY <1>5
  <2>2. IsMade(h, L, n, a, o)
    BY <1>2, <2>1, AllocatedIsNew
  <2>. QED
    BY <2>2 DEF IsMade
<1>7. ~InMap(a.heap, a.ref)
  BY <1>6 DEF InMap, Good, IsOwned, Refers
<1>8. a.ref \in Live(a.heap) /\ a.heap.objs[a.ref].type = "tuple" /\ Len(a.heap.objs[a.ref].kids) = 0
  BY <1>5, <1>6
<1>9. PICK g : g = WithNils(a.heap, a.ref, k)
  OBVIOUS
<1>10. /\ Good(g, L \cup {a.ref}, n) /\ Live(a.heap) \subseteq Live(g)
       /\ Keeps(a.heap, g, Live(a.heap) \ {a.ref})
       /\ g.objs[a.ref].type = "tuple" /\ Len(g.objs[a.ref].kids) = 0 + k
       /\ Spreads(a.heap, g)
       /\ \A x \in Live(g) \ Live(a.heap) : g.objs[x].kids = <<>>
  <2>1. PICK b, r, M : b = a.heap /\ r = a.ref /\ M = L \cup {a.ref}
    OBVIOUS
  <2>2. Good(b, M, n) /\ r \in Live(b) /\ b.objs[r].type = "tuple" /\ ~InMap(b, r) /\ g = WithNils(b, r, k)
    BY <1>6, <1>7, <1>8, <1>9, <2>1
  <2>3. Good(g, M, n) /\ HasGrown(b, g, r, k)
    BY <2>2, WithNilsIsGood, Zenon
  <2>. QED
    BY <1>8, <2>1, <2>3 DEF HasGrown
<1>11. Keeps(h, g, Live(h)) /\ a.ref \notin Live(h) /\ Live(h) \subseteq Live(g)
  BY <1>6, <1>10 DEF Keeps, IsNew
<1>12. IsClosed(g, Live(g) \ Live(h))
  <2>. SUFFICES ASSUME NEW x \in Live(g) \ Live(h) PROVE Kids(g, x) \subseteq Live(g) \ Live(h)
    BY DEF IsClosed
  <2>1. Kids(g, x) \subseteq Kids(a.heap, x) \cup (Live(g) \ Live(a.heap))
    BY <1>10 DEF Spreads
  <2>2. Kids(a.heap, x) = {}
    <3>1. CASE x = a.ref
      <4>1. IsHeap(a.heap)
        BY <1>6 DEF Good
      <4>2. Kids(a.heap, x) = InSlots(<<>>) \ {0}
        BY <1>5, <1>6, <1>8, <3>1, <4>1, KidsAreInSlots
      <4>. QED
        BY <4>2 DEF InSlots
    <3>2. CASE x # a.ref
      BY <1>6, <3>2 DEF Kids
    <3>. QED
      BY <3>1, <3>2
  <2>. QED
    BY <1>6, <2>1, <2>2
<1>13. a.ref \in Live(g)
  BY <1>8, <1>10
<1>14. \A x \in Live(g) \ Live(h) : ~HasNull(g, x)
  <2>. SUFFICES ASSUME NEW x \in Live(g) \ Live(h) PROVE ~HasNull(g, x)
    OBVIOUS
  <2>1. x = a.ref => ~HasNull(g, x)
    BY <1>10, <1>13 DEF Good, IsShaped
  <2>2. x # a.ref => g.objs[x].kids = <<>>
    BY <1>6, <1>10
  <2>. QED
    BY <2>1, <2>2 DEF HasNull
<1>. QED
  BY <1>3, <1>9, <1>10, <1>11, <1>12, <1>13, <1>14 DEF IsNew, IsTuple

LEMMA OneInAnother ==
  ASSUME NEW f, NEW p, NEW q, p # q, Live(f) = {p, q}, Kids(f, p) = {q}, Kids(f, q) = {}
  PROVE  Refers(f, {p}) /\ Separate(f) /\ Rooted(f, {p})
<1>1. Refers(f, {p})
  BY DEF Refers
<1>2. Separate(f)
  BY DEF Separate
<1>3. Rooted(f, {p})
  BY DEF Rooted, IsClosed
<1>. QED
  BY <1>1, <1>2, <1>3

IsRuntime(f, p, q) ==
  LET rt == [jsobj("rt", NULL) EXCEPT !.kids = <<q>>]
      code == [jsobj("array", NULL) EXCEPT !.capacity = Space]
  IN  f = [objs |-> [r \in {p, q} |-> IF r = p THEN rt ELSE code], wild |-> FALSE]

LEMMA RuntimeObjects ==
  ASSUME NEW p \in Nat \ {0}, NEW q \in Nat \ {0}, p # q, NEW n, NEW f, IsRuntime(f, p, q)
  PROVE  Good(f, {p}, n) /\ Live(f) = {p, q}
<1>0. PICK rt, code, O :
        /\ rt = [jsobj("rt", NULL) EXCEPT !.kids = <<q>>]
        /\ code = [jsobj("array", NULL) EXCEPT !.capacity = Space]
        /\ O = [r \in {p, q} |-> IF r = p THEN rt ELSE code]
        /\ f = [objs |-> O, wild |-> FALSE]
  BY DEF IsRuntime
<1>1. f.objs = O /\ f.wild = FALSE /\ f = [objs |-> f.objs, wild |-> f.wild]
  BY <1>0
<1>2. DOMAIN O = {p, q} /\ O[p] = rt /\ O[q] = code /\ O = [r \in {p, q} |-> O[r]]
  BY <1>0
<1>3. Live(f) = {p, q}
  BY <1>1, <1>2 DEF Live
<1>4. IsObject(code) /\ code.kids = <<>> /\ code.type = "array" /\ code.capacity = Space
  BY <1>0, SpaciousObject
<1>5. IsObject(rt) /\ rt.kids = <<q>> /\ rt.type = "rt"
  <2>1. jsobj("rt", NULL) = [type |-> "rt", value |-> NULL, kids |-> <<>>, capacity |-> 0]
    BY DEF jsobj
  <2>2. rt = [type |-> "rt", value |-> NULL, kids |-> <<q>>, capacity |-> 0]
    BY <1>0, <2>1
  <2>3. rt.type = "rt" /\ rt.value = NULL /\ rt.kids = <<q>> /\ rt.capacity = 0
    BY <2>2
  <2>4. rt = [type |-> rt.type, value |-> rt.value, kids |-> rt.kids, capacity |-> rt.capacity]
    BY <2>2
  <2>5. <<q>> \in Seq(Nat) /\ 0 \in Nat /\ "rt" \in DOMAIN jstype
    BY DEF jstype
  <2>6. IsObject(rt)
    BY <2>3, <2>4, <2>5 DEF IsObject
  <2>. QED
    BY <2>3, <2>6
<1>6. IsHeap(f)
  <2>1. IsFiniteSet({p, q})
    <3>1. IsFiniteSet({p}) /\ IsFiniteSet({q}) /\ {p, q} = {p} \cup {q}
      BY FS_Singleton
    <3>2. IsFiniteSet({p} \cup {q})
      BY <3>1, FS_Union
    <3>. QED
      BY <3>1, <3>2
  <2>2. f.objs = [r \in Live(f) |-> f.objs[r]]
    BY <1>1, <1>2, <1>3
  <2>3. \A r \in Live(f) : IsObject(f.objs[r])
    BY <1>1, <1>2, <1>3, <1>4, <1>5
  <2>. QED
    BY <1>1, <1>3, <2>1, <2>2, <2>3 DEF IsHeap
<1>7. Kids(f, p) = {q} /\ Kids(f, q) = {}
  <2>. /\ p \in Live(f) /\ f.objs[p].kids = <<q>>
       /\ q \in Live(f) /\ f.objs[q].kids = <<>>
    BY <1>1, <1>2, <1>3, <1>4, <1>5
  <2>1. Kids(f, p) = InSlots(f.objs[p].kids) \ {0}
    BY <1>6, KidsAreInSlots, Zenon
  <2>2. Kids(f, q) = InSlots(f.objs[q].kids) \ {0}
    BY <1>6, KidsAreInSlots, Zenon
  <2>3. InSlots(<<q>>) = {q}
    BY DEF InSlots
  <2>4. InSlots(<<>>) = {}
    BY DEF InSlots
  <2>5. Kids(f, p) = {q} \ {0} /\ Kids(f, q) = {} \ {0}
    BY <2>1, <2>2, <2>3, <2>4, Zenon
  <2>. QED
    BY <2>5
<1>8. Refers(f, {p}) /\ Separate(f) /\ Rooted(f, {p})
  BY <1>3, <1>7, OneInAnother
<1>9. \A r \in Live(f) : Distinct(f.objs[r].kids)
  <2>1. Distinct(<<q>>)
    BY DEF Distinct
  <2>2. Distinct(<<>>)
    BY DEF Distinct
  <2>3. f.objs[p].kids = <<q>> /\ f.objs[q].kids = <<>>
    BY <1>1, <1>2, <1>4, <1>5
  <2>. QED
    BY <1>3, <2>1, <2>2, <2>3
<1>10. IsOwned(f, {p})
  BY <1>3, <1>8, <1>9 DEF IsOwned
<1>11. IsShaped(f, q, n)
  <2>1. f.objs[q].kids = <<>> /\ f.objs[q].type = "array" /\ f.objs[q].capacity = Space
    BY <1>1, <1>2, <1>4
  <2>2. Len(<<>>) = 0 /\ 0 <= Space
    BY SpaceAssumption
  <2>. QED
    BY <2>1, <2>2 DEF IsShaped, Scalars, HasNull
<1>12. IsShaped(f, p, n)
  <2>1. f.objs[p].kids = <<q>> /\ f.objs[p].type = "rt"
    BY <1>1, <1>2, <1>5
  <2>2. Len(<<q>>) = 1 /\ <<q>>[1] = q
    OBVIOUS
  <2>3. IsA(f, q, "array")
    BY <1>1, <1>2, <1>3, <1>4 DEF IsA
  <2>4. ~HasNull(f, p)
    <3>1. InSlots(<<q>>) = {q}
      BY DEF InSlots
    <3>. QED
      BY <2>1, <3>1, NullInSlots
  <2>. QED
    BY <2>1, <2>2, <2>3, <2>4 DEF IsShaped, Scalars
<1>. QED
  BY <1>1, <1>3, <1>6, <1>10, <1>11, <1>12 DEF Good

LEMMA RuntimeMade ==
  ASSUME NEW h, NEW L, NEW n, Good(h, L, n), NEW a, a = MakeRuntime(h)
  PROVE  Good(a.heap, L \cup {a.ref}, n) /\ IsNew(h, a.heap, a.ref)
<1>. DEFINE made == Fresh(h, {1, 2})
<1>1. IsHeap(h)
  BY DEF Good
<1>2. /\ made[1] \in Nat \ {0} /\ made[2] \in Nat \ {0} /\ made[1] # made[2]
      /\ made[1] \notin Live(h) /\ made[2] \notin Live(h)
  <2>1. IsFiniteSet({1, 2}) /\ {1, 2} \subseteq Nat
    <3>1. IsFiniteSet({1}) /\ IsFiniteSet({2}) /\ {1, 2} = {1} \cup {2}
      BY FS_Singleton
    <3>2. IsFiniteSet({1} \cup {2})
      BY <3>1, FS_Union
    <3>. QED
      BY <3>1, <3>2
  <2>. QED
    BY <1>1, <2>1, FreshAddresses
<1>3. PICK p \in Nat \ {0}, q \in Nat \ {0} : p = made[1] /\ q = made[2]
  BY <1>2
<1>4. PICK rt, code : /\ rt = [jsobj("rt", NULL) EXCEPT !.kids = <<q>>]
                      /\ code = [jsobj("array", NULL) EXCEPT !.capacity = Space]
  OBVIOUS
<1>5. PICK O : O = [r \in {p, q} |-> IF r = p THEN rt ELSE code]
  OBVIOUS
<1>6. PICK f : f = [objs |-> O, wild |-> FALSE]
  OBVIOUS
<1>7. PICK g : g = Added(h, O)
  OBVIOUS
<1>8. a = [heap |-> g, ref |-> p]
  BY <1>3, <1>4, <1>5, <1>7 DEF MakeRuntime
<1>. HIDE DEF made
<1>9. Good(f, {p}, n) /\ Live(f) = {p, q}
  <2>1. p # q
    BY <1>2, <1>3
  <2>2. IsRuntime(f, p, q)
    BY <1>4, <1>5, <1>6, Zenon DEF IsRuntime
  <2>. QED
    BY <2>1, <2>2, RuntimeObjects
<1>10. Live(h) \cap Live(f) = {} /\ IsHeap(f) /\ g = Added(h, f.objs)
  BY <1>2, <1>3, <1>6, <1>7, <1>9 DEF Good
<1>11. Good(g, L \cup {p}, n)
  BY <1>9, <1>10, Union
<1>12. Live(g) = Live(h) \cup Live(f) /\ Keeps(h, g, Live(h)) /\ Keeps(f, g, Live(f))
  BY <1>1, <1>10, UnionKeeps
<1>13. IsClosed(g, Live(g) \ Live(h))
  BY <1>9, <1>10, <1>12, ClosedInUnion
<1>14. IsNew(h, g, p)
  BY <1>2, <1>3, <1>9, <1>12, <1>13 DEF IsNew
<1>15. a.heap = g /\ a.ref = p
  BY <1>8
<1>. QED
  BY <1>11, <1>14, <1>15

LEMMA Made ==
  ASSUME NEW h, NEW L, NEW n, Good(h, L, n), NEW type \in DOMAIN jstype,
         NEW a, a = Make(h, type)
  PROVE  Good(a.heap, L \cup {a.ref}, n) /\ IsNew(h, a.heap, a.ref)
<1>1. CASE type \in Scalars
  <2>1. a = MakeScalar(h, type, 0)
    BY <1>1 DEF Make, Scalars
  <2>. QED
    <3>1. IsMade(h, L, n, a, jsobj(type, 0))
      BY <1>1, <2>1, ScalarMade
    <3>. QED
      BY <3>1 DEF IsMade
<1>2. CASE type = "array"
  <2>1. a = MakeArray(h)
    BY <1>2 DEF Make, Scalars
  <2>. QED
    BY <2>1, SpaciousMade
<1>3. CASE type = "map"
  <2>1. a = MakeMap(h)
    BY <1>3 DEF Make, Scalars
  <2>. QED
    BY <2>1, SpaciousMade
<1>4. CASE type = "tuple"
  <2>1. a = MakeTuple(h, 0)
    BY <1>4 DEF Make, Scalars
  <2>2. PICK k \in Nat : k = 0
    OBVIOUS
  <2>3. IsTuple(h, L, n, a, k)
    BY <2>1, <2>2, TupleMade
  <2>. QED
    BY <2>3 DEF IsTuple
<1>5. CASE type = "rt"
  <2>1. a = MakeRuntime(h)
    BY <1>5 DEF Make, Scalars
  <2>. QED
    BY <2>1, RuntimeMade
<1>. QED
  BY <1>1, <1>2, <1>3, <1>4, <1>5, Types

-----------------------------------------------------------------------------
(* An array or a tuple with other slots. *)
Reslotted(h, g, x, s) ==
  /\ IsHeap(g) /\ SameBut(h, g, x) /\ g.objs[x].kids = s
  /\ g.objs[x].capacity = h.objs[x].capacity
FitsIn(h, x, s) ==
  /\ h.objs[x].type \in {"array", "tuple"}
  /\ h.objs[x].type = "array" => Len(s) <= h.objs[x].capacity
  /\ InMap(h, x) => Len(s) = Len(h.objs[x].kids)

LEMMA OtherSlots ==
  ASSUME NEW h, NEW L, NEW n, Good(h, L, n), NEW x \in Live(h), NEW s \in Seq(Nat),
         FitsIn(h, x, s), Distinct(s), 0 \notin InSlots(s),
         NEW A, NEW D, NEW C, A \subseteq L, D \subseteq Kids(h, x),
         InSlots(s) = (Kids(h, x) \ D) \cup A,
         A \subseteq C, IsClosed(h, C), x \notin C,
         NEW g, g = WithKids(h, x, s)
  PROVE  Good(g, (L \ A) \cup D, n) /\ Reslotted(h, g, x, s)
<1>1. /\ IsHeap(g) /\ SameBut(h, g, x)
      /\ g.objs[x].kids = s /\ g.objs[x].capacity = h.objs[x].capacity
  BY WithKidsIs DEF Good
<1>2. x \in Live(g) /\ g.objs[x].type = h.objs[x].type
  BY <1>1 DEF SameBut
<1>3. Kids(g, x) = (Kids(h, x) \ D) \cup A
  <2>1. Kids(g, x) = InSlots(s) \ {0}
    BY <1>1, <1>2, KidsAreInSlots
  <2>. QED
    BY <2>1
<1>4. IsShaped(g, x, n)
  <2>1. ~HasNull(g, x)
    BY <1>1, NullInSlots
  <2>. QED
    BY <1>1, <1>2, <2>1 DEF IsShaped, FitsIn, Scalars
<1>5. InMap(h, x) => Len(g.objs[x].kids) = Len(h.objs[x].kids)
  BY <1>1 DEF FitsIn
<1>6. Distinct(g.objs[x].kids)
  BY <1>1
<1>7. Good(g, (L \ A) \cup D, n)
  BY <1>1, <1>3, <1>4, <1>5, <1>6, NewParts
<1>. QED
  BY <1>1, <1>7 DEF Reslotted

(* Only tuples are pairs of maps. *)
LEMMA OnlyPairsInMaps ==
  ASSUME NEW h, NEW L, NEW n, Good(h, L, n), NEW x, h.objs[x].type # "tuple"
  PROVE  ~InMap(h, x)
  BY DEF InMap, Good, IsShaped, IsPair, IsA

LEMMA ClonedIsNew ==
  ASSUME NEW h, NEW L, NEW n, Good(h, L, n), NEW r \in Live(h), NEW c, c = Clone(h, r)
  PROVE  \/ GoneWild(c.heap, n)
         \/ Good(c.heap, L \cup {c.ref}, n) /\ IsNew(h, c.heap, c.ref)
<1>1. IsClone(h, r, c) => IsNew(h, c.heap, c.ref)
  BY DEF IsClone, IsNew
<1>2. CASE GoneWild(c.heap, n)
  BY <1>2
<1>3. CASE Good(c.heap, L \cup {c.ref}, n) /\ IsClone(h, r, c)
  BY <1>1, <1>3
<1>. QED
  BY <1>2, <1>3, Cloned

(* What a call leaves as it was, that changes an object in place. *)
Changes(h, g, x) == x \in Live(g) /\ Keeps(h, g, Live(h) \ Reach(h, x))

(* An array, or the heap it is in, after an addition to it. *)
StaysGood(h, g, L, n, a) ==
  GoneWild(g, n) \/ (Good(g, L, n) /\ Keeps(h, g, Live(h) \ {a}) /\ IsA(g, a, "array"))

LEMMA AddedLate ==
  ASSUME NEW h, NEW L, NEW n, Good(h, L, n),
         NEW a \in Live(h), h.objs[a].type = "array", Len(h.objs[a].kids) + 1 <= h.objs[a].capacity,
         NEW v \in Live(h), NEW c, c = Clone(h, v),
         NEW g, g = WithKids(c.heap, a, Append(h.objs[a].kids, c.ref))
  PROVE  StaysGood(h, g, L, n, a)
<1>1. CASE GoneWild(c.heap, n)
  <2>1. IsWild(c.heap) => IsWild(g)
    BY WithKidsStaysWild
  <2>2. GoneWild(g, n)
    BY <1>1, <2>1, GoneOn, Zenon
  <2>. QED
    BY <2>2 DEF StaysGood
<1>2. CASE Good(c.heap, L \cup {c.ref}, n) /\ IsNew(h, c.heap, c.ref)
  <2>. DEFINE f == c.heap
              s == Append(h.objs[a].kids, c.ref)
              C == Live(f) \ Live(h)
  <2>1. PICK k \in Seq(Nat) : k = h.objs[a].kids
    BY TupleSlots
  <2>2. /\ Distinct(k) /\ 0 \notin InSlots(k) /\ InSlots(k) = Kids(h, a)
        /\ Kids(h, a) \subseteq Live(h)
    BY <2>1, TupleSlots
  <2>3. /\ c.ref \notin Live(h) /\ c.ref \in Live(f) /\ Live(h) \subseteq Live(f)
        /\ Keeps(h, f, Live(h)) /\ IsClosed(f, C)
    BY <1>2 DEF IsNew
  <2>4. c.ref \in Nat \ {0}
    BY <1>2, <2>3 DEF Good, IsHeap
  <2>5. /\ s \in Seq(Nat) /\ Len(s) = Len(k) + 1
        /\ InSlots(s) = InSlots(k) \cup {c.ref} /\ Distinct(s)
    <3>1. c.ref \notin InSlots(k)
      BY <2>2, <2>3
    <3>2. c.ref \in Nat
      BY <2>4
    <3>. QED
      BY <2>1, <2>2, <3>1, <3>2, OneMoreSlot
  <2>6. a \in Live(f) /\ f.objs[a] = h.objs[a] /\ Kids(f, a) = Kids(h, a)
    BY <2>3 DEF Keeps, Kids
  <2>. HIDE DEF f, s, C
  <2>7. FitsIn(f, a, s)
    <3>1. ~InMap(f, a)
      BY <1>2, <2>6, OnlyPairsInMaps DEF f
    <3>. QED
      BY <2>1, <2>5, <2>6, <3>1 DEF FitsIn
  <2>8. InSlots(s) = (Kids(f, a) \ {}) \cup {c.ref} /\ 0 \notin InSlots(s)
    BY <2>2, <2>4, <2>5, <2>6
  <2>9. {c.ref} \subseteq C /\ a \notin C
    BY <2>3 DEF C
  <2>10. Good(f, L \cup {c.ref}, n) /\ g = WithKids(f, a, s)
    BY <1>2 DEF f, s
  <2>11. Good(g, ((L \cup {c.ref}) \ {c.ref}) \cup {}, n) /\ Reslotted(f, g, a, s)
    <3>1. {c.ref} \subseteq L \cup {c.ref} /\ {} \subseteq Kids(f, a)
      OBVIOUS
    <3>2. PICK M, A, D : M = L \cup {c.ref} /\ A = {c.ref} /\ D = {}
      OBVIOUS
    <3>3. /\ Good(f, M, n) /\ a \in Live(f) /\ s \in Seq(Nat) /\ FitsIn(f, a, s) /\ Distinct(s)
          /\ 0 \notin InSlots(s) /\ A \subseteq M /\ D \subseteq Kids(f, a)
          /\ InSlots(s) = (Kids(f, a) \ D) \cup A /\ A \subseteq C /\ IsClosed(f, C) /\ a \notin C
          /\ g = WithKids(f, a, s)
      BY <2>3, <2>5, <2>6, <2>7, <2>8, <2>9, <2>10, <3>1, <3>2
    <3>4. Good(g, (M \ A) \cup D, n) /\ Reslotted(f, g, a, s)
      BY <3>3, OtherSlots, Zenon
    <3>. QED
      BY <3>2, <3>4
  <2>12. ((L \cup {c.ref}) \ {c.ref}) \cup {} = L
    BY <2>3 DEF Good, IsOwned
  <2>13. Keeps(h, g, Live(h) \ {a})
    BY <2>3, <2>11 DEF Reslotted, SameBut, Keeps
  <2>14. IsA(g, a, "array")
    BY <2>6, <2>11 DEF Reslotted, SameBut, IsA
  <2>. QED
    BY <2>11, <2>12, <2>13, <2>14 DEF StaysGood
<1>. QED
  BY <1>1, <1>2, ClonedIsNew

(* With the size gone up first, a slot that is not filled yet is seen by    *)
(* the clone: here it holds a nil, released when the slot gets the clone.   *)
HasRoom(h, a) ==
  h.objs[a].type = "array" /\ Len(h.objs[a].kids) + 1 <= h.objs[a].capacity
NilAdded(h, a, z, e) ==
  z = MakeScalar(h, "nil", 0) /\ e = WithKids(z.heap, a, Append(h.objs[a].kids, z.ref))
NilReplaced(h, a, z, c, g) ==
  g = Free(WithKids(c.heap, a, Append(h.objs[a].kids, c.ref)), {z.ref})

LEMMA AddedEarly ==
  ASSUME NEW h, NEW L, NEW n, Good(h, L, n), NEW a \in Live(h), HasRoom(h, a),
         NEW v \in Live(h), NEW z, NEW e, NilAdded(h, a, z, e), NEW c, c = Clone(e, v),
         NEW g, NilReplaced(h, a, z, c, g)
  PROVE  StaysGood(h, g, L, n, a)
<1>0. h.objs[a].type = "array"
  BY DEF HasRoom
<1>1. PICK k \in Seq(Nat) : k = h.objs[a].kids
  BY <1>0, TupleSlots
<1>2. /\ Distinct(k) /\ 0 \notin InSlots(k) /\ InSlots(k) = Kids(h, a)
      /\ Kids(h, a) \subseteq Live(h)
  BY <1>0, <1>1, TupleSlots
<1>3. PICK f, q : f = z.heap /\ q = z.ref
  OBVIOUS
<1>4. Good(f, L \cup {q}, n) /\ IsNew(h, f, q) /\ f.objs[q] = jsobj("nil", 0) /\ Live(f) = Live(h) \cup {q}
  <2>1. "nil" \in Scalars
    BY DEF Scalars
  <2>2. /\ Good(z.heap, L \cup {z.ref}, n) /\ IsNew(h, z.heap, z.ref)
        /\ z.heap.objs[z.ref] = jsobj("nil", 0) /\ Live(z.heap) = Live(h) \cup {z.ref}
    <3>1. IsMade(h, L, n, z, jsobj("nil", 0))
      BY <2>1, ScalarMade DEF NilAdded
    <3>. QED
      BY <3>1 DEF IsMade
  <2>. QED
    BY <1>3, <2>2
<1>5. q \in Nat \ {0} /\ q \notin Live(h) /\ q \in Live(f) /\ Keeps(h, f, Live(h)) /\ IsHeap(f)
  BY <1>4 DEF IsNew, Good, IsHeap
<1>6. a \in Live(f) /\ f.objs[a] = h.objs[a] /\ Kids(f, a) = Kids(h, a)
  BY <1>4, <1>5 DEF Keeps, Kids
<1>7. Kids(f, q) = {}
  <2>1. f.objs[q].kids = <<>>
    BY <1>4 DEF jsobj
  <2>2. Kids(f, q) = InSlots(<<>>) \ {0}
    BY <1>5, <2>1, KidsAreInSlots
  <2>. QED
    BY <2>2 DEF InSlots
<1>8. PICK s : s = Append(k, q)
  OBVIOUS
<1>9. s \in Seq(Nat) /\ Len(s) = Len(k) + 1 /\ InSlots(s) = InSlots(k) \cup {q} /\ Distinct(s)
  <2>1. q \notin InSlots(k) /\ q \in Nat
    BY <1>2, <1>5
  <2>. QED
    BY <1>2, <1>8, <2>1, OneMoreSlot
<1>10. Good(e, L, n) /\ Reslotted(f, e, a, s)
  <2>1. PICK M, A, D : M = L \cup {q} /\ A = {q} /\ D = {}
    OBVIOUS
  <2>2. FitsIn(f, a, s)
    <3>1. ~InMap(f, a)
      BY <1>0, <1>4, <1>6, OnlyPairsInMaps
    <3>. QED
      BY <1>1, <1>6, <1>9, <3>1 DEF FitsIn, HasRoom
  <2>3. /\ A \subseteq M /\ D \subseteq Kids(f, a) /\ InSlots(s) = (Kids(f, a) \ D) \cup A
        /\ IsClosed(f, A) /\ a \notin A /\ 0 \notin InSlots(s)
    BY <1>2, <1>5, <1>6, <1>7, <1>9, <2>1 DEF IsClosed
  <2>4. /\ Good(f, M, n) /\ a \in Live(f) /\ s \in Seq(Nat) /\ FitsIn(f, a, s) /\ Distinct(s)
        /\ 0 \notin InSlots(s) /\ A \subseteq M /\ D \subseteq Kids(f, a)
        /\ InSlots(s) = (Kids(f, a) \ D) \cup A /\ A \subseteq A /\ IsClosed(f, A) /\ a \notin A
        /\ e = WithKids(f, a, s)
    <3>1. e = WithKids(f, a, s)
      BY <1>1, <1>3, <1>8 DEF NilAdded
    <3>. QED
      BY <3>1, <1>1, <1>3, <1>4, <1>6, <1>8, <1>9, <2>1, <2>2, <2>3
  <2>5. Good(e, (M \ A) \cup D, n) /\ Reslotted(f, e, a, s)
    BY <2>4, OtherSlots, Zenon
  <2>6. (M \ A) \cup D = L
    BY <1>5, <2>1 DEF Good, IsOwned
  <2>. QED
    BY <2>5, <2>6
<1>11. /\ Live(e) = Live(f) /\ e.objs[a].kids = s /\ e.objs[a].type = h.objs[a].type
       /\ \A x \in Live(f) \ {a} : e.objs[x] = f.objs[x]
       /\ e.objs[a].capacity = h.objs[a].capacity
  BY <1>6, <1>10 DEF Reslotted, SameBut
<1>12. PICK b, t : b = c.heap /\ t = c.ref
  OBVIOUS
<1>13. g = Free(WithKids(b, a, Append(k, t)), {q})
  BY <1>1, <1>3, <1>12 DEF NilReplaced
<1>14. CASE GoneWild(b, n)
  <2>1. IsWild(b) => IsWild(WithKids(b, a, Append(k, t)))
    BY WithKidsStaysWild
  <2>2. IsWild(WithKids(b, a, Append(k, t))) => IsWild(g)
    BY <1>13, FreeStaysWild
  <2>3. GoneWild(g, n)
    BY <1>14, <2>1, <2>2, GoneOn, Zenon
  <2>. QED
    BY <2>3 DEF StaysGood
<1>15. CASE Good(b, L \cup {t}, n) /\ IsNew(e, b, t)
  <2>1. /\ t \notin Live(e) /\ t \in Live(b) /\ Live(e) \subseteq Live(b)
        /\ Keeps(e, b, Live(e)) /\ IsClosed(b, Live(b) \ Live(e))
    BY <1>15 DEF IsNew
  <2>2. t \in Nat \ {0} /\ IsHeap(b)
    BY <1>15, <2>1 DEF Good, IsHeap
  <2>3. a \in Live(b) /\ b.objs[a] = e.objs[a] /\ Kids(b, a) = Kids(h, a) \cup {q}
    <3>1. a \in Live(b) /\ b.objs[a] = e.objs[a] /\ b.objs[a].kids = s
      BY <1>6, <1>11, <2>1 DEF Keeps
    <3>2. Kids(b, a) = InSlots(s) \ {0}
      BY <2>2, <3>1, KidsAreInSlots
    <3>. QED
      BY <1>2, <1>5, <1>9, <3>1, <3>2
  <2>4. PICK u, C, m : u = Append(k, t) /\ C = Live(b) \ Live(e) /\ m = WithKids(b, a, u)
    OBVIOUS
  <2>5. u \in Seq(Nat) /\ Len(u) = Len(k) + 1 /\ InSlots(u) = InSlots(k) \cup {t} /\ Distinct(u)
    <3>1. t \notin InSlots(k) /\ t \in Nat
      BY <1>2, <1>4, <1>11, <2>1, <2>2
    <3>. QED
      BY <1>2, <2>4, <3>1, OneMoreSlot
  <2>6. FitsIn(b, a, u)
    <3>1. ~InMap(b, a)
      BY <1>0, <1>15, <1>11, <2>3, OnlyPairsInMaps
    <3>. QED
      BY <1>0, <1>1, <1>11, <2>3, <2>5, <3>1 DEF FitsIn, HasRoom
  <2>7. PICK M, A, D : M = L \cup {t} /\ A = {t} /\ D = {q}
    OBVIOUS
  <2>8. /\ A \subseteq M /\ D \subseteq Kids(b, a) /\ InSlots(u) = (Kids(b, a) \ D) \cup A
        /\ A \subseteq C /\ IsClosed(b, C) /\ a \notin C /\ 0 \notin InSlots(u)
    BY <1>2, <1>5, <1>6, <1>11, <2>1, <2>2, <2>3, <2>4, <2>5, <2>7
  <2>9. /\ Good(b, M, n) /\ a \in Live(b) /\ u \in Seq(Nat) /\ FitsIn(b, a, u) /\ Distinct(u)
        /\ 0 \notin InSlots(u) /\ A \subseteq M /\ D \subseteq Kids(b, a)
        /\ InSlots(u) = (Kids(b, a) \ D) \cup A /\ A \subseteq C /\ IsClosed(b, C) /\ a \notin C
        /\ m = WithKids(b, a, u)
    BY <1>15, <2>3, <2>4, <2>5, <2>6, <2>7, <2>8
  <2>10. Good(m, (M \ A) \cup D, n) /\ Reslotted(b, m, a, u)
    BY <2>9, OtherSlots, Zenon
  <2>11. (M \ A) \cup D = L \cup {q}
    <3>1. L \subseteq Live(e)
      BY <1>10 DEF Good, IsOwned
    <3>. QED
      BY <2>1, <2>7, <3>1
  <2>12. Good(m, L \cup {q}, n) /\ q \in L \cup {q}
    BY <2>10, <2>11
  <2>13. Kids(m, q) = {} /\ q \in Live(m)
    <3>1. q # a /\ q \in Live(e) /\ e.objs[q] = f.objs[q]
      BY <1>5, <1>11
    <3>2. q \in Live(b) /\ b.objs[q] = f.objs[q]
      BY <2>1, <3>1 DEF Keeps
    <3>3. q \in Live(m) /\ m.objs[q] = f.objs[q]
      BY <2>10, <3>1, <3>2 DEF Reslotted, SameBut
    <3>. QED
      BY <1>5, <1>7, <3>3 DEF Kids
  <2>14. Reach(m, q) = {q}
    <3>1. IsHeap(m) /\ IsClosed(m, Live(m))
      BY <2>12, GoodIsClosed
    <3>2. IsClosed(m, {q})
      BY <2>13 DEF IsClosed
    <3>. QED
      BY <2>13, <3>1, <3>2, ReachIsClosure
  <2>15. g = Free(m, Reach(m, q))
    BY <1>13, <2>4, <2>14
  <2>16. /\ Good(g, (L \cup {q}) \ {q}, n) /\ Live(g) = Live(m) \ {q}
         /\ \A x \in Live(g) : g.objs[x] = m.objs[x]
    <3>1. PICK M2, R : M2 = L \cup {q} /\ R = Reach(m, q)
      OBVIOUS
    <3>2. Good(m, M2, n) /\ q \in M2
      BY <2>12, <3>1
    <3>3. IsFreed(m, M2, n, q, g)
      BY <2>15, <3>2, Freed
    <3>. QED
      BY <2>14, <3>1, <3>3 DEF IsFreed
  <2>17. (L \cup {q}) \ {q} = L
    BY <1>5 DEF Good, IsOwned
  <2>18. Keeps(h, g, Live(h) \ {a}) /\ a \in Live(g)
    <3>. SUFFICES ASSUME NEW x \in Live(h) PROVE x \in Live(g) /\ (x # a => g.objs[x] = h.objs[x])
      BY DEF Keeps
    <3>1. x \in Live(f) /\ f.objs[x] = h.objs[x] /\ x # q
      BY <1>5 DEF Keeps
    <3>2. x \in Live(e) /\ (x # a => e.objs[x] = f.objs[x])
      BY <1>11, <3>1
    <3>3. x \in Live(b) /\ b.objs[x] = e.objs[x]
      BY <2>1, <3>2 DEF Keeps
    <3>4. x \in Live(m) /\ (x # a => m.objs[x] = b.objs[x])
      BY <2>10, <3>3 DEF Reslotted, SameBut
    <3>5. x \in Live(g) /\ g.objs[x] = m.objs[x]
      BY <2>16, <3>1, <3>4
    <3>. QED
      BY <3>1, <3>2, <3>3, <3>4, <3>5
  <2>19. IsA(g, a, "array")
    <3>1. g.objs[a] = m.objs[a] /\ a \in Live(g)
      BY <2>16, <2>18
    <3>. QED
      BY <1>0, <1>11, <2>3, <2>10, <3>1 DEF Reslotted, SameBut, IsA
  <2>. QED
    BY <2>16, <2>17, <2>18, <2>19 DEF StaysGood
<1>16. v \in Live(e)
  BY <1>4, <1>11
<1>. QED
  BY <1>10, <1>12, <1>14, <1>15, <1>16, ClonedIsNew DEF StaysGood

(* cjson_array_add_object *)
LEMMA AddedObject ==
  ASSUME NEW h, NEW L, NEW n, Good(h, L, n),
         NEW a \in Live(h), h.objs[a].type = "array", NEW v \in Live(h),
         NEW late \in BOOLEAN, NEW g, g = AddObject(h, a, v, late)
  PROVE  StaysGood(h, g, L, n, a)
<1>. DEFINE o == h.objs[a]
<1>1. PICK room : room = IF Len(o.kids) + 1 >= o.capacity THEN o.capacity + Space ELSE o.capacity
  OBVIOUS
<1>2. Len(o.kids) \in Nat /\ o.capacity \in Nat /\ Len(o.kids) <= o.capacity
  <2>1. IsObject(o) /\ IsShaped(h, a, n)
    BY DEF Good, IsHeap
  <2>. QED
    BY <2>1 DEF IsShaped, IsObject
<1>3. room \in Nat /\ Len(o.kids) <= room /\ Len(o.kids) + 1 <= room
  <2>1. PICK l \in Nat, c \in Nat : l = Len(o.kids) /\ c = o.capacity
    BY <1>2
  <2>2. room = IF l + 1 >= c THEN c + Space ELSE c
    BY <1>1, <2>1
  <2>3. l <= c
    BY <1>2, <2>1
  <2>4. room \in Nat /\ l <= room /\ l + 1 <= room
    BY <2>2, <2>3, SpaceAssumption
  <2>. QED
    BY <2>1, <2>4
<1>4. PICK f : f = WithSpace(h, a, room)
  OBVIOUS
<1>5. Good(f, L, n)
  BY <1>3, <1>4, MoreSpace
<1>6. SameBut(h, f, a) /\ f.objs[a].kids = o.kids /\ f.objs[a].capacity = room
  BY <1>3, <1>4, WithSpaceIs DEF Good
<1>7. a \in Live(f) /\ v \in Live(f) /\ f.objs[a].type = "array"
      /\ Len(f.objs[a].kids) + 1 <= f.objs[a].capacity
  BY <1>3, <1>6 DEF SameBut
<1>8. ASSUME Keeps(f, g, Live(f) \ {a}) PROVE Keeps(h, g, Live(h) \ {a})
  BY <1>6, <1>8 DEF Keeps, SameBut
<1>9. CASE late
  <2>1. g = WithKids(Clone(f, v).heap, a, Append(f.objs[a].kids, Clone(f, v).ref))
    BY <1>1, <1>4, <1>6, <1>9, Zenon DEF AddObject
  <2>2. StaysGood(f, g, L, n, a)
    BY <1>5, <1>7, <2>1, AddedLate
  <2>. QED
    BY <1>8, <2>2 DEF StaysGood
<1>10. CASE ~late
  <2>1. PICK z : z = MakeScalar(f, "nil", 0)
    OBVIOUS
  <2>2. PICK e : e = WithKids(z.heap, a, Append(f.objs[a].kids, z.ref))
    OBVIOUS
  <2>3. PICK c : c = Clone(e, v)
    OBVIOUS
  <2>4. g = Free(WithKids(c.heap, a, Append(f.objs[a].kids, c.ref)), {z.ref})
    BY <1>1, <1>4, <1>6, <1>10, <2>1, <2>2, <2>3, Zenon DEF AddObject
  <2>5. HasRoom(f, a) /\ NilAdded(f, a, z, e) /\ NilReplaced(f, a, z, c, g)
    BY <1>7, <2>1, <2>2, <2>4 DEF HasRoom, NilAdded, NilReplaced
  <2>6. StaysGood(f, g, L, n, a)
    BY <1>5, <1>7, <2>3, <2>5, AddedEarly
  <2>. QED
    BY <1>8, <2>6 DEF StaysGood
<1>. QED
  BY <1>9, <1>10

-----------------------------------------------------------------------------
(* cjson_tuple_set_object *)
LEMMA SpreadCloses ==
  ASSUME NEW h, NEW g, Spreads(h, g), NEW M, IsClosed(h, M)
  PROVE  IsClosed(g, M \cup (Live(g) \ Live(h)))
<1>. SUFFICES ASSUME NEW x \in M \cup (Live(g) \ Live(h))
              PROVE  Kids(g, x) \subseteq M \cup (Live(g) \ Live(h))
  BY DEF IsClosed
<1>1. CASE x \in Live(g)
  <2>1. Kids(g, x) \subseteq Kids(h, x) \cup (Live(g) \ Live(h))
    BY <1>1 DEF Spreads
  <2>2. x \in M => Kids(h, x) \subseteq M
    BY DEF IsClosed
  <2>3. x \notin Live(h) => Kids(h, x) = {}
    BY DEF Kids
  <2>. QED
    BY <2>1, <2>2, <2>3
<1>2. CASE x \notin Live(g)
  BY <1>2 DEF Kids
<1>. QED
  BY <1>1, <1>2

LEMMA SpreadsFurther ==
  ASSUME NEW h, NEW f, NEW g, Spreads(h, f), Spreads(f, g),
         Live(h) \subseteq Live(f), Live(f) \subseteq Live(g)
  PROVE  Spreads(h, g)
<1>. SUFFICES ASSUME NEW x \in Live(g) PROVE Kids(g, x) \subseteq Kids(h, x) \cup (Live(g) \ Live(h))
  BY DEF Spreads
<1>1. Kids(g, x) \subseteq Kids(f, x) \cup (Live(g) \ Live(f))
  BY DEF Spreads
<1>2. x \in Live(f) => Kids(f, x) \subseteq Kids(h, x) \cup (Live(f) \ Live(h))
  BY DEF Spreads
<1>3. x \notin Live(f) => Kids(f, x) = {}
  BY DEF Kids
<1>. QED
  BY <1>1, <1>2, <1>3

LEMMA NewSpreads ==
  ASSUME NEW h, NEW g, NEW r, IsNew(h, g, r)
  PROVE  Spreads(h, g)
<1>. SUFFICES ASSUME NEW x \in Live(g) PROVE Kids(g, x) \subseteq Kids(h, x) \cup (Live(g) \ Live(h))
  BY DEF Spreads
<1>1. x \in Live(h) => Kids(g, x) = Kids(h, x)
  BY DEF IsNew, Keeps, Kids
<1>2. x \notin Live(h) => Kids(g, x) \subseteq Live(g) \ Live(h)
  BY DEF IsNew, IsClosed
<1>. QED
  BY <1>1, <1>2

LEMMA SlotMade ==
  ASSUME NEW h, NEW L, NEW n, Good(h, L, n), NEW t \in Live(h), h.objs[t].type = "tuple",
         NEW i \in Nat, InMap(h, t) => i < Len(h.objs[t].kids)
  PROVE  \E k \in Nat : /\ Good(WithSlot(h, t, i), L, n) /\ HasGrown(h, WithSlot(h, t, i), t, k)
                        /\ i < Len(h.objs[t].kids) + k
                        /\ i < Len(h.objs[t].kids) => k = 0
                        /\ i >= Len(h.objs[t].kids) => Len(h.objs[t].kids) + k = i + 1
<1>1. PICK size \in Nat : size = Len(h.objs[t].kids)
  BY TupleSlots
<1>2. CASE i >= size
  <2>. DEFINE k == i + 1 - size
  <2>1. k \in Nat
    BY <1>2
  <2>2. WithSlot(h, t, i) = WithNils(h, t, k)
    <3>1. i >= Len(h.objs[t].kids)
      BY <1>1, <1>2
    <3>. QED
      BY <1>1, <3>1 DEF WithSlot
  <2>3. ~InMap(h, t)
    BY <1>1, <1>2
  <2>4. i < size + k /\ size + k = i + 1
    OBVIOUS
  <2>. HIDE DEF k
  <2>5. Good(WithNils(h, t, k), L, n) /\ HasGrown(h, WithNils(h, t, k), t, k)
    BY <2>1, <2>3, WithNilsIsGood, Zenon
  <2>6. i < size => k = 0
    BY <1>2
  <2>. QED
    BY <1>1, <2>1, <2>2, <2>4, <2>5, <2>6
<1>3. CASE i < size
  <2>1. WithSlot(h, t, i) = h
    <3>1. ~(i >= Len(h.objs[t].kids))
      BY <1>1, <1>3
    <3>. QED
      BY <3>1 DEF WithSlot
  <2>2. HasGrown(h, h, t, 0)
    <3>1. Len(h.objs[t].kids) = Len(h.objs[t].kids) + 0
      BY <1>1
    <3>. QED
      BY <3>1 DEF HasGrown, Keeps, Spreads
  <2>. QED
    BY <1>1, <1>3, <2>1, <2>2
<1>. QED
  BY <1>1, <1>2, <1>3

(* A tuple that holds another object in one of its slots. *)
IsSet(h, g, t, i) ==
  /\ t \in Live(g) /\ g.objs[t].type = "tuple"
  /\ i < Len(h.objs[t].kids) => Len(g.objs[t].kids) = Len(h.objs[t].kids)
  /\ Changes(h, g, t) /\ Spreads(h, g)

IsReplaced(f, L, n, t, old, c, s, m) ==
  /\ Good(m, L \cup {old}, n) /\ Reslotted(f, m, t, s) /\ Len(s) = Len(f.objs[t].kids)
  /\ old \in Kids(f, t) /\ old \notin L /\ Kids(m, t) = (Kids(f, t) \ {old}) \cup {c}

LEMMA NoNullSlots ==
  ASSUME NEW S, NEW K, NEW old, NEW c, 0 \notin S, 0 \notin K, old \in K, c # 0,
         S \ {0} = ((K \ {0}) \ ({old} \ {0})) \cup ({c} \ {0})
  PROVE  S = (K \ {old}) \cup {c}
  OBVIOUS

LEMMA ObjectReplaced ==
  ASSUME NEW f, NEW L, NEW n, NEW c, Good(f, L \cup {c}, n), c \notin L,
         NEW t \in Live(f), f.objs[t].type = "tuple", NEW C, IsClosed(f, C), c \in C, t \notin C,
         NEW j \in 1 .. Len(f.objs[t].kids), NEW old, old = f.objs[t].kids[j],
         NEW s, s = [f.objs[t].kids EXCEPT ![j] = c],
         NEW m, m = WithKids(f, t, s)
  PROVE  IsReplaced(f, L, n, t, old, c, s, m)
<1>1. PICK k \in Seq(Nat) : k = f.objs[t].kids
  BY TupleSlots
<1>2. /\ Distinct(k) /\ 0 \notin InSlots(k) /\ InSlots(k) = Kids(f, t)
      /\ Kids(f, t) \subseteq Live(f) \ (L \cup {c})
  BY <1>1, TupleSlots
<1>3. c \in Live(f) /\ c \in Nat \ {0}
  BY DEF Good, IsOwned, IsHeap
<1>4. old = k[j] /\ j \in 1 .. Len(k) /\ old \in InSlots(k)
  BY <1>1 DEF InSlots
<1>5. /\ s \in Seq(Nat) /\ Len(s) = Len(k) /\ Distinct(s) /\ s[j] = c
      /\ InSlots(s) \ {0} = ((InSlots(k) \ {0}) \ ({k[j]} \ {0})) \cup ({c} \ {0})
      /\ \A i \in 1 .. Len(k) : i # j => s[i] = k[i]
  <2>1. c \notin InSlots(k) /\ c \in Nat /\ s = [k EXCEPT ![j] = c]
    BY <1>1, <1>2, <1>3
  <2>2. SlotIs(k, j, c, s)
    BY <1>2, <1>4, <2>1, OtherSlot
  <2>. QED
    BY <2>2 DEF SlotIs
<1>6. 0 \notin InSlots(s)
  BY <1>2, <1>3, <1>5 DEF InSlots
<1>7. InSlots(s) = (InSlots(k) \ {old}) \cup {c}
  <2>1. PICK S, K : S = InSlots(s) /\ K = InSlots(k)
    OBVIOUS
  <2>2. S \ {0} = ((K \ {0}) \ ({old} \ {0})) \cup ({c} \ {0})
    BY <1>4, <1>5, <2>1
  <2>3. 0 \notin S /\ 0 \notin K /\ old \in K /\ c # 0
    BY <1>2, <1>3, <1>4, <1>6, <2>1
  <2>4. S = (K \ {old}) \cup {c}
    BY <2>2, <2>3, NoNullSlots
  <2>. QED
    BY <2>1, <2>4
<1>8. FitsIn(f, t, s)
  BY <1>1, <1>5 DEF FitsIn
<1>9. PICK M, A, D : M = L \cup {c} /\ A = {c} /\ D = {old}
  OBVIOUS
<1>10. /\ Good(f, M, n) /\ t \in Live(f) /\ s \in Seq(Nat) /\ FitsIn(f, t, s) /\ Distinct(s)
       /\ 0 \notin InSlots(s) /\ A \subseteq M /\ D \subseteq Kids(f, t)
       /\ InSlots(s) = (Kids(f, t) \ D) \cup A /\ A \subseteq C /\ IsClosed(f, C) /\ t \notin C
       /\ m = WithKids(f, t, s)
  BY <1>2, <1>4, <1>5, <1>6, <1>7, <1>8, <1>9
<1>11. Good(m, (M \ A) \cup D, n) /\ Reslotted(f, m, t, s)
  BY <1>10, OtherSlots, Zenon
<1>12. (M \ A) \cup D = L \cup {old}
  BY <1>9
<1>13. Kids(m, t) = (Kids(f, t) \ {old}) \cup {c}
  <2>1. t \in Live(m) /\ m.objs[t].kids = s /\ IsHeap(m)
    BY <1>11 DEF Reslotted, SameBut
  <2>2. Kids(m, t) = InSlots(s) \ {0}
    BY <2>1, KidsAreInSlots
  <2>. QED
    BY <1>2, <1>6, <1>7, <2>2
<1>. QED
  BY <1>1, <1>2, <1>4, <1>5, <1>11, <1>12, <1>13 DEF IsReplaced

LEMMA ObjectSet ==
  ASSUME NEW h, NEW L, NEW n, Good(h, L, n), NEW t \in Live(h), h.objs[t].type = "tuple",
         NEW i \in Nat, InMap(h, t) => i < Len(h.objs[t].kids),
         NEW v \in Live(h), NEW g, g = SetObject(h, t, i, v)
  PROVE  GoneWild(g, n) \/ (Good(g, L, n) /\ IsSet(h, g, t, i))
<1>1. PICK size \in Nat : size = Len(h.objs[t].kids)
  BY TupleSlots
<1>2. PICK k \in Nat : /\ Good(WithSlot(h, t, i), L, n) /\ HasGrown(h, WithSlot(h, t, i), t, k)
                       /\ i < size + k /\ (i < size => k = 0)
  BY <1>1, SlotMade
<1>3. PICK room : room = WithSlot(h, t, i)
  OBVIOUS
<1>4. /\ Good(room, L, n) /\ Live(h) \subseteq Live(room) /\ Keeps(h, room, Live(h) \ {t})
      /\ room.objs[t].type = "tuple" /\ Len(room.objs[t].kids) = size + k
      /\ Kids(h, t) \subseteq Kids(room, t) /\ Spreads(h, room)
  BY <1>1, <1>2, <1>3 DEF HasGrown
<1>5. PICK c : c = Clone(room, v)
  OBVIOUS
<1>6. t \in Live(room) /\ v \in Live(room)
  BY <1>4
<1>7. PICK j \in 1 .. Len(room.objs[t].kids) : j = i + 1
  BY <1>2, <1>4
<1>8. PICK old, s, m : /\ old = room.objs[t].kids[j]
                       /\ s = [room.objs[t].kids EXCEPT ![j] = c.ref]
                       /\ m = WithKids(c.heap, t, s)
  OBVIOUS
<1>9. g = Release(m, old)
  BY <1>3, <1>5, <1>7, <1>8 DEF SetObject
<1>10. CASE GoneWild(c.heap, n)
  <2>1. IsWild(c.heap) => IsWild(m)
    BY <1>8, WithKidsStaysWild
  <2>2. IsWild(m) => IsWild(g)
    BY <1>9, ReleaseStaysWild
  <2>3. GoneWild(g, n)
    BY <1>10, <2>1, <2>2, GoneOn, Zenon
  <2>. QED
    BY <2>3
<1>11. CASE Good(c.heap, L \cup {c.ref}, n) /\ IsNew(room, c.heap, c.ref)
  <2>1. PICK f, r, C : f = c.heap /\ r = c.ref /\ C = Live(c.heap) \ Live(room)
    OBVIOUS
  <2>2. /\ Good(f, L \cup {r}, n) /\ r \notin Live(room) /\ r \in Live(f) /\ Live(room) \subseteq Live(f)
        /\ Keeps(room, f, Live(room)) /\ IsClosed(f, C) /\ Spreads(room, f)
    BY <1>11, <2>1, NewSpreads DEF IsNew
  <2>3. t \in Live(f) /\ f.objs[t] = room.objs[t] /\ Kids(f, t) = Kids(room, t)
    BY <1>6, <2>2 DEF Keeps, Kids
  <2>4. r \notin L
    BY <1>4, <2>2 DEF Good, IsOwned
  <2>5. r \in C /\ t \notin C
    BY <1>6, <2>1, <2>2
  <2>6. /\ f.objs[t].type = "tuple" /\ j \in 1 .. Len(f.objs[t].kids) /\ old = f.objs[t].kids[j]
        /\ s = [f.objs[t].kids EXCEPT ![j] = r] /\ m = WithKids(f, t, s)
    BY <1>4, <1>7, <1>8, <2>1, <2>3
  <2>7. /\ Good(m, L \cup {old}, n) /\ Reslotted(f, m, t, s) /\ Len(s) = Len(f.objs[t].kids)
        /\ old \in Kids(f, t) /\ old \notin L /\ Kids(m, t) = (Kids(f, t) \ {old}) \cup {r}
    <3>1. IsReplaced(f, L, n, t, old, r, s, m)
      BY <2>2, <2>3, <2>4, <2>5, <2>6, ObjectReplaced
    <3>. QED
      BY <3>1 DEF IsReplaced
  <2>8. /\ Live(m) = Live(f) /\ m.objs[t].kids = s /\ m.objs[t].type = "tuple"
        /\ \A x \in Live(f) \ {t} : m.objs[x] = f.objs[x]
    BY <2>6, <2>7 DEF Reslotted, SameBut
  <2>9. PICK R : R = Reach(m, old)
    OBVIOUS
  <2>10. old \in Live(m)
    BY <2>7 DEF Good, IsOwned
  <2>11. g = Free(m, R)
    BY <1>9, <2>7, <2>9, <2>10, ReleaseFrees
  <2>12. /\ Good(g, L, n) /\ Live(g) = Live(m) \ R
         /\ \A x \in Live(g) : g.objs[x] = m.objs[x]
    <3>1. PICK M : M = L \cup {old}
      OBVIOUS
    <3>2. Good(m, M, n) /\ old \in M
      BY <2>7, <3>1
    <3>3. IsFreed(m, M, n, old, g)
      BY <2>9, <2>11, <3>2, Freed
    <3>4. M \ {old} = L
      BY <2>7, <3>1
    <3>. QED
      BY <2>9, <3>3, <3>4 DEF IsFreed
  <2>13. Spreads(h, m) /\ Live(h) \subseteq Live(m)
    <3>1. Spreads(h, f) /\ Live(h) \subseteq Live(f)
      BY <1>4, <2>2, SpreadsFurther
    <3>2. ASSUME NEW x \in Live(m) PROVE Kids(m, x) \subseteq Kids(h, x) \cup (Live(m) \ Live(h))
      <4>1. Kids(f, x) \subseteq Kids(h, x) \cup (Live(f) \ Live(h))
        BY <2>8, <3>1 DEF Spreads
      <4>2. x # t => Kids(m, x) = Kids(f, x)
        BY <2>8 DEF Kids
      <4>3. r \in Live(f) \ Live(h)
        BY <1>4, <2>2
      <4>. QED
        BY <2>7, <2>8, <4>1, <4>2, <4>3
    <3>. QED
      BY <2>8, <3>1, <3>2 DEF Spreads
  <2>14. Spreads(h, g)
    <3>. SUFFICES ASSUME NEW x \in Live(g) PROVE Kids(g, x) \subseteq Kids(h, x) \cup (Live(g) \ Live(h))
      BY DEF Spreads
    <3>1. x \in Live(m) /\ Kids(g, x) = Kids(m, x)
      BY <2>12 DEF Kids
    <3>2. Kids(m, x) \subseteq Kids(h, x) \cup (Live(m) \ Live(h))
      BY <2>13, <3>1 DEF Spreads
    <3>3. Kids(g, x) \subseteq Live(g)
      BY <2>12 DEF Good, IsOwned, Refers
    <3>. QED
      BY <3>1, <3>2, <3>3
  <2>15. R \cap Live(h) \subseteq Reach(h, t) /\ R \subseteq Live(m)
    <3>1. PICK P : P = Reach(h, t)
      OBVIOUS
    <3>2. IsHeap(h) /\ IsClosed(h, Live(h)) /\ IsHeap(m) /\ IsClosed(m, Live(m))
      BY <2>7, GoodIsClosed
    <3>3. t \in P /\ IsClosed(h, P) /\ P \subseteq Live(h)
      BY <3>1, <3>2, ReachIsClosure
    <3>4. IsClosed(m, P \cup (Live(m) \ Live(h)))
      BY <2>13, <3>3, SpreadCloses
    <3>5. old \in P \cup (Live(m) \ Live(h))
      <4>1. old \in Kids(h, t) \cup (Live(room) \ Live(h))
        BY <1>4, <1>6, <2>3, <2>7 DEF Spreads
      <4>2. Kids(h, t) \subseteq P
        BY <3>3 DEF IsClosed
      <4>. QED
        BY <2>10, <4>1, <4>2
    <3>6. R \subseteq P \cup (Live(m) \ Live(h)) /\ R \subseteq Live(m)
      BY <2>9, <2>10, <3>2, <3>4, <3>5, ReachIsClosure
    <3>. QED
      BY <3>1, <3>6
  <2>16. t \notin R
    <3>1. t \in Live(m) /\ old \in L \cup {old}
      BY <2>3, <2>8
    <3>2. CASE t \in R
      <4>1. old # t
        <5>1. t \notin Kids(f, t)
          <6>1. Kids(f, t) \subseteq Live(f) /\ t \in Reach(f, t)
            <7>1. IsHeap(f) /\ IsClosed(f, Live(f))
              BY <2>2, GoodIsClosed
            <7>. QED
              BY <2>3, <7>1, ReachIsClosure DEF IsClosed
          <6>. QED
            BY <2>2, <2>3, <6>1, NoCycle
        <5>. QED
          BY <2>7, <5>1
      <4>2. IsHeap(m) /\ IsClosed(m, Live(m)) /\ IsHeap(f) /\ IsClosed(f, Live(f))
        BY <2>2, <2>7, GoodIsClosed
      <4>3. PICK P : P = Reach(f, old)
        OBVIOUS
      <4>4. old \in Live(f) /\ t \notin P /\ IsClosed(f, P) /\ old \in P
        <5>1. old \in Live(f)
          BY <2>8, <2>10
        <5>2. IsClosed(f, P) /\ old \in P
          BY <4>2, <4>3, <5>1, ReachIsClosure
        <5>3. t \notin P
          BY <2>2, <2>7, <4>3, <5>1, NoCycle
        <5>. QED
          BY <5>1, <5>2, <5>3
      <4>5. IsClosed(m, P)
        <5>. SUFFICES ASSUME NEW x \in P PROVE Kids(m, x) \subseteq P
          BY DEF IsClosed
        <5>1. Kids(m, x) = Kids(f, x)
          BY <2>8, <4>4 DEF Kids
        <5>. QED
          BY <4>4, <5>1 DEF IsClosed
      <4>. QED
        BY <2>9, <2>10, <3>2, <4>2, <4>4, <4>5, ReachIsClosure
    <3>. QED
      BY <3>2
  <2>17. IsSet(h, g, t, i)
    <3>1. t \in Live(g) /\ g.objs[t] = m.objs[t]
      BY <2>3, <2>8, <2>12, <2>16
    <3>2. i < size => Len(g.objs[t].kids) = size
      BY <1>2, <1>4, <2>3, <2>7, <2>8, <3>1
    <3>3. Keeps(h, g, Live(h) \ Reach(h, t))
      <4>. SUFFICES ASSUME NEW x \in Live(h), x \notin Reach(h, t)
                    PROVE  x \in Live(g) /\ g.objs[x] = h.objs[x]
        BY DEF Keeps
      <4>1. x # t
        BY GoodIsClosed, ReachIsClosure
      <4>2. x \in Live(room) /\ room.objs[x] = h.objs[x]
        BY <1>4, <4>1 DEF Keeps
      <4>3. x \in Live(f) /\ f.objs[x] = room.objs[x]
        BY <2>2, <4>2 DEF Keeps
      <4>4. x \in Live(m) /\ m.objs[x] = f.objs[x] /\ x \notin R
        BY <2>8, <2>15, <4>1, <4>3
      <4>. QED
        BY <2>12, <4>2, <4>3, <4>4
    <3>. QED
      BY <1>1, <2>8, <2>14, <3>1, <3>2, <3>3 DEF IsSet, Changes
  <2>. QED
    BY <2>12, <2>17
<1>. QED
  BY <1>4, <1>5, <1>6, <1>10, <1>11, ClonedIsNew

-----------------------------------------------------------------------------
IsConcat(s, t, u) ==
  /\ u \in Seq(Nat) /\ Len(u) = Len(s) + Len(t)
  /\ \A i \in 1 .. Len(s) : u[i] = s[i]
  /\ \A i \in 1 .. Len(t) : u[Len(s) + i] = t[i]

LEMMA Concat ==
  ASSUME NEW s \in Seq(Nat), NEW t \in Seq(Nat), NEW u, u = s \o t
  PROVE  IsConcat(s, t, u)
<1>1. /\ u \in Seq(Nat) /\ Len(u) = Len(s) + Len(t) /\ Len(s) \in Nat /\ Len(t) \in Nat
      /\ \A i \in 1 .. Len(s) : u[i] = s[i]
      /\ \A i \in 1 .. Len(t) : u[Len(s) + i] = t[i]
  OBVIOUS
<1>. QED
  BY <1>1 DEF IsConcat

IsPiece(s, a, b, p) ==
  p \in Seq(Nat) /\ Len(p) = b + 1 - a /\ \A j \in 1 .. b + 1 - a : p[j] = s[a + j - 1]

LEMMA PieceOf ==
  ASSUME NEW s \in Seq(Nat), NEW a \in Nat \ {0}, NEW b \in Nat, a <= b + 1, b <= Len(s)
  PROVE  IsPiece(s, a, b, SubSeq(s, a, b))
<1>1. SubSeq(s, a, b) \in Seq(Nat) /\ Len(SubSeq(s, a, b)) = b + 1 - a
  OBVIOUS
<1>2. ASSUME NEW j \in 1 .. b + 1 - a PROVE SubSeq(s, a, b)[j] = s[a + j - 1]
  OBVIOUS
<1>. QED
  BY <1>1, <1>2 DEF IsPiece

LEMMA BeginningOf ==
  ASSUME NEW s \in Seq(Nat), NEW n \in Nat, n <= Len(s)
  PROVE  /\ SubSeq(s, 1, n) \in Seq(Nat) /\ Len(SubSeq(s, 1, n)) = n
         /\ \A j \in 1 .. n : SubSeq(s, 1, n)[j] = s[j]
<1>1. SubSeq(s, 1, n) \in Seq(Nat) /\ Len(SubSeq(s, 1, n)) = n
  OBVIOUS
<1>2. ASSUME NEW j \in 1 .. n PROVE SubSeq(s, 1, n)[j] = s[j]
  OBVIOUS
<1>. QED
  BY <1>1, <1>2

LEMMA SlotsOfBeginning ==
  ASSUME NEW u \in Seq(Nat), NEW v \in Seq(Nat), NEW n \in Nat, Len(v) = n, n <= Len(u), Distinct(u),
         \A j \in 1 .. n : v[j] = u[j]
  PROVE  Distinct(v) /\ InSlots(v) \subseteq InSlots(u)
<1>1. \A j \in 1 .. n : j \in 1 .. Len(u)
  OBVIOUS
<1>2. Distinct(v)
  BY <1>1 DEF Distinct
<1>3. InSlots(v) \subseteq InSlots(u)
  BY <1>1 DEF InSlots
<1>. QED
  BY <1>2, <1>3

LEMMA SameSlots ==
  ASSUME NEW n \in Nat, NEW k \in Seq(Nat), Len(k) = n, NEW v \in Seq(Nat), Len(v) = n,
         \A j \in 1 .. n : v[j] = k[j]
  PROVE  v = k
  OBVIOUS

(* The slots of a map with a pair more at place i. *)
IsInserted(k, i, t, u) ==
  /\ u \in Seq(Nat) /\ Len(u) = Len(k) + 1 /\ u[i] = t
  /\ \A j \in 1 .. Len(k) : /\ j < i => u[j] = k[j]
                            /\ j >= i => u[j + 1] = k[j]

LEMMA InsertedAt ==
  ASSUME NEW k \in Seq(Nat), NEW t \in Nat, NEW i \in 1 .. Len(k) + 1
  PROVE  IsInserted(k, i, t, InsertAt(k, i, t))
<1>1. PICK n \in Nat : n = Len(k)
  OBVIOUS
<1>2. PICK a, b, c : a = SubSeq(k, 1, i - 1) /\ b = <<t>> /\ c = SubSeq(k, i, n)
  OBVIOUS
<1>0. n \in Nat /\ i \in Nat /\ i >= 1 /\ i <= n + 1 /\ i - 1 \in Nat /\ i - 1 <= n
  BY <1>1
<1>3. a \in Seq(Nat) /\ Len(a) = i - 1 /\ \A j \in 1 .. i - 1 : a[j] = k[j]
  <2>1. i - 1 \in Nat /\ i - 1 <= Len(k)
    BY <1>0, <1>1
  <2>. QED
    BY <1>2, <2>1, BeginningOf
<1>4. c \in Seq(Nat) /\ Len(c) = n + 1 - i /\ \A j \in 1 .. n + 1 - i : c[j] = k[i + j - 1]
  <2>1. i \in Nat \ {0} /\ i <= n + 1 /\ n <= Len(k) /\ c = SubSeq(k, i, n)
    BY <1>0, <1>1, <1>2
  <2>2. IsPiece(k, i, n, c)
    BY <2>1, PieceOf
  <2>. QED
    BY <2>2 DEF IsPiece
<1>5. b \in Seq(Nat) /\ Len(b) = 1 /\ b[1] = t
  BY <1>2
<1>6. PICK d : d = a \o b
  OBVIOUS
<1>7. d \in Seq(Nat) /\ Len(d) = i /\ d[i] = t /\ \A j \in 1 .. i - 1 : d[j] = k[j]
  <2>1. IsConcat(a, b, d)
    BY <1>3, <1>5, <1>6, Concat
  <2>2. d \in Seq(Nat) /\ Len(d) = i /\ \A j \in 1 .. i - 1 : d[j] = a[j]
    BY <1>1, <1>3, <1>5, <2>1 DEF IsConcat
  <2>3. d[i - 1 + 1] = b[1]
    BY <1>3, <1>5, <2>1 DEF IsConcat
  <2>. QED
    BY <1>1, <1>3, <1>5, <2>2, <2>3
<1>8. PICK u : u = d \o c
  OBVIOUS
<1>9. /\ u \in Seq(Nat) /\ Len(u) = n + 1 /\ \A j \in 1 .. i : u[j] = d[j]
      /\ \A j \in 1 .. n + 1 - i : u[i + j] = c[j]
  <2>1. IsConcat(d, c, u)
    BY <1>4, <1>7, <1>8, Concat
  <2>2. u \in Seq(Nat) /\ Len(u) = n + 1 /\ \A j \in 1 .. i : u[j] = d[j]
    BY <1>1, <1>4, <1>7, <2>1 DEF IsConcat
  <2>3. \A j \in 1 .. n + 1 - i : u[i + j] = c[j]
    <3>1. \A j \in 1 .. Len(c) : u[Len(d) + j] = c[j]
      BY <2>1, Zenon DEF IsConcat
    <3>. QED
      BY <1>4, <1>7, <3>1, Zenon
  <2>. QED
    BY <2>2, <2>3
<1>10. u[i] = t
  BY <1>1, <1>7, <1>9
<1>11. ASSUME NEW j \in 1 .. n, j < i PROVE u[j] = k[j]
  BY <1>1, <1>7, <1>9, <1>11
<1>12. ASSUME NEW j \in 1 .. n, j >= i PROVE u[j + 1] = k[j]
  <2>1. PICK m \in 1 .. n + 1 - i : i + m = j + 1 /\ i + m - 1 = j
    <3>1. j + 1 - i \in 1 .. n + 1 - i /\ i + (j + 1 - i) = j + 1 /\ i + (j + 1 - i) - 1 = j
      BY <1>0, <1>12
    <3>. QED
      BY <3>1
  <2>2. u[i + m] = c[m]
    BY <1>9, Zenon
  <2>3. c[m] = k[i + m - 1]
    BY <1>4, Zenon
  <2>. QED
    BY <2>1, <2>2, <2>3, Zenon
<1>13. u = InsertAt(k, i, t)
  BY <1>1, <1>2, <1>6, <1>8 DEF InsertAt
<1>. QED
  BY <1>1, <1>9, <1>10, <1>11, <1>12, <1>13 DEF IsInserted

LEMMA InsertedSlots ==
  ASSUME NEW k \in Seq(Nat), Distinct(k), NEW t \in Nat \ {0}, t \notin InSlots(k),
         NEW i \in 1 .. Len(k) + 1, NEW u, IsInserted(k, i, t, u)
  PROVE  Distinct(u) /\ InSlots(u) = InSlots(k) \cup {t}
<1>1. PICK n \in Nat : n = Len(k)
  OBVIOUS
<1>2. /\ Len(u) = n + 1 /\ u[i] = t
      /\ \A j \in 1 .. n : (j < i => u[j] = k[j]) /\ (j >= i => u[j + 1] = k[j])
  BY <1>1 DEF IsInserted
<1>3. ASSUME NEW j \in 1 .. n + 1, j # i
      PROVE  IF j < i THEN j \in 1 .. n /\ u[j] = k[j] ELSE j - 1 \in 1 .. n /\ u[j] = k[j - 1]
  <2>1. CASE j < i
    <3>1. j \in 1 .. n
      BY <1>1, <2>1
    <3>. QED
      BY <1>2, <2>1, <3>1
  <2>2. CASE ~(j < i)
    <3>1. j - 1 \in 1 .. n /\ j - 1 >= i /\ (j - 1) + 1 = j
      BY <1>1, <1>3, <2>2
    <3>2. u[(j - 1) + 1] = k[j - 1]
      BY <1>2, <3>1
    <3>. QED
      BY <2>2, <3>1, <3>2
  <2>. QED
    BY <2>1, <2>2
<1>4. InSlots(u) \subseteq InSlots(k) \cup {t}
  <2>. SUFFICES ASSUME NEW j \in 1 .. n + 1, j # i PROVE u[j] \in InSlots(k)
    BY <1>2 DEF InSlots
  <2>. QED
    BY <1>1, <1>3 DEF InSlots
<1>5. InSlots(k) \cup {t} \subseteq InSlots(u)
  <2>1. t \in InSlots(u)
    BY <1>1, <1>2 DEF InSlots
  <2>2. ASSUME NEW j \in 1 .. n PROVE k[j] \in InSlots(u)
    <3>1. CASE j < i
      BY <1>1, <1>2, <3>1 DEF InSlots
    <3>2. CASE j >= i
      <4>1. j + 1 \in 1 .. n + 1 /\ u[j + 1] = k[j]
        BY <1>1, <1>2, <3>2
      <4>. QED
        BY <1>2, <4>1 DEF InSlots
    <3>. QED
      BY <3>1, <3>2
  <2>. QED
    BY <1>1, <2>1, <2>2 DEF InSlots
<1>6. Distinct(u)
  <2>. SUFFICES ASSUME NEW p \in 1 .. n + 1, NEW q \in 1 .. n + 1, u[p] = u[q], u[p] # 0
                PROVE  p = q
    BY <1>2 DEF Distinct
  <2>1. CASE p = i \/ q = i
    <3>1. ASSUME NEW j \in 1 .. n + 1, j # i PROVE u[j] # t
      BY <1>1, <1>3, <3>1 DEF InSlots
    <3>. QED
      BY <1>2, <2>1, <3>1
  <2>2. CASE p # i /\ q # i
    <3>. DEFINE x == IF p < i THEN p ELSE p - 1
                y == IF q < i THEN q ELSE q - 1
    <3>1. x \in 1 .. n /\ u[p] = k[x]
      BY <1>3, <2>2
    <3>2. y \in 1 .. n /\ u[q] = k[y]
      BY <1>3, <2>2
    <3>. HIDE DEF x, y
    <3>3. x = y
      BY <1>1, <3>1, <3>2 DEF Distinct
    <3>. QED
      BY <1>1, <2>2, <3>3 DEF x, y
  <2>. QED
    BY <2>1, <2>2
<1>. QED
  BY <1>4, <1>5, <1>6

(* The same while the size is the old one: the last pair is out. *)
IsCut(k, t, v) ==
  /\ v \in Seq(Nat) /\ Len(v) = Len(k) /\ Distinct(v)
  /\ InSlots(v) \ {0} = ((InSlots(k) \ {0}) \ ({k[Len(k)]} \ {0})) \cup {t}
  /\ 0 \in InSlots(v) => 0 \in InSlots(k)

LEMMA CutSlots ==
  ASSUME NEW k \in Seq(Nat), Distinct(k), NEW t \in Nat \ {0}, t \notin InSlots(k),
         NEW i \in 1 .. Len(k), NEW u, IsInserted(k, i, t, u)
  PROVE  IsCut(k, t, SubSeq(u, 1, Len(k)))
<1>1. PICK n \in Nat : n = Len(k) /\ n \in 1 .. Len(k)
  OBVIOUS
<1>2. PICK v : v = SubSeq(u, 1, n)
  OBVIOUS
<1>3. u \in Seq(Nat) /\ Len(u) = n + 1 /\ u[n + 1] = k[n] /\ u[i] = t
  <2>1. n \in 1 .. Len(k) /\ n >= i
    BY <1>1
  <2>. QED
    BY <1>1, <2>1 DEF IsInserted
<1>4. v \in Seq(Nat) /\ Len(v) = n /\ \A j \in 1 .. n : v[j] = u[j]
  <2>1. u \in Seq(Nat) /\ n \in Nat /\ n <= Len(u)
    BY <1>1, <1>3
  <2>. QED
    BY <1>2, <2>1, BeginningOf
<1>5. i \in 1 .. Len(k) + 1
  BY <1>1
<1>6. Distinct(u) /\ InSlots(u) = InSlots(k) \cup {t}
  BY <1>5, InsertedSlots
<1>7. Distinct(v) /\ InSlots(v) \subseteq InSlots(u)
  <2>1. n \in Nat /\ n <= Len(u)
    BY <1>1, <1>3
  <2>. QED
    BY <1>3, <1>4, <1>6, <2>1, SlotsOfBeginning
<1>8. InSlots(v) \subseteq InSlots(u)
  BY <1>7
<1>9. InSlots(u) \subseteq InSlots(v) \cup {k[n]}
  <2>. SUFFICES ASSUME NEW j \in 1 .. n + 1 PROVE u[j] \in InSlots(v) \/ u[j] = k[n]
    BY <1>3 DEF InSlots
  <2>1. CASE j \in 1 .. n
    BY <1>1, <1>4, <2>1 DEF InSlots
  <2>2. CASE j = n + 1
    BY <1>3, <2>2
  <2>. QED
    BY <1>1, <2>1, <2>2
<1>10. k[n] # 0 => k[n] \notin InSlots(v)
  <2>. SUFFICES ASSUME k[n] # 0, NEW j \in 1 .. n, v[j] = k[n] PROVE FALSE
    BY <1>4 DEF InSlots
  <2>1. u[j] = u[n + 1] /\ u[j] # 0 /\ j \in 1 .. Len(u) /\ n + 1 \in 1 .. Len(u)
    BY <1>1, <1>3, <1>4
  <2>2. j = n + 1
    BY <1>6, <2>1 DEF Distinct
  <2>. QED
    BY <1>1, <2>2
<1>11. t # k[n] /\ k[n] \in InSlots(k)
  BY <1>1 DEF InSlots
<1>12. InSlots(v) \ {0} = ((InSlots(k) \ {0}) \ ({k[n]} \ {0})) \cup {t}
  BY <1>6, <1>8, <1>9, <1>10, <1>11
<1>13. 0 \in InSlots(v) => 0 \in InSlots(k)
  BY <1>6, <1>8
<1>. QED
  BY <1>1, <1>2, <1>4, <1>7, <1>12, <1>13 DEF IsCut

(* A map that moves loses the pair before the new one. *)
IsShifted(s, u, w) == (s = 0 => w = u) /\ (s > 0 => w = [u EXCEPT ![s] = 0])

LEMMA MovedSlots ==
  ASSUME NEW k \in Seq(Nat), NEW t \in Nat, NEW s \in 0 .. Len(k), NEW u, IsInserted(k, s + 1, t, u)
  PROVE  IsShifted(s, u, MovedBefore(k, s) \o SubSeq(u, s + 1, Len(k) + 1))
<1>1. PICK n \in Nat : n = Len(k)
  OBVIOUS
<1>2. /\ u \in Seq(Nat) /\ Len(u) = n + 1 /\ s \in 0 .. n
      /\ \A j \in 1 .. n : j < s + 1 => u[j] = k[j]
  BY <1>1 DEF IsInserted
<1>3. PICK b : b = SubSeq(u, s + 1, n + 1)
  OBVIOUS
<1>4. b \in Seq(Nat) /\ Len(b) = n + 1 - s /\ \A j \in 1 .. n + 1 - s : b[j] = u[s + j]
  <2>1. /\ n \in Nat /\ s + 1 \in Nat \ {0} /\ s + 1 <= (n + 1) + 1 /\ n + 1 <= Len(u)
        /\ (n + 1) + 1 - (s + 1) = n + 1 - s
    BY <1>1, <1>2
  <2>2. /\ b \in Seq(Nat) /\ Len(b) = (n + 1) + 1 - (s + 1)
        /\ \A j \in 1 .. (n + 1) + 1 - (s + 1) : b[j] = u[s + 1 + j - 1]
    <3>1. PICK a \in Nat \ {0} : a = s + 1
      BY <2>1
    <3>2. PICK m \in Nat : m = n + 1
      BY <1>2
    <3>3. u \in Seq(Nat) /\ a <= m + 1 /\ m <= Len(u) /\ b = SubSeq(u, a, m)
      BY <1>2, <1>3, <2>1, <3>1, <3>2
    <3>4. /\ b \in Seq(Nat) /\ Len(b) = m + 1 - a
          /\ \A j \in 1 .. m + 1 - a : b[j] = u[a + j - 1]
      <4>1. IsPiece(u, a, m, b)
        BY <3>3, PieceOf
      <4>. QED
        BY <4>1 DEF IsPiece
    <3>. QED
      BY <3>1, <3>2, <3>4
  <2>4. \A j \in 1 .. n + 1 - s : s + 1 + j - 1 = s + j
    BY <1>2, <2>1
  <2>. QED
    BY <2>1, <2>2, <2>4
<1>5. CASE s = 0
  <2>1. MovedBefore(k, s) = <<>>
    BY <1>5 DEF MovedBefore
  <2>2. <<>> \o b = b
    BY <1>4
  <2>3. b = u
    <3>1. Len(b) = n + 1 /\ \A j \in 1 .. n + 1 : b[j] = u[j]
      BY <1>1, <1>4, <1>5
    <3>. QED
      BY <1>2, <1>4, <3>1
  <2>4. SubSeq(u, s + 1, Len(k) + 1) = b
    BY <1>1, <1>3
  <2>5. MovedBefore(k, s) \o SubSeq(u, s + 1, Len(k) + 1) = u
    BY <2>1, <2>2, <2>3, <2>4
  <2>. QED
    BY <1>5, <2>5 DEF IsShifted
<1>6. CASE s > 0
  <2>1. PICK a : a = SubSeq(k, 1, s - 1)
    OBVIOUS
  <2>2. a \in Seq(Nat) /\ Len(a) = s - 1 /\ \A j \in 1 .. s - 1 : a[j] = k[j]
    <3>1. s - 1 \in Nat /\ s - 1 <= Len(k)
      BY <1>1, <1>2, <1>6
    <3>. QED
      BY <2>1, <3>1, BeginningOf
  <2>3. PICK c : c = Append(a, 0)
    OBVIOUS
  <2>4. c \in Seq(Nat) /\ Len(c) = s /\ c[s] = 0 /\ \A j \in 1 .. s - 1 : c[j] = k[j]
    <3>1. c \in Seq(Nat) /\ Len(c) = Len(a) + 1 /\ c[Len(a) + 1] = 0
      BY <2>2, <2>3
    <3>2. \A j \in 1 .. Len(a) : c[j] = a[j]
      BY <2>2, <2>3
    <3>3. Len(a) + 1 = s /\ 1 .. Len(a) = 1 .. s - 1
      BY <1>2, <1>6, <2>2
    <3>. QED
      BY <2>2, <3>1, <3>2, <3>3
  <2>5. MovedBefore(k, s) = c
    BY <1>6, <2>1, <2>3 DEF MovedBefore, NULL
  <2>6. PICK w, x : w = c \o b /\ x = [u EXCEPT ![s] = 0]
    OBVIOUS
  <2>7. /\ w \in Seq(Nat) /\ Len(w) = n + 1 /\ \A j \in 1 .. s : w[j] = c[j]
        /\ \A j \in 1 .. n + 1 - s : w[s + j] = b[j]
    <3>1. IsConcat(c, b, w)
      BY <1>4, <2>4, <2>6, Concat
    <3>2. w \in Seq(Nat) /\ Len(w) = n + 1 /\ \A j \in 1 .. s : w[j] = c[j]
      BY <1>1, <1>4, <2>4, <3>1 DEF IsConcat
    <3>3. \A j \in 1 .. n + 1 - s : w[s + j] = b[j]
      BY <1>4, <2>4, <3>1 DEF IsConcat
    <3>. QED
      BY <3>2, <3>3
  <2>8. /\ x \in Seq(Nat) /\ Len(x) = n + 1 /\ x[s] = 0
        /\ \A j \in 1 .. n + 1 : j # s => x[j] = u[j]
    BY <1>1, <1>2, <1>6, <2>6
  <2>9. ASSUME NEW j \in 1 .. n + 1 PROVE w[j] = x[j]
    <3>1. CASE j < s
      <4>1. w[j] = k[j]
        BY <1>1, <1>2, <2>4, <2>7, <3>1
      <4>2. x[j] = k[j]
        <5>1. j \in 1 .. n /\ j \in 1 .. n + 1 /\ j # s /\ j < s + 1
          BY <1>1, <1>2, <3>1
        <5>. QED
          BY <1>2, <2>8, <5>1
      <4>. QED
        BY <4>1, <4>2
    <3>2. CASE j = s
      BY <1>1, <1>2, <2>4, <2>7, <2>8, <3>2
    <3>3. CASE j > s
      <4>1. j - s \in 1 .. n + 1 - s /\ s + (j - s) = j
        BY <1>1, <1>2, <3>3
      <4>2. w[s + (j - s)] = u[s + (j - s)]
        BY <1>4, <2>7, <4>1
      <4>. QED
        BY <2>8, <3>3, <4>1, <4>2
    <3>. QED
      BY <1>1, <1>2, <3>1, <3>2, <3>3
  <2>10. w = x
    BY <2>7, <2>8, <2>9
  <2>11. MovedBefore(k, s) \o SubSeq(u, s + 1, Len(k) + 1) = [u EXCEPT ![s] = 0]
    BY <1>1, <1>3, <2>5, <2>6, <2>10
  <2>12. s # 0
    BY <1>1, <1>2, <1>6
  <2>. QED
    BY <2>11, <2>12, Zenon DEF IsShifted
<1>7. s = 0 \/ s > 0
  OBVIOUS
<1>. QED
  BY <1>5, <1>6, <1>7, Zenon

-----------------------------------------------------------------------------
(* A map with other slots. *)
IsMapOf(h, L, n, x, k) ==
  /\ k = h.objs[x].kids /\ k \in Seq(Nat) /\ Len(k) \in Nat /\ Distinct(k)
  /\ Kids(h, x) = InSlots(k) \ {0} /\ Kids(h, x) \subseteq Live(h) \ L
  /\ 0 \in InSlots(k) => n
  /\ h.objs[x].capacity \in Nat /\ Len(k) <= h.objs[x].capacity
  /\ \A p \in Kids(h, x) : IsPair(h, p) /\ p # x

LEMMA MapSlotsAre ==
  ASSUME NEW h, NEW L, NEW n, Good(h, L, n), NEW x \in Live(h), h.objs[x].type = "map"
  PROVE  IsMapOf(h, L, n, x, h.objs[x].kids)
<1>1. /\ IsHeap(h) /\ IsShaped(h, x, n) /\ Distinct(h.objs[x].kids)
      /\ Kids(h, x) \subseteq Live(h) \ L /\ IsObject(h.objs[x])
  BY DEF Good, IsOwned, Refers, IsHeap
<1>2. h.objs[x].kids \in Seq(Nat) /\ h.objs[x].capacity \in Nat
  BY <1>1 DEF IsObject
<1>3. Kids(h, x) = InSlots(h.objs[x].kids) \ {0}
  BY <1>1, KidsAreInSlots
<1>4. 0 \in InSlots(h.objs[x].kids) => n
  BY <1>1, NullInSlots DEF IsShaped
<1>5. Len(h.objs[x].kids) <= h.objs[x].capacity /\ \A p \in Kids(h, x) : IsPair(h, p)
  BY <1>1 DEF IsShaped
<1>6. \A p \in Kids(h, x) : p # x
  BY <1>5 DEF IsPair, IsA
<1>7. Len(h.objs[x].kids) \in Nat
  BY <1>2
<1>. QED
  BY <1>1, <1>2, <1>3, <1>4, <1>5, <1>6, <1>7 DEF IsMapOf

IsRemapped(h, g, x, s) ==
  /\ IsHeap(g) /\ SameBut(h, g, x) /\ g.objs[x].kids = s
  /\ g.objs[x].capacity = h.objs[x].capacity

(* Slots that a map may have next, with A instead of D in them. *)
Remaps(h, L, n, x, s, A, D, C) ==
  /\ Good(h, L, n) /\ x \in Live(h) /\ h.objs[x].type = "map" /\ s \in Seq(Nat) /\ Distinct(s)
  /\ Len(s) <= h.objs[x].capacity /\ A \subseteq L /\ D \subseteq Kids(h, x)
  /\ InSlots(s) \ {0} = (Kids(h, x) \ D) \cup A /\ (\A a \in A : IsPair(h, a))
  /\ (0 \in InSlots(s) => n) /\ A \subseteq C /\ IsClosed(h, C) /\ x \notin C

LEMMA MapSlots ==
  ASSUME NEW h, NEW L, NEW n, NEW x, NEW s, NEW A, NEW D, NEW C, Remaps(h, L, n, x, s, A, D, C),
         NEW g, g = WithKids(h, x, s)
  PROVE  Good(g, (L \ A) \cup D, n) /\ IsRemapped(h, g, x, s)
<1>. /\ Good(h, L, n) /\ x \in Live(h) /\ h.objs[x].type = "map" /\ s \in Seq(Nat) /\ Distinct(s)
     /\ Len(s) <= h.objs[x].capacity /\ A \subseteq L /\ D \subseteq Kids(h, x)
     /\ InSlots(s) \ {0} = (Kids(h, x) \ D) \cup A /\ (\A a \in A : IsPair(h, a))
     /\ (0 \in InSlots(s) => n) /\ A \subseteq C /\ IsClosed(h, C) /\ x \notin C
  BY DEF Remaps
<1>1. /\ IsHeap(g) /\ SameBut(h, g, x)
      /\ g.objs[x].kids = s /\ g.objs[x].capacity = h.objs[x].capacity
  BY WithKidsIs DEF Good
<1>2. x \in Live(g) /\ g.objs[x].type = "map"
  BY <1>1 DEF SameBut
<1>3. Kids(g, x) = (Kids(h, x) \ D) \cup A
  <2>1. Kids(g, x) = InSlots(s) \ {0}
    BY <1>1, <1>2, KidsAreInSlots
  <2>. QED
    BY <2>1
<1>4. \A k \in Kids(g, x) : IsPair(g, k)
  <2>. SUFFICES ASSUME NEW k \in Kids(g, x) PROVE IsPair(g, k)
    OBVIOUS
  <2>1. IsPair(h, k)
    BY <1>3, MapSlotsAre DEF IsMapOf
  <2>2. k # x /\ k \in Live(h)
    BY <2>1 DEF IsPair, IsA
  <2>. QED
    BY <1>1, <2>1, <2>2 DEF IsPair, IsA, SameBut
<1>5. HasNull(g, x) => n
  BY <1>1, NullInSlots
<1>6. IsShaped(g, x, n)
  BY <1>1, <1>2, <1>4, <1>5 DEF IsShaped, Scalars
<1>7. ~InMap(h, x)
  BY OnlyPairsInMaps
<1>8. Distinct(g.objs[x].kids)
  BY <1>1
<1>9. Good(g, (L \ A) \cup D, n)
  BY <1>1, <1>3, <1>6, <1>7, <1>8, NewParts
<1>. QED
  BY <1>1, <1>9 DEF IsRemapped

LEMMA FewerNulls ==
  ASSUME NEW h, NEW L, NEW m, NEW n, Good(h, L, m), \A r \in Live(h) : HasNull(h, r) => n
  PROVE  Good(h, L, n)
  BY DEF Good, IsShaped

-----------------------------------------------------------------------------
(* What is not intact holds a null. *)
LEMMA ReachHasItself ==
  ASSUME NEW h, IsHeap(h), NEW r \in Nat
  PROVE  r \in Reach(h, r)
<1>1. PICK g : Levels(h, r, g) /\ Reach(h, r) = g[Cardinality(Live(h))]
  <2>1. \E g : Levels(h, r, g)
    BY LevelsExist
  <2>. QED
    BY <2>1, ReachDef, Zenon
<1>2. PICK N \in Nat : N = Cardinality(Live(h))
  BY FS_CardinalityType DEF IsHeap
<1>. DEFINE P == {n \in Nat : r \in g[n]}
<1>3. 0 \in P
  BY <1>1 DEF Levels
<1>4. ASSUME NEW n \in Nat, n \in P PROVE n + 1 \in P
  <2>1. n + 1 \in Nat /\ n + 1 # 0 /\ (n + 1) - 1 = n
    OBVIOUS
  <2>2. g[n + 1] = Spread(h, g[n])
    BY <1>1, <2>1 DEF Levels
  <2>. QED
    BY <1>4, <2>1, <2>2 DEF Spread
<1>. HIDE DEF P
<1>5. N \in P
  BY <1>3, <1>4, SetInduction
<1>. QED
  BY <1>1, <1>2, <1>5 DEF P

LEMMA NullIsNotIntact ==
  ASSUME NEW h, IsHeap(h)
  PROVE  ~Intact(h, 0)
<1>1. 0 \in Reach(h, 0) /\ 0 \notin Live(h)
  BY ReachHasItself DEF IsHeap
<1>. QED
  BY <1>1 DEF Intact, IsIntact, IsTree

LEMMA NotIntact ==
  ASSUME NEW h, NEW L, NEW n, Good(h, L, n), NEW r \in Live(h), ~Intact(h, r)
  PROVE  n
<1>1. Reach(h, r) \subseteq Live(h) /\ IsTree(h, r, Reach(h, r))
  BY GoodIsClosed, ReachIsClosure, ReachIsTree
<1>2. PICK x \in Reach(h, r) : NULL \in ToSet(h.objs[x].kids)
  BY <1>1 DEF Intact, IsIntact
<1>3. h.objs[x].kids \in Seq(Nat) /\ x \in Live(h)
  BY <1>1, KidsDef, GoodIsClosed
<1>4. DOMAIN h.objs[x].kids = 1 .. Len(h.objs[x].kids)
  BY <1>3
<1>5. HasNull(h, x)
  BY <1>2, <1>4 DEF HasNull, NULL, ToSet
<1>. QED
  BY <1>3, <1>5 DEF Good, IsShaped

-----------------------------------------------------------------------------
(* The search ends between two places, or at a pair. *)
Searching(k, n) ==
  [s : 0 .. Len(k), e : -1 .. Len(k), hit : {-1} \cup {i \in 0 .. Len(k) - 1 : k[i + 1] # 0},
   wild : {w \in BOOLEAN : w => n}]

LEMMA TurnGoesOn ==
  ASSUME NEW h, NEW L, NEW n, Good(h, L, n), NEW x \in Live(h), h.objs[x].type = "map",
         NEW k, k = h.objs[x].kids, NEW key \in Live(h), NEW f \in Searching(k, n)
  PROVE  Turn(h, k, key, f) \in Searching(k, n)
<1>1. IsMapOf(h, L, n, x, k)
  BY MapSlotsAre
<1>2. PICK N \in Nat : N = Len(k)
  BY <1>1 DEF IsMapOf
<1>3. k \in Seq(Nat) /\ IsHeap(h)
  BY <1>1 DEF IsMapOf, Good
<1>4. /\ f.s \in 0 .. N /\ f.e \in -1 .. N /\ f.wild \in BOOLEAN /\ (f.wild => n)
      /\ f.hit \in {-1} \cup {i \in 0 .. N - 1 : k[i + 1] # 0}
      /\ f = [s |-> f.s, e |-> f.e, hit |-> f.hit, wild |-> f.wild]
  BY <1>2 DEF Searching
<1>5. CASE f.s >= f.e \/ f.hit # NoHit
  <2>1. Turn(h, k, key, f) = f
    BY <1>5 DEF Turn
  <2>. QED
    BY <2>1
<1>6. CASE ~(f.s >= f.e \/ f.hit # NoHit)
  <2>1. PICK m : m = (f.s + f.e) \div 2
    OBVIOUS
  <2>2. m \in f.s .. f.e - 1 /\ m + 1 \in 1 .. N /\ m + 1 \in 0 .. N /\ m - 1 \in -1 .. N /\ m \in 0 .. N - 1
    <3>1. PICK s \in 0 .. N, e \in -1 .. N : s = f.s /\ e = f.e
      BY <1>4
    <3>2. s < e /\ m = (s + e) \div 2
      BY <1>2, <1>6, <2>1, <3>1
    <3>3. s <= m /\ m < e /\ m \in Int
      BY <1>2, <3>1, <3>2
    <3>4. s \in Int /\ e \in Int /\ 0 <= s /\ e <= N
      BY <1>2, <3>1
    <3>5. m \in s .. e - 1
      BY <3>3, <3>4
    <3>6. m + 1 \in 1 .. N /\ m + 1 \in 0 .. N
      BY <1>2, <3>3, <3>4
    <3>7. m - 1 \in -1 .. N
      BY <1>2, <3>3, <3>4
    <3>8. m \in 0 .. N - 1
      BY <1>2, <3>3, <3>4
    <3>. QED
      BY <3>1, <3>5, <3>6, <3>7, <3>8
  <2>3. PICK r : r = Compare(h, key, h, GetObject(h, k[m + 1], 0), Cardinality(Live(h)))
    OBVIOUS
  <2>4. Turn(h, k, key, f) = IF ~Intact(h, key) \/ ~Intact(h, k[m + 1]) THEN [f EXCEPT !.wild = TRUE]
                             ELSE IF r > 0 THEN [f EXCEPT !.e = m - 1]
                             ELSE IF r < 0 THEN [f EXCEPT !.s = m + 1]
                             ELSE [f EXCEPT !.hit = m]
    BY <1>6, <2>1, <2>3 DEF Turn
  <2>5. ASSUME ~Intact(h, key) \/ ~Intact(h, k[m + 1]) PROVE n
    <3>1. CASE ~Intact(h, key)
      BY <3>1, NotIntact
    <3>2. CASE ~Intact(h, k[m + 1])
      <4>1. k[m + 1] \in InSlots(k)
        BY <1>2, <2>2 DEF InSlots
      <4>2. k[m + 1] # 0 => k[m + 1] \in Live(h)
        BY <1>1, <4>1 DEF IsMapOf
      <4>3. k[m + 1] # 0 => n
        BY <3>2, <4>2, NotIntact
      <4>. QED
        BY <1>1, <4>1, <4>3 DEF IsMapOf
    <3>. QED
      BY <2>5, <3>1, <3>2
  <2>6. Intact(h, k[m + 1]) => k[m + 1] # 0
    BY <1>3, NullIsNotIntact
  <2>7. ASSUME NEW v, v = TRUE, n PROVE [f EXCEPT !.wild = v] \in Searching(k, n)
    BY <1>2, <1>4, <2>7 DEF Searching
  <2>8. [f EXCEPT !.e = m - 1] \in Searching(k, n)
    BY <1>2, <1>4, <2>2 DEF Searching
  <2>9. [f EXCEPT !.s = m + 1] \in Searching(k, n)
    BY <1>2, <1>4, <2>2 DEF Searching
  <2>10. ASSUME k[m + 1] # 0 PROVE [f EXCEPT !.hit = m] \in Searching(k, n)
    BY <1>2, <1>4, <2>2, <2>10 DEF Searching
  <2>. QED
    BY <2>4, <2>5, <2>6, <2>7, <2>8, <2>9, <2>10, Zenon
<1>. QED
  BY <1>5, <1>6

LEMMA Searched ==
  ASSUME NEW h, NEW L, NEW n, Good(h, L, n), NEW x \in Live(h), h.objs[x].type = "map",
         NEW k, k = h.objs[x].kids, NEW key \in Live(h)
  PROVE  Search(h, k, key) \in Searching(k, n)
<1>. DEFINE D == Searching(k, n)
            c == [s |-> 0, e |-> Len(k), hit |-> NoHit, wild |-> FALSE]
            F == [f \in D |-> Turn(h, k, key, f)]
            IsWalk(g) == g = [i \in Nat |-> IF i = 0 THEN c ELSE Turn(h, k, key, g[i - 1])]
            W == CHOOSE g : IsWalk(g)
<1>1. Len(k) \in Nat
  BY MapSlotsAre DEF IsMapOf
<1>2. c \in D
  <2>1. 0 \in 0 .. Len(k) /\ Len(k) \in -1 .. Len(k) /\ NoHit = -1
    BY <1>1 DEF NoHit
  <2>. QED
    BY <2>1 DEF Searching
<1>3. F \in [D -> D]
  <2>. SUFFICES ASSUME NEW f \in D PROVE Turn(h, k, key, f) \in D
    OBVIOUS
  <2>. QED
    BY TurnGoesOn
<1>4. \A f \in D : F[f] = Turn(h, k, key, f)
  OBVIOUS
<1>. HIDE DEF D, c, F
<1>5. PICK g : g = [i \in Nat |-> IF i = 0 THEN c ELSE F[g[i - 1]]] /\ g \in [Nat -> D]
  BY <1>2, <1>3, WalkWithoutEnd
<1>6. IsWalk(g)
  <2>1. ASSUME NEW i \in Nat PROVE g[i] = IF i = 0 THEN c ELSE Turn(h, k, key, g[i - 1])
    <3>1. CASE i = 0
      BY <1>5, <3>1
    <3>2. CASE i # 0
      <4>1. i - 1 \in Nat
        BY <3>2
      <4>2. g[i - 1] \in D
        BY <1>5, <4>1
      <4>3. g[i] = F[g[i - 1]]
        BY <1>5, <3>2
      <4>. QED
        BY <1>4, <3>2, <4>2, <4>3
    <3>. QED
      BY <3>1, <3>2
  <2>. QED
    BY <1>5, <2>1, Zenon
<1>7. IsWalk(W)
  BY <1>6, Zenon
<1>8. Search(h, k, key) = W[Len(k)]
  BY DEF Search, c
<1>. HIDE DEF W
<1>9. ASSUME NEW i \in Nat PROVE W[i] \in D
  <2>. DEFINE P == {j \in Nat : W[j] \in D}
  <2>1. 0 \in P
    BY <1>2, <1>7
  <2>2. ASSUME NEW j \in Nat, j \in P PROVE j + 1 \in P
    <3>1. j + 1 \in Nat /\ j + 1 # 0 /\ (j + 1) - 1 = j
      OBVIOUS
    <3>2. W[j + 1] = Turn(h, k, key, W[j])
      BY <1>7, <3>1
    <3>3. W[j + 1] \in D
      BY <2>2, <3>2, TurnGoesOn DEF D
    <3>. QED
      BY <3>1, <3>3
  <2>. HIDE DEF P
  <2>3. i \in P
    BY <2>1, <2>2, SetInduction
  <2>. QED
    BY <2>3 DEF P
<1>. QED
  BY <1>1, <1>8, <1>9 DEF D

-----------------------------------------------------------------------------
(* A new pair gets its key and its value. *)
LEMMA WithNilsStaysWild ==
  ASSUME NEW h, IsWild(h), NEW t, NEW k
  PROVE  IsWild(WithNils(h, t, k))
<1>1. PICK f, s : f = Added(h, [r \in ToSet(Fresh(h, 1 .. k)) |-> jsobj("nil", 0)])
                  /\ s = h.objs[t].kids \o Fresh(h, 1 .. k)
  OBVIOUS
<1>2. WithNils(h, t, k) = WithKids(f, t, s)
  BY <1>1 DEF WithNils
<1>3. IsWild(f)
  BY <1>1, AddedStaysWild
<1>. QED
  BY <1>2, <1>3, WithKidsStaysWild

LEMMA SetObjectStaysWild ==
  ASSUME NEW h, IsWild(h), NEW t, NEW i, NEW v
  PROVE  IsWild(SetObject(h, t, i, v))
<1>1. PICK room : room = WithSlot(h, t, i)
  OBVIOUS
<1>2. IsWild(room)
  BY <1>1, WithNilsStaysWild DEF WithSlot
<1>3. PICK f, s, old : /\ f = Clone(room, v).heap /\ old = room.objs[t].kids[i + 1]
                       /\ s = [room.objs[t].kids EXCEPT ![i + 1] = Clone(room, v).ref]
  OBVIOUS
<1>4. IsWild(WithKids(f, t, s))
  BY <1>2, <1>3, CloneStaysWild, WithKidsStaysWild
<1>5. SetObject(h, t, i, v) = Release(WithKids(f, t, s), old)
  BY <1>1, <1>3 DEF SetObject
<1>. QED
  BY <1>4, <1>5, ReleaseStaysWild

Apart(g, t, S) == \E C : IsClosed(g, C) /\ t \in C /\ C \cap S = {}
IsFilled(h, g, L, n, t, S) ==
  Good(g, L, n) /\ IsPair(g, t) /\ Keeps(h, g, S) /\ Apart(g, t, S)

LEMMA PairIsFilled ==
  ASSUME NEW h, NEW L, NEW n, Good(h, L, n), NEW t, IsPair(h, t),
         NEW S, S \subseteq Live(h), Apart(h, t, S),
         NEW key \in S, NEW value \in S, NEW g, g = Filled(h, t, key, value)
  PROVE  GoneWild(g, n) \/ IsFilled(h, g, L, n, t, S)
<1>1. PICK N : IsClosed(h, N) /\ t \in N /\ N \cap S = {}
  BY DEF Apart
<1>2. /\ t \in Live(h) /\ h.objs[t].type = "tuple" /\ Len(h.objs[t].kids) = 2
      /\ IsHeap(h) /\ IsClosed(h, Live(h))
  BY GoodIsClosed DEF IsPair, IsA
<1>3. Reach(h, t) \subseteq N
  BY <1>1, <1>2, ReachIsClosure
<1>4. PICK f : f = SetObject(h, t, 0, key)
  OBVIOUS
<1>5. g = SetObject(f, t, 1, value)
  BY <1>4 DEF Filled
<1>6. GoneWild(f, n) \/ (Good(f, L, n) /\ IsSet(h, f, t, 0))
  <2>1. 0 \in Nat /\ (InMap(h, t) => 0 < Len(h.objs[t].kids)) /\ key \in Live(h)
    BY <1>2
  <2>. QED
    BY <1>2, <1>4, <2>1, ObjectSet
<1>7. CASE GoneWild(f, n)
  <2>1. IsWild(f) => IsWild(g)
    BY <1>5, SetObjectStaysWild
  <2>2. GoneWild(g, n)
    BY <1>7, <2>1, GoneOn, Zenon
  <2>. QED
    BY <2>2
<1>8. CASE Good(f, L, n) /\ IsSet(h, f, t, 0)
  <2>1. /\ t \in Live(f) /\ f.objs[t].type = "tuple" /\ Len(f.objs[t].kids) = 2
        /\ Keeps(h, f, Live(h) \ Reach(h, t)) /\ Spreads(h, f)
    BY <1>2, <1>8 DEF IsSet, Changes
  <2>2. Keeps(h, f, S)
    BY <1>1, <1>3, <2>1 DEF Keeps
  <2>3. S \subseteq Live(f)
    BY <2>2 DEF Keeps
  <2>4. PICK N1 : N1 = N \cup (Live(f) \ Live(h))
    OBVIOUS
  <2>5. IsClosed(f, N1) /\ t \in N1 /\ N1 \cap S = {}
    BY <1>1, <2>1, <2>4, SpreadCloses
  <2>6. IsHeap(f) /\ IsClosed(f, Live(f))
    BY <1>8, GoodIsClosed
  <2>7. Reach(f, t) \subseteq N1
    BY <2>1, <2>5, <2>6, ReachIsClosure
  <2>8. GoneWild(g, n) \/ (Good(g, L, n) /\ IsSet(f, g, t, 1))
    <3>1. 1 \in Nat /\ (InMap(f, t) => 1 < Len(f.objs[t].kids)) /\ value \in Live(f)
      BY <2>1, <2>3
    <3>. QED
      BY <1>5, <1>8, <2>1, <3>1, ObjectSet
  <2>9. ASSUME Good(g, L, n), IsSet(f, g, t, 1) PROVE IsFilled(h, g, L, n, t, S)
    <3>1. /\ t \in Live(g) /\ g.objs[t].type = "tuple" /\ Len(g.objs[t].kids) = 2
          /\ Keeps(f, g, Live(f) \ Reach(f, t)) /\ Spreads(f, g)
      BY <2>1, <2>9 DEF IsSet, Changes
    <3>2. Keeps(f, g, S)
      BY <2>3, <2>5, <2>7, <3>1 DEF Keeps
    <3>3. Keeps(h, g, S)
      BY <2>2, <3>2 DEF Keeps
    <3>4. IsClosed(g, N1 \cup (Live(g) \ Live(f)))
      BY <2>5, <3>1, SpreadCloses
    <3>5. (N1 \cup (Live(g) \ Live(f))) \cap S = {} /\ t \in N1 \cup (Live(g) \ Live(f))
      BY <2>3, <2>5
    <3>6. Apart(g, t, S)
      BY <3>4, <3>5 DEF Apart
    <3>7. IsPair(g, t)
      BY <3>1 DEF IsPair, IsA
    <3>. QED
      BY <2>9, <3>3, <3>6, <3>7 DEF IsFilled
  <2>. QED
    BY <2>8, <2>9
<1>. QED
  BY <1>6, <1>7, <1>8

(* The pair is made, put into the slots p of the map or not, and filled.    *)
IsEntry(h, e, t, L, M, n, x, p) ==
  /\ Good(e, M, n) /\ IsPair(e, t) /\ t \notin Live(h) /\ t \in Nat \ {0}
  /\ Live(h) \subseteq Live(e) /\ Keeps(h, e, Live(h) \ {x})
  /\ e.objs[x].type = "map" /\ e.objs[x].kids = p /\ e.objs[x].capacity = h.objs[x].capacity
  /\ Apart(e, t, Live(h))

IsPlace(h, n, x, p, A, D, t) ==
  /\ p \in Seq(Nat) /\ Distinct(p) /\ Len(p) <= h.objs[x].capacity
  /\ A \subseteq {t} /\ D \subseteq Kids(h, x)
  /\ InSlots(p) \ {0} = (Kids(h, x) \ D) \cup A /\ (0 \in InSlots(p) => n)

LEMMA EntryPlaced ==
  ASSUME NEW h, NEW L, NEW n, Good(h, L, n), NEW x \in Live(h), h.objs[x].type = "map",
         NEW m, m = MakeTuple(h, 2), NEW t, t = m.ref, NEW p, NEW A, NEW D,
         IsPlace(h, n, x, p, A, D, t), NEW M, M = ((L \cup {t}) \ A) \cup D,
         NEW e, e = WithKids(m.heap, x, p)
  PROVE  IsEntry(h, e, t, L, M, n, x, p)
<1>1. PICK f : f = m.heap
  OBVIOUS
<1>2. /\ Good(f, L \cup {t}, n) /\ IsNew(h, f, t)
      /\ f.objs[t].type = "tuple" /\ Len(f.objs[t].kids) = 2
  <2>1. PICK k \in Nat : k = 2
    OBVIOUS
  <2>2. m = MakeTuple(h, k)
    BY <2>1
  <2>3. IsTuple(h, L, n, m, k)
    BY <2>2, TupleMade
  <2>. QED
    BY <1>1, <2>1, <2>3 DEF IsTuple
<1>3. PICK N : N = Live(f) \ Live(h)
  OBVIOUS
<1>4. /\ t \notin Live(h) /\ t \in Live(f) /\ Live(h) \subseteq Live(f)
      /\ Keeps(h, f, Live(h)) /\ IsClosed(f, N) /\ t \in N /\ x \notin N
  BY <1>2, <1>3 DEF IsNew
<1>5. x \in Live(f) /\ f.objs[x] = h.objs[x] /\ Kids(f, x) = Kids(h, x)
  BY <1>4 DEF Keeps, Kids
<1>6. IsPair(f, t) /\ t \in Nat \ {0}
  BY <1>2, <1>4 DEF IsPair, IsA, Good, IsHeap
<1>7. PICK K : K = L \cup {t}
  OBVIOUS
<1>8. Good(e, M, n) /\ IsRemapped(f, e, x, p)
  <2>1. Remaps(f, K, n, x, p, A, D, N)
    BY <1>2, <1>4, <1>5, <1>6, <1>7 DEF IsPlace, Remaps
  <2>2. Good(e, (K \ A) \cup D, n) /\ IsRemapped(f, e, x, p)
    BY <1>1, <2>1, MapSlots
  <2>3. (K \ A) \cup D = M
    BY <1>7
  <2>. QED
    BY <2>2, <2>3
<1>9. /\ Live(e) = Live(f) /\ e.objs[x].kids = p /\ e.objs[x].type = "map"
      /\ e.objs[x].capacity = h.objs[x].capacity
      /\ \A r \in Live(f) \ {x} : e.objs[r] = f.objs[r]
  BY <1>5, <1>8 DEF IsRemapped, SameBut
<1>10. IsPair(e, t)
  BY <1>4, <1>6, <1>9 DEF IsPair, IsA
<1>11. IsClosed(e, N)
  <2>. SUFFICES ASSUME NEW r \in N PROVE Kids(e, r) \subseteq N
    BY DEF IsClosed
  <2>1. Kids(e, r) = Kids(f, r)
    BY <1>3, <1>4, <1>9 DEF Kids
  <2>. QED
    BY <1>4, <2>1 DEF IsClosed
<1>12. Apart(e, t, Live(h))
  BY <1>3, <1>4, <1>11 DEF Apart
<1>13. Keeps(h, e, Live(h) \ {x}) /\ Live(h) \subseteq Live(e)
  BY <1>4, <1>9 DEF Keeps
<1>. QED
  BY <1>4, <1>6, <1>8, <1>9, <1>10, <1>12, <1>13 DEF IsEntry

LEMMA EntryFilled ==
  ASSUME NEW h, NEW e, NEW t, NEW L, NEW M, NEW n, NEW x \in Live(h), NEW p,
         IsEntry(h, e, t, L, M, n, x, p),
         NEW key \in Live(h), NEW value \in Live(h), NEW g, g = Filled(e, t, key, value)
  PROVE  GoneWild(g, n) \/ IsEntry(h, g, t, L, M, n, x, p)
<1>1. PICK S : S = Live(h)
  OBVIOUS
<1>2. /\ Good(e, M, n) /\ IsPair(e, t) /\ S \subseteq Live(e) /\ Apart(e, t, S)
      /\ key \in S /\ value \in S /\ g = Filled(e, t, key, value)
  BY <1>1 DEF IsEntry
<1>3. GoneWild(g, n) \/ IsFilled(e, g, M, n, t, S)
  BY <1>2, PairIsFilled, Zenon
<1>4. ASSUME IsFilled(e, g, M, n, t, S) PROVE IsEntry(h, g, t, L, M, n, x, p)
  <2>1. Good(g, M, n) /\ IsPair(g, t) /\ Keeps(e, g, Live(h)) /\ Apart(g, t, Live(h))
    BY <1>1, <1>4 DEF IsFilled
  <2>2. Live(h) \subseteq Live(g) /\ Keeps(h, g, Live(h) \ {x}) /\ g.objs[x] = e.objs[x]
    BY <2>1 DEF IsEntry, Keeps
  <2>. QED
    BY <2>1, <2>2 DEF IsEntry
<1>. QED
  BY <1>3, <1>4

-----------------------------------------------------------------------------
(* cjson_map_add_pair: D is what a map that moves leaves behind. *)
IsPut(h, L, n, x, g, D) ==
  /\ Good(g, L \cup D, n \/ D # {}) /\ D \subseteq Kids(h, x)
  /\ x \in Live(g) /\ Keeps(h, g, Live(h) \ Reach(h, x))
  /\ LeftBehind(h, g, x) = D
Put(h, L, n, x, g) == GoneWild(g, n) \/ \E D : IsPut(h, L, n, x, g, D)

IsKept(h, g, x) ==
  /\ x \in Live(g) /\ g.objs[x].capacity = h.objs[x].capacity
  /\ Keeps(h, g, Live(h) \ Reach(h, x))

LEMMA PutInPlace ==
  ASSUME NEW h, NEW L, NEW n, NEW x, NEW g, Good(g, L, n), IsKept(h, g, x)
  PROVE  Put(h, L, n, x, g)
<1>1. LeftBehind(h, g, x) = {}
  BY DEF LeftBehind, IsKept
<1>2. L \cup {} = L
  OBVIOUS
<1>3. PICK D : D = {}
  OBVIOUS
<1>4. Good(g, L, n \/ D # {})
  <2>1. PICK v : v = (n \/ D # {})
    OBVIOUS
  <2>2. n => v
    BY <2>1
  <2>3. Good(g, L, v)
    BY <2>2, MoreNulls
  <2>. QED
    BY <2>1, <2>3
<1>5. L \cup D = L /\ LeftBehind(h, g, x) = D /\ D \subseteq Kids(h, x)
  BY <1>1, <1>2, <1>3
<1>6. IsPut(h, L, n, x, g, D)
  BY <1>4, <1>5 DEF IsPut, IsKept
<1>. QED
  BY <1>6 DEF Put

(* A wild heap stays so. *)
LEMMA WildIsPut ==
  ASSUME NEW h, NEW L, NEW n, NEW x, NEW f, GoneWild(f, n), NEW g, IsWild(f) => IsWild(g)
  PROVE  Put(h, L, n, x, g)
<1>1. GoneWild(g, n)
  BY GoneOn, Zenon
<1>. QED
  BY <1>1 DEF Put

LEMMA KeepsOn ==
  ASSUME NEW h, NEW L, NEW n, Good(h, L, n), NEW x \in Live(h),
         NEW f, Live(h) \subseteq Live(f), Keeps(h, f, Live(h) \ {x}),
         f.objs[x].capacity = h.objs[x].capacity, NEW g, NEW s, IsRemapped(f, g, x, s)
  PROVE  IsKept(h, g, x)
<1>1. x \in Reach(h, x)
  BY GoodIsClosed, ReachIsClosure
<1>2. /\ Live(g) = Live(f) /\ \A r \in Live(f) \ {x} : g.objs[r] = f.objs[r]
      /\ g.objs[x].capacity = f.objs[x].capacity
  BY DEF IsRemapped, SameBut
<1>. QED
  BY <1>1, <1>2 DEF Keeps, IsKept

(* What is left to do once the new pair is filled, at the end of the slots, *)
FitsOneMore(h, x, k) == Len(k) + 1 <= h.objs[x].capacity
HasEntry(k, t, u) ==
  u \in Seq(Nat) /\ Len(u) = Len(k) + 1 /\ Distinct(u) /\ InSlots(u) = InSlots(k) \cup {t}

LEMMA EntryAtEnd ==
  ASSUME NEW h, NEW L, NEW n, Good(h, L, n), NEW x \in Live(h), NEW k, IsMapOf(h, L, n, x, k),
         FitsOneMore(h, x, k), NEW t, NEW M, M = L \cup {t}, NEW f, IsEntry(h, f, t, L, M, n, x, k),
         NEW u, HasEntry(k, t, u), NEW g, g = WithKids(f, x, u)
  PROVE  Put(h, L, n, x, g)
<1>1. /\ Good(f, M, n) /\ IsPair(f, t) /\ t \notin Live(h) /\ t \in Nat \ {0}
      /\ Live(h) \subseteq Live(f) /\ Keeps(h, f, Live(h) \ {x})
      /\ f.objs[x].type = "map" /\ f.objs[x].kids = k /\ f.objs[x].capacity = h.objs[x].capacity
      /\ Apart(f, t, Live(h))
  BY DEF IsEntry
<1>2. x \in Live(f) /\ Kids(f, x) = Kids(h, x)
  BY <1>1 DEF Kids, IsMapOf
<1>3. PICK C : IsClosed(f, C) /\ t \in C /\ C \cap Live(h) = {}
  BY <1>1 DEF Apart
<1>4. u \in Seq(Nat) /\ Len(u) = Len(k) + 1 /\ Distinct(u) /\ InSlots(u) = InSlots(k) \cup {t}
  BY DEF HasEntry
<1>5. PICK A, D : A = {t} /\ D = {}
  OBVIOUS
<1>6. Remaps(f, M, n, x, u, A, D, C)
  BY <1>1, <1>2, <1>3, <1>4, <1>5 DEF IsMapOf, Remaps, FitsOneMore
<1>7. Good(g, (M \ A) \cup D, n) /\ IsRemapped(f, g, x, u)
  BY <1>6, MapSlots
<1>8. (M \ A) \cup D = L
  BY <1>1, <1>5 DEF Good, IsOwned
<1>9. IsKept(h, g, x)
  BY <1>1, <1>7, KeepsOn
<1>. QED
  BY <1>7, <1>8, <1>9, PutInPlace

LEMMA PutAtEnd ==
  ASSUME NEW h, NEW L, NEW n, Good(h, L, n), NEW x \in Live(h), h.objs[x].type = "map",
         NEW k, IsMapOf(h, L, n, x, k), FitsOneMore(h, x, k),
         NEW m, m = MakeTuple(h, 2), NEW e, e = WithKids(m.heap, x, k),
         NEW key \in Live(h), NEW value \in Live(h), NEW f, f = Filled(e, m.ref, key, value),
         NEW u, IsInserted(k, Len(k) + 1, m.ref, u), NEW g, g = WithKids(f, x, u)
  PROVE  Put(h, L, n, x, g)
<1>1. IsMapOf(h, L, n, x, k)
  OBVIOUS
<1>2. PICK t, M : t = m.ref /\ M = L \cup {t}
  OBVIOUS
<1>3. IsEntry(h, e, t, L, M, n, x, k)
  <2>1. PICK A, D : A = {} /\ D = {}
    OBVIOUS
  <2>2. IsPlace(h, n, x, k, A, D, t)
    BY <1>1, <2>1 DEF IsMapOf, IsPlace
  <2>3. M = ((L \cup {t}) \ A) \cup D
    BY <1>2, <2>1
  <2>. QED
    BY <1>2, <2>2, <2>3, EntryPlaced
<1>4. GoneWild(f, n) \/ IsEntry(h, f, t, L, M, n, x, k)
  BY <1>2, <1>3, EntryFilled
<1>5. CASE GoneWild(f, n)
  BY <1>5, WithKidsStaysWild, WildIsPut
<1>6. CASE IsEntry(h, f, t, L, M, n, x, k)
  <2>1. IsInserted(k, Len(k) + 1, t, u) /\ t \notin InSlots(k) /\ t \in Nat \ {0}
    BY <1>1, <1>2, <1>6 DEF IsMapOf, IsEntry
  <2>2. HasEntry(k, t, u)
    <3>1. PICK i \in 1 .. Len(k) + 1 : i = Len(k) + 1
      BY <1>1 DEF IsMapOf
    <3>2. k \in Seq(Nat) /\ Distinct(k) /\ IsInserted(k, i, t, u)
      BY <1>1, <2>1, <3>1 DEF IsMapOf
    <3>3. Distinct(u) /\ InSlots(u) = InSlots(k) \cup {t}
      BY <2>1, <3>2, InsertedSlots
    <3>. QED
      BY <2>1, <3>3 DEF IsInserted, HasEntry
  <2>. QED
    BY <1>1, <1>2, <1>6, <2>2, EntryAtEnd
<1>. QED
  BY <1>4, <1>5, <1>6

(* between the slots, *)
IsWithout(k, D, t, v) ==
  /\ v \in Seq(Nat) /\ Len(v) = Len(k) /\ Distinct(v)
  /\ InSlots(v) \ {0} = ((InSlots(k) \ {0}) \ D) \cup {t}
  /\ 0 \in InSlots(v) => 0 \in InSlots(k)

LEMMA EntryBetween ==
  ASSUME NEW h, NEW L, NEW n, Good(h, L, n), NEW x \in Live(h), NEW k, IsMapOf(h, L, n, x, k),
         FitsOneMore(h, x, k), NEW t \in Nat \ {0}, t \notin Live(h),
         NEW D, D \subseteq Kids(h, x), D \cap L = {}, D \subseteq Live(h),
         NEW v, IsWithout(k, D, t, v), NEW u, HasEntry(k, t, u),
         NEW M, M = L \cup D, NEW f, IsEntry(h, f, t, L, M, n, x, v), NEW g, g = WithKids(f, x, u)
  PROVE  Put(h, L, n, x, g)
<1>1. /\ Good(f, M, n) /\ Live(h) \subseteq Live(f) /\ Keeps(h, f, Live(h) \ {x})
      /\ f.objs[x].type = "map" /\ f.objs[x].kids = v /\ f.objs[x].capacity = h.objs[x].capacity
  BY DEF IsEntry
<1>2. x \in Live(f) /\ Kids(f, x) = (Kids(h, x) \ D) \cup {t}
  <2>1. x \in Live(f) /\ IsHeap(f)
    BY <1>1 DEF Good
  <2>2. Kids(f, x) = InSlots(v) \ {0}
    BY <1>1, <2>1, KidsAreInSlots
  <2>. QED
    BY <2>1, <2>2 DEF IsMapOf, IsWithout, HasEntry, FitsOneMore
<1>3. PICK C : C = UNION {Reach(h, d) : d \in D}
  OBVIOUS
<1>4. \A d \in D : /\ d \in Reach(h, d) /\ IsClosed(h, Reach(h, d)) /\ Reach(h, d) \subseteq Live(h)
                   /\ x \notin Reach(h, d)
  <2>. SUFFICES ASSUME NEW d \in D
                PROVE  /\ d \in Reach(h, d) /\ IsClosed(h, Reach(h, d)) /\ Reach(h, d) \subseteq Live(h)
                       /\ x \notin Reach(h, d)
    OBVIOUS
  <2>1. d \in Live(h) /\ d \in Kids(h, x) /\ IsHeap(h) /\ IsClosed(h, Live(h))
    BY GoodIsClosed
  <2>. QED
    BY <2>1, ReachIsClosure, NoCycle
<1>5. D \subseteq C /\ x \notin C /\ C \subseteq Live(h) /\ IsClosed(h, C)
  BY <1>3, <1>4 DEF IsClosed
<1>6. IsClosed(f, C)
  <2>. SUFFICES ASSUME NEW r \in C PROVE Kids(f, r) \subseteq C
    BY DEF IsClosed
  <2>1. Kids(f, r) = Kids(h, r)
    BY <1>1, <1>5 DEF Keeps, Kids
  <2>. QED
    BY <1>5, <2>1 DEF IsClosed
<1>7. \A d \in D : IsPair(f, d)
  <2>. SUFFICES ASSUME NEW d \in D PROVE IsPair(f, d)
    OBVIOUS
  <2>1. IsPair(h, d) /\ d # x /\ d \in Live(h)
    BY DEF IsMapOf, IsWithout, HasEntry, FitsOneMore
  <2>. QED
    BY <1>1, <2>1 DEF Keeps, IsPair, IsA
<1>8. PICK E : E = {}
  OBVIOUS
<1>9. InSlots(u) \ {0} = (Kids(f, x) \ E) \cup D
  BY <1>2, <1>8 DEF IsMapOf, IsWithout, HasEntry, FitsOneMore
<1>10. Remaps(f, M, n, x, u, D, E, C)
  BY <1>1, <1>2, <1>5, <1>6, <1>7, <1>8, <1>9 DEF IsMapOf, IsWithout, HasEntry, FitsOneMore, Remaps
<1>11. Good(g, (M \ D) \cup E, n) /\ IsRemapped(f, g, x, u)
  BY <1>10, MapSlots
<1>12. (M \ D) \cup E = L
  BY <1>8
<1>13. IsKept(h, g, x)
  <2>1. /\ Live(h) \subseteq Live(f) /\ Keeps(h, f, Live(h) \ {x})
        /\ f.objs[x].capacity = h.objs[x].capacity /\ IsRemapped(f, g, x, u)
    BY <1>1, <1>11
  <2>. QED
    BY <2>1, KeepsOn
<1>. QED
  BY <1>11, <1>12, <1>13, PutInPlace

LEMMA PutBetween ==
  ASSUME NEW h, NEW L, NEW n, Good(h, L, n), NEW x \in Live(h), h.objs[x].type = "map",
         NEW k, IsMapOf(h, L, n, x, k), FitsOneMore(h, x, k),
         NEW m, m = MakeTuple(h, 2), NEW i \in 1 .. Len(k), NEW u, IsInserted(k, i, m.ref, u),
         NEW e, e = WithKids(m.heap, x, SubSeq(u, 1, Len(k))),
         NEW key \in Live(h), NEW value \in Live(h), NEW f, f = Filled(e, m.ref, key, value),
         NEW g, g = WithKids(f, x, u)
  PROVE  Put(h, L, n, x, g)
<1>1. IsMapOf(h, L, n, x, k)
  OBVIOUS
<1>2. PICK t, v, D : t = m.ref /\ v = SubSeq(u, 1, Len(k)) /\ D = {k[Len(k)]} \ {0}
  OBVIOUS
<1>3. t \notin Live(h) /\ t \in Nat \ {0}
  <2>1. PICK j \in Nat : j = 2
    OBVIOUS
  <2>2. m = MakeTuple(h, j)
    BY <2>1
  <2>3. IsTuple(h, L, n, m, j)
    BY <2>2, TupleMade
  <2>. QED
    BY <1>2, <2>3 DEF IsTuple, IsNew, Good, IsHeap
<1>4. k \in Seq(Nat) /\ Distinct(k) /\ t \notin InSlots(k) /\ IsInserted(k, i, t, u) /\ Len(k) \in Nat
  BY <1>1, <1>2, <1>3 DEF IsMapOf
<1>5. /\ v \in Seq(Nat) /\ Len(v) = Len(k) /\ Distinct(v)
      /\ InSlots(v) \ {0} = ((InSlots(k) \ {0}) \ D) \cup {t}
      /\ (0 \in InSlots(v) => 0 \in InSlots(k))
  <2>1. IsCut(k, t, SubSeq(u, 1, Len(k)))
    BY <1>3, <1>4, CutSlots
  <2>. QED
    BY <1>2, <2>1 DEF IsCut
<1>6. u \in Seq(Nat) /\ Len(u) = Len(k) + 1 /\ Distinct(u) /\ InSlots(u) = InSlots(k) \cup {t}
  <2>1. i \in 1 .. Len(k) + 1
    BY <1>4
  <2>2. Distinct(u) /\ InSlots(u) = InSlots(k) \cup {t}
    BY <1>3, <1>4, <2>1, InsertedSlots
  <2>. QED
    BY <1>4, <2>2 DEF IsInserted
<1>7. k[Len(k)] \in InSlots(k)
  <2>1. Len(k) \in 1 .. Len(k)
    BY <1>4
  <2>. QED
    BY <2>1 DEF InSlots
<1>8. D \subseteq Kids(h, x) /\ D \cap L = {} /\ D \subseteq Live(h)
  BY <1>1, <1>2, <1>7 DEF IsMapOf
<1>9. PICK M : M = L \cup D
  OBVIOUS
<1>10. IsEntry(h, e, t, L, M, n, x, v)
  <2>1. PICK A : A = {t}
    OBVIOUS
  <2>2. IsPlace(h, n, x, v, A, D, t)
    BY <1>1, <1>5, <1>8, <2>1 DEF IsMapOf, IsPlace
  <2>3. M = ((L \cup {t}) \ A) \cup D
    BY <1>3, <1>9, <2>1 DEF Good, IsOwned
  <2>4. e = WithKids(m.heap, x, v)
    BY <1>2
  <2>. QED
    BY <1>2, <2>2, <2>3, <2>4, EntryPlaced
<1>11. GoneWild(f, n) \/ IsEntry(h, f, t, L, M, n, x, v)
  BY <1>2, <1>10, EntryFilled
<1>12. CASE GoneWild(f, n)
  BY <1>12, WithKidsStaysWild, WildIsPut
<1>13. CASE IsEntry(h, f, t, L, M, n, x, v)
  <2>1. FitsOneMore(h, x, k) /\ IsWithout(k, D, t, v) /\ HasEntry(k, t, u)
    BY <1>5, <1>6 DEF FitsOneMore, IsWithout, HasEntry
  <2>. QED
    BY <1>1, <1>3, <1>8, <1>9, <1>13, <2>1, EntryBetween
<1>. QED
  BY <1>11, <1>12, <1>13

(* A map that moves leaves the pair before the new one behind. *)
IsMoved(k, t, w, D) ==
  /\ D \subseteq InSlots(k) \ {0} /\ w \in Seq(Nat) /\ Len(w) = Len(k) + 1 /\ Distinct(w)
  /\ InSlots(w) \ {0} = ((InSlots(k) \ {0}) \ D) \cup {t}
  /\ 0 \in InSlots(w) => 0 \in InSlots(k) \/ D # {}

LEMMA MovedAway ==
  ASSUME NEW k \in Seq(Nat), Distinct(k), NEW t \in Nat \ {0}, t \notin InSlots(k),
         NEW s \in 0 .. Len(k), NEW u, IsInserted(k, s + 1, t, u),
         NEW w, IsShifted(s, u, w)
  PROVE  \E D : IsMoved(k, t, w, D)
<1>1. PICK n \in Nat : n = Len(k)
  OBVIOUS
<1>2. Distinct(u) /\ InSlots(u) = InSlots(k) \cup {t} /\ u \in Seq(Nat) /\ Len(u) = n + 1
  <2>1. PICK i : i = s + 1
    OBVIOUS
  <2>2. i \in 1 .. Len(k) + 1 /\ IsInserted(k, i, t, u)
    BY <1>1, <2>1
  <2>3. Distinct(u) /\ InSlots(u) = InSlots(k) \cup {t}
    BY <2>2, InsertedSlots
  <2>. QED
    BY <1>1, <2>2, <2>3 DEF IsInserted
<1>3. CASE s = 0
  <2>1. w = u
    BY <1>3 DEF IsShifted
  <2>2. PICK D : D = {}
    OBVIOUS
  <2>3. InSlots(w) \ {0} = ((InSlots(k) \ {0}) \ D) \cup {t} /\ D \subseteq InSlots(k) \ {0}
    BY <1>2, <2>1, <2>2
  <2>4. 0 \in InSlots(w) => 0 \in InSlots(k)
    BY <1>2, <2>1
  <2>5. w \in Seq(Nat) /\ Len(w) = Len(k) + 1 /\ Distinct(w)
    BY <1>1, <1>2, <2>1
  <2>6. IsMoved(k, t, w, D)
    BY <2>3, <2>4, <2>5 DEF IsMoved
  <2>. QED
    BY <2>6
<1>4. CASE s # 0
  <2>1. w = [u EXCEPT ![s] = 0] /\ s \in 1 .. n /\ s \in 1 .. Len(u)
    BY <1>1, <1>2, <1>4 DEF IsShifted
  <2>2. u[s] = k[s]
    <3>1. s < s + 1 /\ s \in 1 .. Len(k)
      BY <1>1, <2>1
    <3>. QED
      BY <3>1 DEF IsInserted
  <2>3. k[s] \in InSlots(k)
    BY <1>1, <2>1 DEF InSlots
  <2>4. SlotIs(u, s, 0, w)
    <3>1. 0 \in Nat
      OBVIOUS
    <3>. QED
      BY <1>2, <2>1, <3>1, OtherSlot
  <2>5. /\ w \in Seq(Nat) /\ Len(w) = n + 1 /\ Distinct(w)
        /\ InSlots(w) \ {0} = ((InSlots(u) \ {0}) \ ({k[s]} \ {0})) \cup ({0} \ {0})
    BY <1>2, <2>2, <2>4 DEF SlotIs
  <2>6. PICK D : D = {k[s]} \ {0}
    OBVIOUS
  <2>7. D \subseteq InSlots(k) \ {0} /\ t \notin D
    BY <2>3, <2>6
  <2>8. InSlots(w) \ {0} = ((InSlots(k) \ {0}) \ D) \cup {t}
    BY <1>2, <2>5, <2>6, <2>7
  <2>9. 0 \in InSlots(k) \/ D # {}
    BY <2>3, <2>6
  <2>10. IsMoved(k, t, w, D)
    BY <1>1, <2>5, <2>7, <2>8, <2>9 DEF IsMoved
  <2>. QED
    BY <2>10
<1>. QED
  BY <1>3, <1>4

(* and in a map that moves. *)
HasSpace(h, x, a) == a = h.objs[x].capacity

LEMMA EntryMoved ==
  ASSUME NEW h, NEW L, NEW n, Good(h, L, n), NEW x \in Live(h), NEW k, IsMapOf(h, L, n, x, k),
         ~FitsOneMore(h, x, k), NEW t, NEW M, M = L \cup {t}, NEW f, IsEntry(h, f, t, L, M, n, x, k),
         NEW s \in 0 .. Len(k), NEW u, IsInserted(k, s + 1, t, u), NEW w, IsShifted(s, u, w),
         NEW a, HasSpace(h, x, a), NEW b, b = WithSpace(f, x, a + Space),
         NEW g, g = WithKids(b, x, w)
  PROVE  Put(h, L, n, x, g)
<1>1. /\ Good(f, M, n) /\ IsPair(f, t) /\ t \notin Live(h) /\ t \in Nat \ {0}
      /\ Live(h) \subseteq Live(f) /\ Keeps(h, f, Live(h) \ {x})
      /\ f.objs[x].type = "map" /\ f.objs[x].kids = k /\ f.objs[x].capacity = h.objs[x].capacity
      /\ Apart(f, t, Live(h))
  BY DEF IsEntry
<1>2. PICK C : IsClosed(f, C) /\ t \in C /\ C \cap Live(h) = {}
  BY <1>1 DEF Apart
<1>0. a \in Nat /\ a = h.objs[x].capacity
  BY DEF IsMapOf, HasSpace
<1>3. PICK c \in Nat : c = a + Space
  BY <1>0, SpaceAssumption
<1>4. /\ c # h.objs[x].capacity /\ Len(k) + 1 <= c /\ Len(k) <= c
      /\ h.objs[x].capacity \in Nat
  <2>1. PICK z \in Nat : z = Len(k)
    BY DEF IsMapOf
  <2>2. z <= a /\ ~(z + 1 <= a)
    BY <1>0, <2>1 DEF IsMapOf, FitsOneMore
  <2>3. c # a /\ z + 1 <= c /\ z <= c
    <3>1. a \in Nat
      BY <1>0
    <3>. QED
      BY <1>3, <2>2, <3>1, SpaceAssumption
  <2>. QED
    BY <1>0, <2>1, <2>3
<1>5. Good(b, M, n) /\ SameBut(f, b, x) /\ b.objs[x].kids = k /\ b.objs[x].capacity = c
  <2>1. x \in Live(f) /\ Len(f.objs[x].kids) <= c /\ b = WithSpace(f, x, c)
    BY <1>1, <1>3, <1>4
  <2>0. Good(f, M, n) /\ IsHeap(f)
    BY <1>1 DEF Good
  <2>2. Good(b, M, n)
    BY <2>0, <2>1, MoreSpace
  <2>3. SameBut(f, b, x) /\ b.objs[x].kids = f.objs[x].kids /\ b.objs[x].capacity = c
    BY <2>0, <2>1, WithSpaceIs
  <2>. QED
    BY <1>1, <2>2, <2>3
<1>6. /\ Live(b) = Live(f) /\ b.objs[x].type = "map"
      /\ \A r \in Live(f) \ {x} : b.objs[r] = f.objs[r]
  BY <1>1, <1>5 DEF SameBut
<1>7. x \in Live(b) /\ Kids(b, x) = Kids(h, x) /\ Kids(h, x) = InSlots(k) \ {0}
  BY <1>1, <1>5, <1>6 DEF Kids, IsMapOf
<1>8. IsClosed(b, C)
  <2>. SUFFICES ASSUME NEW r \in C PROVE Kids(b, r) \subseteq C
    BY DEF IsClosed
  <2>1. Kids(b, r) = Kids(f, r)
    <3>1. r # x
      BY <1>2
    <3>2. (r \in Live(b) <=> r \in Live(f)) /\ (r \in Live(f) => b.objs[r] = f.objs[r])
      BY <1>6, <3>1
    <3>. QED
      BY <3>2 DEF Kids
  <2>. QED
    BY <1>2, <2>1 DEF IsClosed
<1>9. PICK D : IsMoved(k, t, w, D)
  <2>1. k \in Seq(Nat) /\ Distinct(k) /\ t \notin InSlots(k) /\ IsInserted(k, s + 1, t, u)
    BY <1>1 DEF IsMapOf
  <2>. QED
    BY <1>1, <2>1, MovedAway
<1>10. PICK v, A : v = (n \/ D # {}) /\ A = {t}
  OBVIOUS
<1>11. Good(b, M, v)
  <2>1. n => v
    BY <1>10
  <2>. QED
    BY <1>5, <2>1, MoreNulls
<1>12. IsPair(b, t)
  <2>1. t # x /\ t \in Live(f)
    BY <1>1 DEF IsPair, IsA
  <2>2. t \in Live(b) /\ b.objs[t] = f.objs[t]
    BY <1>6, <2>1
  <2>. QED
    BY <1>1, <2>2 DEF IsPair, IsA
<1>13. 0 \in InSlots(w) => v
  BY <1>9, <1>10 DEF IsMapOf, IsMoved
<1>14. Remaps(b, M, v, x, w, A, D, C)
  BY <1>2, <1>4, <1>5, <1>6, <1>7, <1>8, <1>9, <1>10, <1>11, <1>12, <1>13 DEF Remaps, IsMoved
<1>15. Good(g, (M \ A) \cup D, v) /\ IsRemapped(b, g, x, w)
  BY <1>14, MapSlots
<1>16. (M \ A) \cup D = L \cup D
  BY <1>1, <1>10 DEF Good, IsOwned
<1>17. /\ Live(g) = Live(f) /\ g.objs[x].kids = w /\ g.objs[x].capacity = c
       /\ \A r \in Live(f) \ {x} : g.objs[r] = f.objs[r]
  <2>1. /\ Live(g) = Live(b) /\ g.objs[x].kids = w /\ g.objs[x].capacity = b.objs[x].capacity
        /\ \A r \in Live(b) \ {x} : g.objs[r] = b.objs[r]
    BY <1>15 DEF IsRemapped, SameBut
  <2>2. \A r \in Live(f) \ {x} : g.objs[r] = f.objs[r]
    <3>. SUFFICES ASSUME NEW r \in Live(f) \ {x} PROVE g.objs[r] = f.objs[r]
      OBVIOUS
    <3>1. r \in Live(b) \ {x} /\ b.objs[r] = f.objs[r]
      BY <1>6
    <3>2. g.objs[r] = b.objs[r]
      BY <2>1, <3>1
    <3>. QED
      BY <3>1, <3>2
  <2>3. Live(g) = Live(f)
    BY <1>6, <2>1, Zenon
  <2>4. g.objs[x].capacity = c
    BY <1>5, <2>1, Zenon
  <2>. QED
    BY <2>1, <2>2, <2>3, <2>4, Zenon
<1>18. Keeps(h, g, Live(h) \ Reach(h, x)) /\ x \in Live(g)
  <2>1. x \in Reach(h, x)
    BY GoodIsClosed, ReachIsClosure
  <2>. QED
    <3>1. \A r \in Live(h) \ {x} : r \in Live(g) /\ g.objs[r] = h.objs[r]
      <4>. SUFFICES ASSUME NEW r \in Live(h) \ {x} PROVE r \in Live(g) /\ g.objs[r] = h.objs[r]
        OBVIOUS
      <4>1. r \in Live(f) /\ f.objs[r] = h.objs[r]
        BY <1>1 DEF Keeps
      <4>2. r \in Live(g)
        BY <1>17, <4>1, Zenon
      <4>3. g.objs[r] = f.objs[r]
        BY <1>17, <4>1, Zenon
      <4>. QED
        BY <4>1, <4>2, <4>3
    <3>2. x \in Live(g)
      BY <1>1, <1>17
    <3>. QED
      BY <2>1, <3>1, <3>2 DEF Keeps
<1>19. LeftBehind(h, g, x) = D
  <2>1. Kids(g, x) = InSlots(w) \ {0} /\ g.wild = FALSE
    <3>1. IsHeap(g) /\ g.wild = FALSE
      BY <1>15 DEF Good
    <3>. QED
      BY <1>17, <1>18, <3>1, KidsAreInSlots
  <2>2. LeftBehind(h, g, x) = Kids(h, x) \ Kids(g, x)
    BY <1>4, <1>17, <2>1 DEF LeftBehind
  <2>3. t \notin Kids(h, x)
    BY <1>1 DEF IsMapOf
  <2>4. D \subseteq Kids(h, x) /\ InSlots(w) \ {0} = (Kids(h, x) \ D) \cup {t}
    BY <1>7, <1>9 DEF IsMoved
  <2>5. PICK G, K : G = Kids(g, x) /\ K = Kids(h, x)
    OBVIOUS
  <2>6. G = (K \ D) \cup {t} /\ D \subseteq K /\ t \notin K
    BY <2>1, <2>3, <2>4, <2>5, Zenon
  <2>7. K \ G = D
    BY <2>6
  <2>. QED
    BY <2>2, <2>5, <2>7, Zenon
<1>20. IsPut(h, L, n, x, g, D)
  BY <1>7, <1>9, <1>10, <1>15, <1>16, <1>18, <1>19 DEF IsPut, IsMoved
<1>. QED
  BY <1>20 DEF Put

LEMMA PutMoved ==
  ASSUME NEW h, NEW L, NEW n, Good(h, L, n), NEW x \in Live(h), h.objs[x].type = "map",
         NEW k, IsMapOf(h, L, n, x, k), ~FitsOneMore(h, x, k),
         NEW m, m = MakeTuple(h, 2), NEW e, e = WithKids(m.heap, x, k),
         NEW key \in Live(h), NEW value \in Live(h), NEW f, f = Filled(e, m.ref, key, value),
         NEW s \in 0 .. Len(k), NEW u, IsInserted(k, s + 1, m.ref, u),
         NEW w, IsShifted(s, u, w),
         NEW b, b = WithSpace(f, x, h.objs[x].capacity + Space), NEW g, g = WithKids(b, x, w)
  PROVE  Put(h, L, n, x, g)
<1>1. IsMapOf(h, L, n, x, k)
  OBVIOUS
<1>2. PICK t, M : t = m.ref /\ M = L \cup {t}
  OBVIOUS
<1>3. IsEntry(h, e, t, L, M, n, x, k)
  <2>1. PICK A, D : A = {} /\ D = {}
    OBVIOUS
  <2>2. IsPlace(h, n, x, k, A, D, t)
    BY <1>1, <2>1 DEF IsMapOf, IsPlace
  <2>3. M = ((L \cup {t}) \ A) \cup D
    BY <1>2, <2>1
  <2>. QED
    BY <1>2, <2>2, <2>3, EntryPlaced
<1>4. GoneWild(f, n) \/ IsEntry(h, f, t, L, M, n, x, k)
  BY <1>2, <1>3, EntryFilled
<1>5. CASE GoneWild(f, n)
  <2>1. IsWild(f) => IsWild(g)
    BY WithSpaceStaysWild, WithKidsStaysWild
  <2>. QED
    BY <1>5, <2>1, WildIsPut
<1>6. CASE IsEntry(h, f, t, L, M, n, x, k)
  <2>1. IsInserted(k, s + 1, t, u)
    BY <1>2
  <2>2. PICK a : a = h.objs[x].capacity
    OBVIOUS
  <2>3. HasSpace(h, x, a) /\ b = WithSpace(f, x, a + Space)
    BY <2>2 DEF HasSpace
  <2>. QED
    BY <1>1, <1>2, <1>6, <2>1, <2>3, EntryMoved
<1>. QED
  BY <1>4, <1>5, <1>6

(* The pair of a key that was found is released before a new one is made,   *)
(* with a null in the slot meanwhile.                                       *)
IsEmptied(h, g, L, x, i) ==
  /\ Good(g, L, TRUE) /\ x \in Live(g) /\ g.objs[x].type = "map"
  /\ g.objs[x].kids = [h.objs[x].kids EXCEPT ![i] = 0]
  /\ g.objs[x].capacity = h.objs[x].capacity
  /\ Live(g) \subseteq Live(h) /\ Live(h) \ Reach(h, h.objs[x].kids[i]) \subseteq Live(g)
  /\ \A r \in Live(g) \ {x} : g.objs[r] = h.objs[r]

LEMMA SlotEmptied ==
  ASSUME NEW h, NEW L, NEW n, Good(h, L, n), NEW x \in Live(h), h.objs[x].type = "map",
         NEW k, k = h.objs[x].kids, NEW i \in 1 .. Len(k), k[i] # 0,
         NEW g, g = Release(WithKids(h, x, [k EXCEPT ![i] = 0]), k[i])
  PROVE  IsEmptied(h, g, L, x, i)
<1>1. IsMapOf(h, L, n, x, k)
  BY MapSlotsAre
<1>2. PICK old, s, f, v : /\ old = k[i] /\ s = [k EXCEPT ![i] = 0] /\ f = WithKids(h, x, s) /\ v = TRUE
  OBVIOUS
<1>3. old \in InSlots(k) /\ old # 0
  BY <1>2 DEF InSlots
<1>4. old \in Kids(h, x) /\ old \in Live(h) /\ old \notin L
  BY <1>1, <1>3 DEF IsMapOf
<1>5. /\ s \in Seq(Nat) /\ Len(s) = Len(k) /\ Distinct(s)
      /\ InSlots(s) \ {0} = ((InSlots(k) \ {0}) \ ({old} \ {0})) \cup ({0} \ {0})
  <2>1. k \in Seq(Nat) /\ Distinct(k) /\ 0 \in Nat
    BY <1>1 DEF IsMapOf
  <2>2. SlotIs(k, i, 0, s)
    BY <1>2, <2>1, OtherSlot
  <2>. QED
    BY <1>2, <2>2 DEF SlotIs
<1>6. PICK A, D, C : A = {} /\ D = {old} /\ C = {}
  OBVIOUS
<1>7. Good(h, L, v)
  <2>1. n => v
    BY <1>2
  <2>. QED
    BY <2>1, MoreNulls
<1>8. InSlots(s) \ {0} = (Kids(h, x) \ D) \cup A
  BY <1>1, <1>3, <1>5, <1>6 DEF IsMapOf
<1>9. Remaps(h, L, v, x, s, A, D, C)
  BY <1>1, <1>2, <1>4, <1>5, <1>6, <1>7, <1>8 DEF Remaps, IsMapOf, IsClosed
<1>10. Good(f, (L \ A) \cup D, v) /\ IsRemapped(h, f, x, s)
  BY <1>2, <1>9, MapSlots
<1>11. PICK M : M = L \cup {old}
  OBVIOUS
<1>12. Good(f, M, v) /\ old \in M /\ M \ {old} = L
  <2>1. (L \ A) \cup D = M
    BY <1>6, <1>11
  <2>. QED
    BY <1>4, <1>10, <1>11, <2>1
<1>13. /\ Live(f) = Live(h) /\ f.objs[x].kids = s /\ f.objs[x].type = "map"
       /\ f.objs[x].capacity = h.objs[x].capacity
       /\ \A r \in Live(h) \ {x} : f.objs[r] = h.objs[r]
  BY <1>10 DEF IsRemapped, SameBut
<1>14. PICK R, P : R = Reach(f, old) /\ P = Reach(h, old)
  OBVIOUS
<1>15. old \in P /\ IsClosed(h, P) /\ P \subseteq Live(h) /\ x \notin P
  <2>1. IsHeap(h) /\ IsClosed(h, Live(h))
    BY GoodIsClosed
  <2>. QED
    BY <1>4, <1>14, <2>1, ReachIsClosure, NoCycle
<1>16. R \subseteq P
  <2>1. IsHeap(f) /\ IsClosed(f, Live(f)) /\ old \in Live(f)
    BY <1>4, <1>12, <1>13, GoodIsClosed
  <2>2. IsClosed(f, P)
    <3>. SUFFICES ASSUME NEW r \in P PROVE Kids(f, r) \subseteq P
      BY DEF IsClosed
    <3>1. Kids(f, r) = Kids(h, r)
      BY <1>13, <1>15 DEF Kids
    <3>. QED
      BY <1>15, <3>1 DEF IsClosed
  <2>. QED
    BY <1>14, <1>15, <2>1, <2>2, ReachIsClosure
<1>17. g = Free(f, R)
  <2>1. old \in Live(f)
    BY <1>4, <1>13
  <2>2. Release(f, old) = Free(f, Reach(f, old))
    BY <1>12, <2>1, ReleaseFrees
  <2>. QED
    BY <1>2, <1>14, <2>2
<1>18. Good(g, L, v) /\ Live(g) = Live(f) \ R /\ \A r \in Live(g) : g.objs[r] = f.objs[r]
  <2>1. IsFreed(f, M, v, old, g)
    BY <1>12, <1>14, <1>17, Freed
  <2>2. Good(g, M \ {old}, v)
    BY <2>1, Zenon DEF IsFreed
  <2>3. Live(g) = Live(f) \ R /\ \A r \in Live(g) : g.objs[r] = f.objs[r]
    BY <1>14, <2>1 DEF IsFreed
  <2>. QED
    BY <1>12, <2>2, <2>3
<1>19. x \in Live(g) /\ g.objs[x] = f.objs[x]
  BY <1>13, <1>15, <1>16, <1>18
<1>20. Live(g) \subseteq Live(h) /\ Live(h) \ Reach(h, h.objs[x].kids[i]) \subseteq Live(g)
  <2>1. R \subseteq Reach(h, h.objs[x].kids[i])
    BY <1>2, <1>14, <1>16, Zenon
  <2>. QED
    BY <1>13, <1>18, <2>1
<1>21. \A r \in Live(g) \ {x} : g.objs[r] = h.objs[r]
  BY <1>13, <1>18
<1>22. Good(g, L, TRUE)
  BY <1>2, <1>18
<1>. QED
  BY <1>2, <1>13, <1>19, <1>20, <1>21, <1>22, Zenon DEF IsEmptied

(* A slot that is emptied and filled again. *)
IsRefilled(k, i, t, q, p) ==
  /\ q \in Seq(Nat) /\ Len(q) = Len(k) /\ q[i] = 0
  /\ p \in Seq(Nat) /\ Len(p) = Len(k) /\ Distinct(p) /\ p[i] = t
  /\ InSlots(p) \ {0} = (InSlots(q) \ {0}) \cup {t}
  /\ \A y \in 1 .. Len(k) : y # i => p[y] = k[y] /\ q[y] = k[y]

LEMMA Refilled ==
  ASSUME NEW k \in Seq(Nat), Distinct(k), NEW i \in 1 .. Len(k), NEW t \in Nat \ {0},
         NEW q, q = [k EXCEPT ![i] = 0], Distinct(q), t \notin InSlots(q),
         NEW p, p = [k EXCEPT ![i] = t]
  PROVE  IsRefilled(k, i, t, q, p)
<1>1. q \in Seq(Nat) /\ Len(q) = Len(k) /\ q[i] = 0 /\ \A y \in 1 .. Len(k) : y # i => q[y] = k[y]
  OBVIOUS
<1>2. p \in Seq(Nat) /\ Len(p) = Len(k) /\ p[i] = t /\ \A y \in 1 .. Len(k) : y # i => p[y] = k[y]
  OBVIOUS
<1>3. p = [q EXCEPT ![i] = t]
  <2>1. [[k EXCEPT ![i] = 0] EXCEPT ![i] = t] = [k EXCEPT ![i] = t]
    OBVIOUS
  <2>. QED
    BY <2>1
<1>4. i \in 1 .. Len(q)
  BY <1>1
<1>5. SlotIs(q, i, t, p)
  BY <1>1, <1>3, <1>4, OtherSlot
<1>6. Distinct(p) /\ InSlots(p) \ {0} = (InSlots(q) \ {0}) \cup {t}
  <2>1. InSlots(p) \ {0} = ((InSlots(q) \ {0}) \ ({q[i]} \ {0})) \cup ({t} \ {0}) /\ Distinct(p)
    BY <1>5 DEF SlotIs
  <2>2. {q[i]} \ {0} = {} /\ {t} \ {0} = {t}
    BY <1>1
  <2>. QED
    BY <2>1, <2>2
<1>. QED
  BY <1>1, <1>2, <1>6 DEF IsRefilled

(* cjson_map_add_pair on a key the map has: the pair in a slot is replaced. *)
Replaces(h, x, i, f, m, q, p, e) ==
  /\ q = [h.objs[x].kids EXCEPT ![i] = 0]
  /\ f = Release(WithKids(h, x, q), h.objs[x].kids[i])
  /\ m = MakeTuple(f, 2)
  /\ p = [h.objs[x].kids EXCEPT ![i] = m.ref]
  /\ e = WithKids(m.heap, x, p)

IsSlotReplaced(h, L, n, x, k, i, f, m, q, p, v, t) ==
  /\ IsEmptied(h, f, L, x, i) /\ IsMapOf(h, L, n, x, k) /\ IsMapOf(f, L, v, x, q)
  /\ IsTuple(f, L, v, m, 2) /\ t \notin Live(f) /\ t \in Nat \ {0}
  /\ IsRefilled(k, i, t, q, p)

LEMMA SlotReplaced ==
  ASSUME NEW h, NEW L, NEW n, Good(h, L, n), NEW x \in Live(h), h.objs[x].type = "map",
         NEW k, k = h.objs[x].kids, NEW i \in 1 .. Len(k), k[i] # 0,
         NEW f, NEW m, NEW q, NEW p, NEW e, Replaces(h, x, i, f, m, q, p, e),
         NEW v, v = TRUE, NEW t, t = m.ref
  PROVE  IsSlotReplaced(h, L, n, x, k, i, f, m, q, p, v, t)
<1>1. IsMapOf(h, L, n, x, k)
  BY MapSlotsAre
<1>2. IsEmptied(h, f, L, x, i)
  <2>1. f = Release(WithKids(h, x, [k EXCEPT ![i] = 0]), k[i])
    BY Zenon DEF Replaces
  <2>. QED
    BY <2>1, SlotEmptied
<1>3. /\ Good(f, L, v) /\ x \in Live(f) /\ f.objs[x].type = "map" /\ f.objs[x].kids = q
  <2>1. q = [h.objs[x].kids EXCEPT ![i] = 0]
    BY DEF Replaces
  <2>. QED
    BY <1>2, <2>1 DEF IsEmptied
<1>4. IsMapOf(f, L, v, x, q)
  BY <1>3, MapSlotsAre
<1>5. PICK j \in Nat : j = 2
  OBVIOUS
<1>6. IsTuple(f, L, v, m, j)
  <2>1. m = MakeTuple(f, 2)
    BY Zenon DEF Replaces
  <2>2. m = MakeTuple(f, j)
    BY <1>5, <2>1
  <2>. QED
    BY <1>3, <2>2, TupleMade
<1>7. t \notin Live(f) /\ t \in Nat \ {0}
  BY <1>6 DEF IsTuple, IsNew, Good, IsHeap
<1>8. IsRefilled(k, i, t, q, p)
  <2>1. q = [k EXCEPT ![i] = 0] /\ p = [k EXCEPT ![i] = t]
    BY DEF Replaces
  <2>2. k \in Seq(Nat) /\ Distinct(k) /\ Distinct(q)
    BY <1>1, <1>4 DEF IsMapOf
  <2>3. t \notin InSlots(q)
    BY <1>4, <1>7 DEF IsMapOf
  <2>. QED
    BY <1>7, <2>1, <2>2, <2>3, Refilled
<1>9. IsTuple(f, L, v, m, 2)
  BY <1>5, <1>6
<1>. QED
  BY <1>1, <1>2, <1>4, <1>7, <1>8, <1>9 DEF IsSlotReplaced

LEMMA PutFound ==
  ASSUME NEW h, NEW L, NEW n, Good(h, L, n), NEW x \in Live(h), h.objs[x].type = "map",
         NEW k, k = h.objs[x].kids, NEW i \in 1 .. Len(k), k[i] # 0,
         NEW f, NEW m, NEW q, NEW p, NEW e, Replaces(h, x, i, f, m, q, p, e),
         NEW key \in Live(h) \ Reach(h, k[i]), NEW value \in Live(h) \ Reach(h, k[i]),
         NEW g, g = Filled(e, m.ref, key, value)
  PROVE  Put(h, L, n, x, g)
<1>1. PICK v, t : v = TRUE /\ t = m.ref
  OBVIOUS
<1>2. /\ IsEmptied(h, f, L, x, i) /\ IsMapOf(h, L, n, x, k) /\ IsMapOf(f, L, v, x, q)
      /\ IsTuple(f, L, v, m, 2) /\ t \notin Live(f) /\ t \in Nat \ {0}
      /\ IsRefilled(k, i, t, q, p)
  <2>1. IsSlotReplaced(h, L, n, x, k, i, f, m, q, p, v, t)
    BY <1>1, SlotReplaced
  <2>. QED
    BY <2>1 DEF IsSlotReplaced
<1>4. /\ Good(f, L, v) /\ x \in Live(f) /\ f.objs[x].type = "map"
      /\ f.objs[x].capacity = h.objs[x].capacity
      /\ Live(f) \subseteq Live(h) /\ Live(h) \ Reach(h, k[i]) \subseteq Live(f)
      /\ \A r \in Live(f) \ {x} : f.objs[r] = h.objs[r]
  BY <1>1, <1>2 DEF IsEmptied
<1>5. key \in Live(f) /\ value \in Live(f)
  BY <1>4
<1>12. /\ p \in Seq(Nat) /\ Len(p) = Len(k) /\ Distinct(p) /\ p[i] = t
       /\ InSlots(p) \ {0} = (InSlots(q) \ {0}) \cup {t}
       /\ \A y \in 1 .. Len(k) : y # i => p[y] = k[y]
  BY <1>2 DEF IsRefilled
<1>13. 0 \in InSlots(p) => n
  <2>. SUFFICES ASSUME NEW y \in 1 .. Len(k), p[y] = 0 PROVE n
    BY <1>12 DEF InSlots
  <2>1. y # i
    BY <1>2, <1>12
  <2>2. k[y] = 0
    BY <1>12, <2>1
  <2>3. 0 \in InSlots(k)
    BY <2>2 DEF InSlots
  <2>. QED
    BY <1>2, <2>3 DEF IsMapOf
<1>14. IsEntry(f, e, t, L, L, v, x, p)
  <2>1. PICK A, D : A = {t} /\ D = {}
    OBVIOUS
  <2>2. InSlots(p) \ {0} = (Kids(f, x) \ D) \cup A
    BY <1>2, <1>12, <2>1 DEF IsMapOf
  <2>3. Len(p) <= f.objs[x].capacity
    BY <1>2, <1>4, <1>12 DEF IsMapOf
  <2>4. IsPlace(f, v, x, p, A, D, t)
    BY <1>1, <1>12, <2>1, <2>2, <2>3 DEF IsPlace
  <2>5. m = MakeTuple(f, 2) /\ e = WithKids(m.heap, x, p)
    BY Zenon DEF Replaces
  <2>6. L = ((L \cup {t}) \ A) \cup D
    BY <1>2, <1>4, <2>1 DEF Good, IsOwned
  <2>. QED
    BY <1>1, <1>4, <2>4, <2>5, <2>6, EntryPlaced
<1>15. Good(e, L, v) /\ e.objs[x].kids = p
  BY <1>14 DEF IsEntry
<1>16. Good(e, L, n)
  <2>1. PICK w : w = m.heap
    OBVIOUS
  <2>2. /\ IsHeap(w) /\ x \in Live(w) /\ Keeps(f, w, Live(f))
        /\ \A r \in Live(w) \ Live(f) : ~HasNull(w, r)
    BY <1>2, <1>4, <2>1 DEF IsTuple, IsNew, Good
  <2>4. SameBut(w, e, x)
    <3>1. e = WithKids(m.heap, x, p)
      BY Zenon DEF Replaces
    <3>2. e = WithKids(w, x, p)
      BY <2>1, <3>1
    <3>. QED
      BY <1>12, <2>2, <3>2, WithKidsIs, Zenon
  <2>3. ASSUME NEW r \in Live(e), HasNull(e, r) PROVE n
    <3>1. CASE r = x
      BY <1>13, <1>15, <2>3, <3>1, NullInSlots
    <3>2. CASE r # x
      <4>1. r \in Live(w) /\ e.objs[r] = w.objs[r]
        BY <2>4, <3>2 DEF SameBut
      <4>2. HasNull(w, r)
        BY <2>3, <4>1 DEF HasNull
      <4>3. r \in Live(f)
        BY <2>2, <4>1, <4>2
      <4>4. w.objs[r] = f.objs[r]
        BY <2>2, <4>3 DEF Keeps
      <4>5. f.objs[r] = h.objs[r] /\ r \in Live(h)
        BY <1>4, <3>2, <4>3
      <4>6. HasNull(h, r)
        BY <4>2, <4>4, <4>5 DEF HasNull
      <4>. QED
        BY <4>5, <4>6 DEF Good, IsShaped
    <3>. QED
      BY <3>1, <3>2
  <2>. QED
    BY <1>15, <2>3, FewerNulls
<1>17. IsEntry(f, e, t, L, L, n, x, p)
  BY <1>14, <1>16 DEF IsEntry
<1>18. GoneWild(g, n) \/ IsEntry(f, g, t, L, L, n, x, p)
  <2>1. g = Filled(e, t, key, value)
    BY <1>1
  <2>. QED
    BY <1>4, <1>5, <1>17, <2>1, EntryFilled, Zenon
<1>19. CASE GoneWild(g, n)
  BY <1>19 DEF Put
<1>20. CASE IsEntry(f, g, t, L, L, n, x, p)
  <2>1. /\ Good(g, L, n) /\ Live(f) \subseteq Live(g) /\ Keeps(f, g, Live(f) \ {x})
        /\ g.objs[x].capacity = h.objs[x].capacity
    BY <1>4, <1>20 DEF IsEntry
  <2>2. Reach(h, k[i]) \subseteq Reach(h, x) /\ x \in Reach(h, x)
    <3>1. IsHeap(h) /\ IsClosed(h, Live(h))
      BY GoodIsClosed
    <3>2. x \in Reach(h, x) /\ IsClosed(h, Reach(h, x))
      BY <3>1, ReachIsClosure
    <3>3. k[i] \in Kids(h, x) /\ k[i] \in Live(h)
      BY <1>2 DEF IsMapOf, InSlots
    <3>4. k[i] \in Reach(h, x)
      BY <3>2, <3>3 DEF IsClosed
    <3>. QED
      BY <3>1, <3>2, <3>3, <3>4, ReachIsClosure
  <2>3. Keeps(h, g, Live(h) \ Reach(h, x))
    <3>. SUFFICES ASSUME NEW r \in Live(h) \ Reach(h, x) PROVE r \in Live(g) /\ g.objs[r] = h.objs[r]
      BY DEF Keeps
    <3>1. r # x /\ r \in Live(f)
      BY <1>4, <2>2
    <3>2. f.objs[r] = h.objs[r]
      BY <1>4, <3>1
    <3>. QED
      BY <2>1, <3>1, <3>2 DEF Keeps
  <2>4. IsKept(h, g, x)
    BY <1>4, <2>1, <2>3 DEF IsKept
  <2>. QED
    BY <2>1, <2>4, PutInPlace
<1>. QED
  BY <1>18, <1>19, <1>20

LEMMA PairAdded ==
  ASSUME NEW h, NEW L, NEW n, Good(h, L, n), NEW x \in Live(h), h.objs[x].type = "map",
         NEW key \in Live(h), NEW value \in Live(h),
         \A p \in Kids(h, x) : key \notin Reach(h, p) /\ value \notin Reach(h, p),
         NEW g, g = AddPair(h, x, key, value)
  PROVE  Put(h, L, n, x, g)
<1>1. PICK k : k = h.objs[x].kids
  OBVIOUS
<1>2. IsMapOf(h, L, n, x, k)
  BY <1>1, MapSlotsAre
<1>3. PICK f : f = Search(h, k, key)
  OBVIOUS
<1>4. k \in Seq(Nat) /\ Len(k) \in Nat
  BY <1>2 DEF IsMapOf
<1>5. /\ f.s \in 0 .. Len(k) /\ (f.wild => n)
      /\ f.hit \in {NoHit} \cup {i \in 0 .. Len(k) - 1 : k[i + 1] # 0}
  <2>1. f \in Searching(k, n)
    BY <1>1, <1>3, Searched
  <2>. QED
    BY <2>1 DEF Searching, NoHit
<1>6. CASE f.wild
  <2>1. g = Wild(h)
    BY <1>1, <1>3, <1>6 DEF AddPair
  <2>2. IsWild(g) /\ n
    BY <1>5, <1>6, <2>1, WildIsWild DEF Good
  <2>. QED
    BY <2>2 DEF Put, GoneWild
<1>7. CASE ~f.wild /\ f.hit # NoHit
  <2>1. PICK i : i = f.hit + 1
    OBVIOUS
  <2>2. i \in 1 .. Len(k) /\ k[i] # 0
    BY <1>4, <1>5, <1>7, <2>1
  <2>3. PICK q : q = [k EXCEPT ![i] = 0]
    OBVIOUS
  <2>4. PICK e : e = Release(WithKids(h, x, q), k[i])
    OBVIOUS
  <2>5. PICK m : m = MakeTuple(e, 2)
    OBVIOUS
  <2>6. PICK p : p = [k EXCEPT ![i] = m.ref]
    OBVIOUS
  <2>7. PICK d : d = WithKids(m.heap, x, p)
    OBVIOUS
  <2>8. Replaces(h, x, i, e, m, q, p, d)
    BY <1>1, <2>3, <2>4, <2>5, <2>6, <2>7 DEF Replaces
  <2>9. g = Filled(d, m.ref, key, value)
    <3>1. g = ReplacePair(h, x, i, key, value)
      BY <1>1, <1>3, <1>7, <2>1 DEF AddPair
    <3>. QED
      BY <1>1, <2>3, <2>4, <2>5, <2>6, <2>7, <3>1, Zenon DEF ReplacePair, NULL
  <2>10. key \in Live(h) \ Reach(h, k[i]) /\ value \in Live(h) \ Reach(h, k[i])
    BY <1>2, <2>2 DEF IsMapOf, InSlots
  <2>. QED
    BY <1>1, <2>2, <2>8, <2>9, <2>10, PutFound, Zenon
<1>8. CASE ~f.wild /\ f.hit = NoHit
  <2>1. PICK s \in 0 .. Len(k) : s = f.s
    BY <1>5
  <2>0. g = InsertPair(h, x, s, key, value)
    BY <1>1, <1>3, <1>8, <2>1 DEF AddPair
  <2>2. PICK m : m = MakeTuple(h, 2)
    OBVIOUS
  <2>3. PICK u : u = InsertAt(k, s + 1, m.ref)
    OBVIOUS
  <2>4. PICK c : c = h.objs[x].capacity
    OBVIOUS
  <2>5. m.ref \in Nat
    <3>1. PICK j \in Nat : j = 2
      OBVIOUS
    <3>2. m = MakeTuple(h, j)
      BY <2>2, <3>1
    <3>3. IsTuple(h, L, n, m, j)
      BY <3>2, TupleMade
    <3>. QED
      BY <3>3 DEF IsTuple, IsNew, Good, IsHeap
  <2>6. IsInserted(k, s + 1, m.ref, u)
    <3>1. PICK i \in 1 .. Len(k) + 1 : i = s + 1
      BY <1>4
    <3>. QED
      BY <1>4, <2>3, <2>5, <3>1, InsertedAt
  <2>7. u \in Seq(Nat) /\ Len(u) = Len(k) + 1
    BY <2>6 DEF IsInserted
  <2>8. CASE Len(k) + 1 <= c
    <3>0. FitsOneMore(h, x, k)
      BY <2>4, <2>8 DEF FitsOneMore
    <3>1. PICK v : v = SubSeq(u, 1, Len(k))
      OBVIOUS
    <3>2. PICK e : e = WithKids(m.heap, x, v)
      OBVIOUS
    <3>3. PICK d : d = Filled(e, m.ref, key, value)
      OBVIOUS
    <3>4. g = WithKids(d, x, u)
      BY <1>1, <2>0, <2>2, <2>3, <2>4, <2>8, <3>1, <3>2, <3>3 DEF InsertPair
    <3>5. CASE s = Len(k)
      <4>1. \A y \in 1 .. Len(k) : u[y] = k[y]
        BY <1>4, <2>6, <3>5, SMTT(30) DEF IsInserted
      <4>2. v = k
        <5>1. PICK j \in Nat : j = Len(k)
          BY <1>4
        <5>2. /\ v = SubSeq(u, 1, j) /\ u \in Seq(Nat) /\ j <= Len(u)
              /\ \A y \in 1 .. j : u[y] = k[y]
          <6>1. v = SubSeq(u, 1, j)
            BY <3>1, <5>1
          <6>2. u \in Seq(Nat) /\ j <= Len(u)
            BY <2>7, <5>1
          <6>3. \A y \in 1 .. j : u[y] = k[y]
            BY <4>1, <5>1
          <6>. QED
            BY <6>1, <6>2, <6>3
        <5>3. v \in Seq(Nat) /\ Len(v) = j /\ \A y \in 1 .. j : v[y] = u[y]
          BY <5>2, BeginningOf, SMTT(30)
        <5>4. k \in Seq(Nat) /\ Len(k) = j /\ \A y \in 1 .. j : v[y] = k[y]
          BY <1>4, <5>1, <5>2, <5>3
        <5>. QED
          BY <5>3, <5>4, SameSlots, Zenon
      <4>3. e = WithKids(m.heap, x, k) /\ IsInserted(k, Len(k) + 1, m.ref, u)
        BY <2>6, <3>2, <3>5, <4>2
      <4>. QED
        BY <1>2, <2>2, <3>0, <3>3, <3>4, <4>3, PutAtEnd
    <3>6. CASE s # Len(k)
      <4>1. PICK i \in 1 .. Len(k) : i = s + 1
        BY <1>4, <3>6
      <4>2. e = WithKids(m.heap, x, SubSeq(u, 1, Len(k))) /\ IsInserted(k, i, m.ref, u)
        BY <2>6, <3>1, <3>2, <4>1
      <4>. QED
        BY <1>2, <2>2, <3>0, <3>3, <3>4, <4>2, PutBetween
    <3>. QED
      BY <3>5, <3>6
  <2>9. CASE ~(Len(k) + 1 <= c)
    <3>1. PICK e : e = WithKids(m.heap, x, k)
      OBVIOUS
    <3>2. PICK d : d = Filled(e, m.ref, key, value)
      OBVIOUS
    <3>3. PICK w : w = MovedBefore(k, s) \o SubSeq(u, s + 1, Len(k) + 1)
      OBVIOUS
    <3>4. PICK b : b = WithSpace(d, x, h.objs[x].capacity + Space)
      OBVIOUS
    <3>5. g = WithKids(b, x, w)
      BY <1>1, <2>0, <2>2, <2>3, <2>4, <2>9, <3>1, <3>2, <3>3, <3>4 DEF InsertPair
    <3>6. IsShifted(s, u, w)
      <4>1. PICK t \in Nat : t = m.ref
        BY <2>5
      <4>2. k \in Seq(Nat) /\ s \in 0 .. Len(k) /\ IsInserted(k, s + 1, t, u)
        BY <1>4, <2>6, <4>1
      <4>. QED
        BY <3>3, <4>2, MovedSlots, Zenon
    <3>7. ~FitsOneMore(h, x, k)
      BY <2>4, <2>9 DEF FitsOneMore
    <3>. QED
      BY <1>2, <2>2, <2>6, <3>1, <3>2, <3>4, <3>5, <3>6, <3>7, PutMoved
  <2>. QED
    BY <2>8, <2>9
<1>. QED
  BY <1>6, <1>7, <1>8

-----------------------------------------------------------------------------
(* What the client reaches: what its pointers refer to, and the parts of a  *)
(* tuple one of them refers to.                                             *)
IsHandle(h, R, x) ==
  x \in R \/ \E r \in R : h.objs[r].type = "tuple" /\ x \in Kids(h, r)

LEMMA PartOfOutsider ==
  ASSUME NEW h, NEW L, NEW n, Good(h, L, n), NEW m \in Live(h), h.objs[m].type = "map",
         NEW p \in Kids(h, m), NEW t \in Live(h), h.objs[t].type = "tuple", t \notin Reach(h, p),
         NEW y \in Kids(h, t)
  PROVE  y \notin Reach(h, p)
<1>. SUFFICES ASSUME y \in Reach(h, p) PROVE FALSE
  OBVIOUS
<1>1. p \in Live(h) /\ m # t
  BY DEF Good, IsOwned, Refers
<1>2. y # p
  BY <1>1 DEF Good, IsOwned, Separate
<1>3. t \in Reach(h, p)
  BY <1>1, <1>2, ReachGoesUp
<1>. QED
  BY <1>3

(* A handle is live, in reach of a pointer, and no pair of a map or in one. *)
IsOutside(h, R, x) ==
  /\ x \in Live(h) /\ ~InMap(h, x)
  /\ \E r \in R : x \in Reach(h, r)
  /\ \A m \in Live(h) : h.objs[m].type = "map" => \A p \in Kids(h, m) : x \notin Reach(h, p)

LEMMA HandleIsOutside ==
  ASSUME NEW h, NEW L, NEW n, Good(h, L, n), NEW R, R \subseteq L, NEW x, IsHandle(h, R, x)
  PROVE  IsOutside(h, R, x)
<1>1. /\ L \subseteq Live(h) /\ \A r \in Live(h) : Kids(h, r) \subseteq Live(h) \ L
      /\ \A p, q \in Live(h) : p # q => Kids(h, p) \cap Kids(h, q) = {}
  BY DEF Good, IsOwned, Refers, Separate
<1>2. ASSUME NEW r \in R PROVE IsOutside(h, R, r)
  <2>1. r \in Live(h) /\ ~InMap(h, r)
    BY <1>1 DEF InMap
  <2>2. r \in Reach(h, r)
    BY <2>1, GoodIsClosed, ReachIsClosure
  <2>3. ASSUME NEW m \in Live(h), NEW p \in Kids(h, m), r \in Reach(h, p) PROVE FALSE
    <3>1. p \in Live(h) /\ p \notin L
      BY <1>1
    <3>2. r = p
      BY <2>3, <3>1, LooseIsAlone
    <3>. QED
      BY <3>1, <3>2
  <2>. QED
    BY <2>1, <2>2, <2>3 DEF IsOutside
<1>3. ASSUME NEW r \in R, h.objs[r].type = "tuple", x \in Kids(h, r) PROVE IsOutside(h, R, x)
  <2>1. r \in Live(h) /\ x \in Live(h)
    BY <1>1, <1>3
  <2>2. ~InMap(h, x)
    BY <1>1, <1>3, <2>1 DEF InMap
  <2>3. x \in Reach(h, r)
    <3>1. r \in Reach(h, r) /\ IsClosed(h, Reach(h, r))
      BY <2>1, GoodIsClosed, ReachIsClosure
    <3>. QED
      BY <1>3, <3>1 DEF IsClosed
  <2>4. ASSUME NEW m \in Live(h), h.objs[m].type = "map", NEW p \in Kids(h, m)
        PROVE  x \notin Reach(h, p)
    <3>1. r \notin Reach(h, p)
      BY <1>2, <2>4 DEF IsOutside
    <3>. QED
      BY <1>3, <2>1, <2>4, <3>1, PartOfOutsider
  <2>. QED
    BY <2>1, <2>2, <2>3, <2>4 DEF IsOutside
<1>. QED
  BY <1>2, <1>3 DEF IsHandle

(* cjson_map_add_pair and cjson_map_add_tuple, called by the client. *)
LEMMA ClientAddsPair ==
  ASSUME NEW h, NEW L, NEW n, Good(h, L, n), NEW R, NEW x, IsOutside(h, R, x),
         h.objs[x].type = "map", NEW key, IsOutside(h, R, key), NEW value, IsOutside(h, R, value),
         NEW g, g = AddPair(h, x, key, value)
  PROVE  Put(h, L, n, x, g)
  BY PairAdded DEF IsOutside

LEMMA ClientAddsTuple ==
  ASSUME NEW h, NEW L, NEW n, Good(h, L, n), NEW R, NEW x, IsOutside(h, R, x),
         h.objs[x].type = "map", NEW t, IsOutside(h, R, t),
         h.objs[t].type = "tuple", Len(h.objs[t].kids) = 2,
         NEW g, g = AddTuple(h, x, t)
  PROVE  Put(h, L, n, x, g)
<1>1. x \in Live(h) /\ t \in Live(h)
  BY DEF IsOutside
<1>2. PICK k \in Seq(Nat) : k = h.objs[t].kids
  BY <1>1 DEF Good, IsHeap, IsObject
<1>3. PICK key, value : key = k[1] /\ value = k[2]
  OBVIOUS
<1>4. key \in Kids(h, t) /\ value \in Kids(h, t)
  <2>1. IsShaped(h, t, n)
    BY <1>1 DEF Good
  <2>2. Len(k) = 2 /\ \A i \in 1 .. Len(k) : k[i] # 0
    BY <1>2, <2>1 DEF IsShaped, HasNull
  <2>3. 1 \in 1 .. Len(k) /\ 2 \in 1 .. Len(k)
    BY <2>2
  <2>4. Kids(h, t) = InSlots(k) \ {0}
    BY <1>1, <1>2, KidsAreInSlots DEF Good, IsHeap
  <2>. QED
    BY <1>3, <2>2, <2>3, <2>4 DEF InSlots
<1>5. key \in Live(h) /\ value \in Live(h)
  BY <1>1, <1>4 DEF Good, IsOwned, Refers
<1>6. \A p \in Kids(h, x) : key \notin Reach(h, p) /\ value \notin Reach(h, p)
  BY <1>1, <1>4, PartOfOutsider DEF IsOutside
<1>7. g = AddPair(h, x, key, value)
  BY <1>2, <1>3 DEF AddTuple, GetObject
<1>. QED
  BY <1>1, <1>5, <1>6, <1>7, PairAdded

(* cjson_runtime_add_code_segment adds to the array of a runtime. *)
LEMMA ClientAddsCode ==
  ASSUME NEW h, NEW L, NEW n, Good(h, L, n), NEW x \in Live(h), h.objs[x].type = "rt",
         NEW v \in Live(h), NEW late \in BOOLEAN, NEW g, g = AddCodeSegment(h, x, v, late)
  PROVE  GoneWild(g, n) \/ (Good(g, L, n) /\ Changes(h, g, x))
<1>1. PICK k \in Seq(Nat) : k = h.objs[x].kids
  BY DEF Good, IsHeap, IsObject
<1>2. PICK a : a = k[1]
  OBVIOUS
<1>3. Len(k) = 1 /\ a \in Live(h) /\ h.objs[a].type = "array"
  BY <1>1, <1>2 DEF Good, IsShaped, IsA
<1>4. g = AddObject(h, a, v, late)
  BY <1>1, <1>2 DEF AddCodeSegment
<1>5. StaysGood(h, g, L, n, a)
  BY <1>3, <1>4, AddedObject
<1>6. a \in Kids(h, x)
  <2>1. 1 \in 1 .. Len(k) /\ a # 0
    BY <1>3 DEF Good, IsHeap
  <2>2. Kids(h, x) = InSlots(k) \ {0}
    BY <1>1, KidsAreInSlots DEF Good, IsHeap
  <2>. QED
    BY <1>2, <2>1, <2>2 DEF InSlots
<1>7. x \in Reach(h, x) /\ a \in Reach(h, x) /\ x # a
  <2>1. x \in Reach(h, x) /\ IsClosed(h, Reach(h, x))
    BY GoodIsClosed, ReachIsClosure
  <2>. QED
    BY <1>3, <1>6, <2>1 DEF IsClosed
<1>. QED
  BY <1>5, <1>7 DEF StaysGood, Keeps, Changes, IsA

-----------------------------------------------------------------------------
(* The inductive invariant.  r is what the client's pointers refer to, l    *)
(* the pairs left behind: the wild heap is one that was good before.        *)
Calm(h) == [objs |-> h.objs, wild |-> FALSE]
RootsOf(r) == {r[s] : s \in Slots} \ {0}
IsPointing(r) ==
  /\ r \in [Slots -> Nat]
  /\ \A s, t \in Slots : r[s] = r[t] /\ r[s] # 0 => s = t
Sound(h, r, l) ==
  /\ h = [objs |-> h.objs, wild |-> h.wild] /\ h.wild \in BOOLEAN
  /\ h.wild => l # {}
  /\ Good(Calm(h), RootsOf(r) \cup l, l # {})
  /\ RootsOf(r) \cap l = {}
  /\ IsPointing(r)
IInv == Sound(heap, root, lost) /\ client \in Clients

LEMMA CalmIs ==
  ASSUME NEW h
  PROVE  /\ Calm(h).objs = h.objs /\ Calm(h).wild = FALSE
         /\ Live(Calm(h)) = Live(h)
         /\ \A r : Kids(Calm(h), r) = Kids(h, r)
<1>1. Calm(h).objs = h.objs /\ Calm(h).wild = FALSE
  BY DEF Calm
<1>2. Live(Calm(h)) = Live(h)
  BY <1>1 DEF Live
<1>. QED
  BY <1>1, <1>2 DEF Kids

LEMMA SoundIsGood ==
  ASSUME NEW h, NEW r, NEW l, Sound(h, r, l), ~h.wild
  PROVE  Good(h, RootsOf(r) \cup l, l # {})
<1>1. h.wild = FALSE /\ h = [objs |-> h.objs, wild |-> h.wild]
  BY DEF Sound
<1>2. Calm(h) = h
  BY <1>1 DEF Calm
<1>. QED
  BY <1>2 DEF Sound

LEMMA GoodIsSound ==
  ASSUME NEW h, NEW r, NEW l, Good(h, RootsOf(r) \cup l, l # {}),
         RootsOf(r) \cap l = {}, IsPointing(r)
  PROVE  Sound(h, r, l)
<1>1. h.wild = FALSE /\ h = [objs |-> h.objs, wild |-> h.wild]
  BY DEF Good, IsHeap
<1>2. Calm(h) = h
  BY <1>1 DEF Calm
<1>. QED
  BY <1>1, <1>2 DEF Sound

LEMMA WildIsSound ==
  ASSUME NEW h, NEW r, NEW l, Sound(h, r, l), l # {}
  PROVE  Sound(Wild(h), r, l)
<1>1. PICK F, w, v : F = h.objs /\ w = h.wild /\ v = TRUE
  OBVIOUS
<1>2. PICK g : g = Wild(h)
  OBVIOUS
<1>3. g.objs = h.objs /\ g.wild = TRUE /\ g = [objs |-> g.objs, wild |-> g.wild]
  <2>1. h = [objs |-> F, wild |-> w]
    BY <1>1 DEF Sound
  <2>2. g = [h EXCEPT !.wild = v]
    BY <1>1, <1>2 DEF Wild
  <2>3. g = [objs |-> F, wild |-> v]
    BY <2>1, <2>2
  <2>. QED
    BY <1>1, <2>3
<1>4. Calm(g) = Calm(h)
  BY <1>3 DEF Calm
<1>5. Sound(g, r, l)
  BY <1>3, <1>4 DEF Sound
<1>. QED
  BY <1>2, <1>5

(* A step of the client disturbs what one of its pointers reaches at most.  *)
Disturbs(h, g, r, q, s) ==
  \A t \in Slots \ {s} : q[t] = r[t] /\ (r[t] # 0 => Keeps(h, g, Reach(h, r[t])))

LEMMA RootIsLive ==
  ASSUME NEW h, NEW r, NEW l, Sound(h, r, l), ~h.wild, NEW s \in Slots, r[s] # 0
  PROVE  r[s] \in Live(h) /\ r[s] \in RootsOf(r)
  BY SoundIsGood DEF RootsOf, Good, IsOwned

LEMMA OthersAreKept ==
  ASSUME NEW h, NEW r, NEW l, Sound(h, r, l), ~h.wild, NEW s \in Slots, r[s] # 0,
         NEW g, Keeps(h, g, Live(h) \ Reach(h, r[s]))
  PROVE  Disturbs(h, g, r, r, s)
<1>. SUFFICES ASSUME NEW t \in Slots \ {s}, r[t] # 0 PROVE Keeps(h, g, Reach(h, r[t]))
  BY DEF Disturbs
<1>1. PICK n : n = (l # {})
  OBVIOUS
<1>2. PICK L : L = RootsOf(r) \cup l
  OBVIOUS
<1>3. Good(h, L, n)
  BY <1>1, <1>2, SoundIsGood
<1>4. r[t] # r[s] /\ r[t] \in L /\ r[s] \in L
  BY <1>2 DEF Sound, IsPointing, RootsOf
<1>5. Reach(h, r[t]) \cap Reach(h, r[s]) = {}
  BY <1>3, <1>4, LooseAreApart
<1>6. Reach(h, r[t]) \subseteq Live(h)
  <2>1. r[t] \in Live(h)
    BY <1>3, <1>4 DEF Good, IsOwned
  <2>. QED
    BY <1>3, <2>1, GoodIsClosed, ReachIsClosure
<1>. QED
  BY <1>5, <1>6 DEF Keeps

LEMMA AllAreKept ==
  ASSUME NEW h, NEW r, NEW l, Sound(h, r, l), ~h.wild, NEW s \in Slots,
         NEW g, Keeps(h, g, Live(h)), NEW q, \A t \in Slots \ {s} : q[t] = r[t]
  PROVE  Disturbs(h, g, r, q, s)
<1>. SUFFICES ASSUME NEW t \in Slots \ {s}, r[t] # 0 PROVE Keeps(h, g, Reach(h, r[t]))
  BY DEF Disturbs
<1>1. Reach(h, r[t]) \subseteq Live(h)
  <2>1. r[t] \in Live(h)
    BY RootIsLive
  <2>. QED
    BY <2>1, SoundIsGood, GoodIsClosed, ReachIsClosure
<1>. QED
  BY <1>1 DEF Keeps

(* Where a step with a bad end leaves the heap: wild, but as it was. *)
LEMMA WildDisturbsNothing ==
  ASSUME NEW h, NEW r, NEW l, Sound(h, r, l), ~h.wild, l # {}, NEW s \in Slots,
         NEW g, g = Wild(h)
  PROVE  Sound(g, r, l) /\ Disturbs(h, g, r, r, s)
<1>1. Sound(g, r, l)
  BY WildIsSound
<1>2. g.objs = h.objs
  <2>1. ASSUME NEW a, NEW b, NEW v
        PROVE  [[objs |-> a, wild |-> b] EXCEPT !.wild = v].objs = a
    OBVIOUS
  <2>2. h = [objs |-> h.objs, wild |-> h.wild]
    BY DEF Sound
  <2>. QED
    BY <2>1, <2>2 DEF Wild
<1>3. Keeps(h, g, Live(h))
  BY <1>2 DEF Keeps, Live
<1>. QED
  BY <1>1, <1>3, AllAreKept

(* The heap after a call that gave g. *)
Outcome(h, g) == IF g.wild THEN Wild(h) ELSE g

IsStep(h, r, l, g, q, m) == Sound(g, q, m) /\ \E s \in Slots : Disturbs(h, g, r, q, s)

LEMMA OwnerOfHandle ==
  ASSUME NEW h, NEW r, NEW l, Sound(h, r, l), ~h.wild, NEW x, IsOutside(h, RootsOf(r), x)
  PROVE  \E s \in Slots : r[s] # 0 /\ Reach(h, x) \subseteq Reach(h, r[s])
<1>1. PICK s \in Slots : r[s] # 0 /\ x \in Reach(h, r[s])
  BY DEF IsOutside, RootsOf
<1>2. IsHeap(h) /\ IsClosed(h, Live(h)) /\ r[s] \in Live(h) /\ x \in Live(h)
  BY <1>1, SoundIsGood, GoodIsClosed, RootIsLive DEF IsOutside
<1>3. IsClosed(h, Reach(h, r[s]))
  BY <1>2, ReachIsClosure
<1>4. Reach(h, x) \subseteq Reach(h, r[s])
  BY <1>1, <1>2, <1>3, ReachIsClosure
<1>. QED
  BY <1>1, <1>4

(* A call that changes what is in reach of a handle x. *)
LEMMA ChangeIsStep ==
  ASSUME NEW h, NEW r, NEW l, Sound(h, r, l), ~h.wild, NEW x, IsOutside(h, RootsOf(r), x),
         NEW L, L = RootsOf(r) \cup l, NEW n, n = (l # {}),
         NEW g, GoneWild(g, n) \/ (Good(g, L, n) /\ Changes(h, g, x)),
         NEW e, e = Outcome(h, g)
  PROVE  IsStep(h, r, l, e, r, l)
<1>1. PICK s \in Slots : r[s] # 0 /\ Reach(h, x) \subseteq Reach(h, r[s])
  BY OwnerOfHandle
<1>2. CASE GoneWild(g, n)
  <2>1. e = Wild(h) /\ l # {}
    BY <1>2 DEF GoneWild, IsWild, Outcome
  <2>. QED
    BY <2>1, WildDisturbsNothing DEF IsStep
<1>3. CASE Good(g, L, n) /\ Changes(h, g, x)
  <2>1. e = g
    BY <1>3 DEF Good, Outcome
  <2>2. Sound(g, r, l)
    <3>1. RootsOf(r) \cap l = {} /\ IsPointing(r) /\ Good(g, RootsOf(r) \cup l, l # {})
      BY <1>3 DEF Sound
    <3>. QED
      BY <3>1, GoodIsSound
  <2>3. Keeps(h, g, Live(h) \ Reach(h, r[s]))
    BY <1>1, <1>3 DEF Changes, Keeps
  <2>4. Disturbs(h, g, r, r, s)
    BY <1>1, <2>3, OthersAreKept
  <2>. QED
    BY <2>1, <2>2, <2>4 DEF IsStep
<1>. QED
  BY <1>2, <1>3

(* One that makes a new object and holds it. *)
LEMMA HoldIsStep ==
  ASSUME NEW h, NEW r, NEW l, Sound(h, r, l), ~h.wild, NEW s \in Slots, r[s] = 0,
         NEW L, L = RootsOf(r) \cup l, NEW n, n = (l # {}),
         NEW c, \/ GoneWild(c.heap, n)
                \/ Good(c.heap, L \cup {c.ref}, n) /\ IsNew(h, c.heap, c.ref),
         NEW e, e = Outcome(h, c.heap),
         NEW q, q = IF c.heap.wild THEN r ELSE [r EXCEPT ![s] = c.ref]
  PROVE  IsStep(h, r, l, e, q, l)
<1>1. CASE GoneWild(c.heap, n)
  <2>1. e = Wild(h) /\ l # {} /\ q = r
    BY <1>1 DEF GoneWild, IsWild, Outcome
  <2>. QED
    BY <2>1, WildDisturbsNothing DEF IsStep
<1>2. CASE Good(c.heap, L \cup {c.ref}, n) /\ IsNew(h, c.heap, c.ref)
  <2>1. PICK g, y : g = c.heap /\ y = c.ref
    OBVIOUS
  <2>2. Good(g, L \cup {y}, n) /\ y \notin Live(h) /\ y \in Nat \ {0} /\ Keeps(h, g, Live(h))
    BY <1>2, <2>1 DEF IsNew, Good, IsHeap
  <2>3. e = g /\ q = [r EXCEPT ![s] = y]
    BY <1>2, <2>1 DEF Good, Outcome
  <2>4. r \in [Slots -> Nat] /\ L \subseteq Live(h) /\ RootsOf(r) \cap l = {}
        /\ \A t, u \in Slots : r[t] = r[u] /\ r[t] # 0 => t = u
    BY SoundIsGood DEF Sound, IsPointing, Good, IsOwned
  <2>5. q \in [Slots -> Nat] /\ q[s] = y /\ \A t \in Slots \ {s} : q[t] = r[t]
    BY <2>2, <2>3, <2>4
  <2>6. RootsOf(q) = RootsOf(r) \cup {y}
    <3>1. ASSUME NEW z \in RootsOf(q) PROVE z \in RootsOf(r) \cup {y}
      BY <2>5 DEF RootsOf
    <3>2. ASSUME NEW t \in Slots, r[t] # 0 PROVE r[t] \in RootsOf(q)
      <4>1. t # s /\ q[t] = r[t]
        BY <2>5, <3>2
      <4>. QED
        BY <3>2, <4>1 DEF RootsOf
    <3>3. y \in RootsOf(q)
      BY <2>2, <2>5 DEF RootsOf
    <3>. QED
      BY <3>1, <3>2, <3>3 DEF RootsOf
  <2>7. IsPointing(q)
    <3>. SUFFICES ASSUME NEW t \in Slots, NEW u \in Slots, q[t] = q[u], q[t] # 0 PROVE t = u
      BY <2>5 DEF IsPointing
    <3>1. ASSUME NEW v \in Slots, v # s PROVE q[v] # y
      BY <2>2, <2>4, <2>5, <3>1 DEF RootsOf
    <3>. QED
      BY <2>4, <2>5, <3>1
  <2>8. RootsOf(q) \cup l = L \cup {y} /\ RootsOf(q) \cap l = {}
    BY <2>2, <2>4, <2>6
  <2>9. Good(g, RootsOf(q) \cup l, l # {})
    BY <2>2, <2>8
  <2>10. Sound(g, q, l)
    BY <2>7, <2>8, <2>9, GoodIsSound
  <2>11. Disturbs(h, g, r, q, s)
    BY <2>2, <2>5, AllAreKept
  <2>. QED
    BY <2>3, <2>10, <2>11 DEF IsStep
<1>. QED
  BY <1>1, <1>2

(* One that releases what a pointer refers to. *)
LEMMA DropIsStep ==
  ASSUME NEW h, NEW r, NEW l, Sound(h, r, l), ~h.wild, NEW s \in Slots, r[s] # 0,
         NEW g, g = Release(h, r[s]), NEW e, e = Outcome(h, g), NEW q, q = [r EXCEPT ![s] = 0]
  PROVE  IsStep(h, r, l, e, q, l)
<1>1. PICK L, n, y : L = RootsOf(r) \cup l /\ n = (l # {}) /\ y = r[s]
  OBVIOUS
<1>2. Good(h, L, n) /\ y \in L /\ y \in RootsOf(r) /\ y \in Live(h) /\ y # 0
  BY <1>1, SoundIsGood, RootIsLive
<1>3. g = Free(h, Reach(h, y))
  BY <1>1, <1>2, ReleaseFrees
<1>4. /\ Good(g, L \ {y}, n) /\ Live(g) = Live(h) \ Reach(h, y)
      /\ \A x \in Live(g) : g.objs[x] = h.objs[x]
  <2>1. IsFreed(h, L, n, y, g)
    BY <1>2, <1>3, Freed
  <2>. QED
    BY <2>1 DEF IsFreed
<1>5. e = g
  BY <1>4 DEF Good, Outcome
<1>6. r \in [Slots -> Nat] /\ RootsOf(r) \cap l = {}
      /\ \A t, u \in Slots : r[t] = r[u] /\ r[t] # 0 => t = u
  BY DEF Sound, IsPointing
<1>7. q \in [Slots -> Nat] /\ q[s] = 0 /\ \A t \in Slots \ {s} : q[t] = r[t]
  BY <1>6
<1>8. RootsOf(q) = RootsOf(r) \ {y}
  <2>1. ASSUME NEW z \in RootsOf(q) PROVE z \in RootsOf(r) \ {y}
    BY <1>1, <1>6, <1>7 DEF RootsOf
  <2>2. ASSUME NEW t \in Slots, r[t] # 0, r[t] # y PROVE r[t] \in RootsOf(q)
    <3>1. t # s /\ q[t] = r[t]
      BY <1>1, <1>7, <2>2
    <3>. QED
      BY <2>2, <3>1 DEF RootsOf
  <2>. QED
    BY <2>1, <2>2 DEF RootsOf
<1>9. IsPointing(q)
  BY <1>6, <1>7 DEF IsPointing
<1>10. RootsOf(q) \cup l = L \ {y} /\ RootsOf(q) \cap l = {}
  BY <1>1, <1>2, <1>6, <1>8
<1>11. Sound(g, q, l)
  <2>1. Good(g, RootsOf(q) \cup l, l # {})
    BY <1>1, <1>4, <1>10
  <2>. QED
    BY <1>9, <1>10, <2>1, GoodIsSound
<1>12. Disturbs(h, g, r, q, s)
  <2>1. Keeps(h, g, Live(h) \ Reach(h, r[s]))
    BY <1>1, <1>4 DEF Keeps
  <2>2. Disturbs(h, g, r, r, s)
    BY <2>1, OthersAreKept
  <2>. QED
    BY <1>7, <2>2 DEF Disturbs
<1>. QED
  BY <1>5, <1>11, <1>12 DEF IsStep

(* One that adds to a map. *)
LEMMA PutIsStep ==
  ASSUME NEW h, NEW r, NEW l, Sound(h, r, l), ~h.wild, NEW x, IsOutside(h, RootsOf(r), x),
         NEW L, L = RootsOf(r) \cup l, NEW n, n = (l # {}), NEW g, Put(h, L, n, x, g),
         NEW e, e = Outcome(h, g), NEW m, m = l \cup LeftBehind(h, g, x)
  PROVE  IsStep(h, r, l, e, r, m)
<1>1. PICK s \in Slots : r[s] # 0 /\ Reach(h, x) \subseteq Reach(h, r[s])
  BY OwnerOfHandle
<1>2. CASE GoneWild(g, n)
  <2>1. e = Wild(h) /\ l # {} /\ m = l
    BY <1>2 DEF GoneWild, IsWild, Outcome, LeftBehind
  <2>. QED
    BY <2>1, WildDisturbsNothing DEF IsStep
<1>3. ASSUME NEW D, IsPut(h, L, n, x, g, D) PROVE IsStep(h, r, l, e, r, m)
  <2>1. /\ Good(g, L \cup D, n \/ D # {}) /\ D \subseteq Kids(h, x)
        /\ Keeps(h, g, Live(h) \ Reach(h, x)) /\ m = l \cup D
    BY <1>3 DEF IsPut
  <2>2. e = g
    BY <2>1 DEF Good, Outcome
  <2>3. D \cap L = {}
    <3>1. Good(h, L, n) /\ x \in Live(h)
      BY SoundIsGood DEF IsOutside
    <3>. QED
      BY <2>1, <3>1 DEF Good, IsOwned, Refers
  <2>4. L \cup D = RootsOf(r) \cup m /\ RootsOf(r) \cap m = {} /\ IsPointing(r)
    BY <2>1, <2>3 DEF Sound
  <2>5. (n \/ D # {}) => m # {}
    BY <2>1
  <2>6. Good(g, RootsOf(r) \cup m, m # {})
    <3>1. PICK v, w : v = (n \/ D # {}) /\ w = (m # {})
      OBVIOUS
    <3>2. Good(g, RootsOf(r) \cup m, v) /\ (v => w)
      BY <2>1, <2>4, <2>5, <3>1
    <3>3. Good(g, RootsOf(r) \cup m, w)
      BY <3>2, MoreNulls
    <3>. QED
      BY <3>1, <3>3
  <2>7. Sound(g, r, m)
    BY <2>4, <2>6, GoodIsSound
  <2>8. Keeps(h, g, Live(h) \ Reach(h, r[s]))
    BY <1>1, <2>1 DEF Keeps
  <2>9. Disturbs(h, g, r, r, s)
    BY <1>1, <2>8, OthersAreKept
  <2>. QED
    BY <2>2, <2>7, <2>9 DEF IsStep
<1>. QED
  BY <1>2, <1>3 DEF Put

-----------------------------------------------------------------------------
(* The actions of the client are such steps. *)
LEMMA RootsAre == Roots = RootsOf(root)
  BY DEF Roots, RootsOf, NULL

LEMMA HandlesAreOutside ==
  ASSUME IInv, ~heap.wild, NEW x \in Handles
  PROVE  IsOutside(heap, RootsOf(root), x)
<1>1. PICK R, L, n : R = RootsOf(root) /\ L = R \cup lost /\ n = (lost # {})
  OBVIOUS
<1>2. Good(heap, L, n)
  BY <1>1, SoundIsGood DEF IInv
<1>3. R \subseteq L /\ L \subseteq Live(heap)
  BY <1>1, <1>2 DEF Good, IsOwned
<1>4. IsHandle(heap, R, x)
  <2>1. CASE x \in Roots
    BY <1>1, <2>1, RootsAre DEF IsHandle
  <2>2. ASSUME NEW r \in Roots, x \in Inside(r) PROVE IsHandle(heap, R, x)
    <3>1. r \in R /\ r \in Live(heap)
      BY <1>1, <1>3, RootsAre
    <3>2. heap.objs[r].type = "tuple" /\ x \in ToSet(heap.objs[r].kids)
      BY <2>2 DEF Inside
    <3>3. x \in Kids(heap, r)
      <4>1. IsShaped(heap, r, n) /\ IsHeap(heap)
        BY <1>2, <3>1 DEF Good
      <4>2. PICK k \in Seq(Nat) : k = heap.objs[r].kids
        BY <3>1, <4>1 DEF IsHeap, IsObject
      <4>3. PICK i \in 1 .. Len(k) : x = k[i]
        BY <3>2, <4>2 DEF ToSet
      <4>4. k[i] # 0
        BY <3>2, <4>1, <4>2 DEF IsShaped, HasNull
      <4>5. Kids(heap, r) = InSlots(k) \ {0}
        BY <3>1, <4>1, <4>2, KidsAreInSlots
      <4>. QED
        BY <4>3, <4>4, <4>5 DEF InSlots
    <3>. QED
      BY <3>1, <3>2, <3>3 DEF IsHandle
  <2>. QED
    BY <2>1, <2>2 DEF Handles
<1>. QED
  BY <1>1, <1>2, <1>3, <1>4, HandleIsOutside

KeepsHeap == IsStep(heap, root, lost, heap', root', lost') /\ client' = client

LEMMA BecomeIs ==
  ASSUME NEW h, Become(h)
  PROVE  ~heap.wild /\ heap' = Outcome(heap, h)
  BY DEF Become, Outcome

LEMMA HoldSteps ==
  ASSUME IInv, NEW s \in Slots, root[s] = NULL, NEW c, Hold(s, c),
         NEW L, L = RootsOf(root) \cup lost, NEW n, n = (lost # {}),
         \/ GoneWild(c.heap, n)
         \/ Good(c.heap, L \cup {c.ref}, n) /\ IsNew(heap, c.heap, c.ref)
  PROVE  KeepsHeap
<1>1. PICK g : g = c.heap
  OBVIOUS
<1>2. Become(g)
  BY <1>1 DEF Hold
<1>3. ~heap.wild /\ heap' = Outcome(heap, g)
  BY <1>2, BecomeIs
<1>4. /\ root[s] = 0 /\ Sound(heap, root, lost)
      /\ root' = IF c.heap.wild THEN root ELSE [root EXCEPT ![s] = c.ref]
      /\ lost' = lost /\ client' = client
  BY DEF Hold, IInv, NULL
<1>5. IsStep(heap, root, lost, heap', root', lost)
  BY <1>1, <1>3, <1>4, HoldIsStep
<1>. QED
  BY <1>4, <1>5 DEF KeepsHeap

LEMMA ChangeSteps ==
  ASSUME IInv, NEW x \in Handles, NEW g, Change(g),
         NEW L, L = RootsOf(root) \cup lost, NEW n, n = (lost # {}),
         GoneWild(g, n) \/ (Good(g, L, n) /\ Changes(heap, g, x))
  PROVE  KeepsHeap
<1>1. Become(g) /\ root' = root /\ lost' = lost /\ client' = client
  BY DEF Change
<1>2. ~heap.wild /\ heap' = Outcome(heap, g)
  BY <1>1, BecomeIs
<1>3. IsOutside(heap, RootsOf(root), x) /\ Sound(heap, root, lost)
  BY <1>2, HandlesAreOutside DEF IInv
<1>4. IsStep(heap, root, lost, heap', root, lost)
  BY <1>2, <1>3, ChangeIsStep
<1>. QED
  BY <1>1, <1>4 DEF KeepsHeap

LEMMA PutSteps ==
  ASSUME IInv, NEW x \in Handles, NEW g, MapPut(x, g),
         NEW L, L = RootsOf(root) \cup lost, NEW n, n = (lost # {}), Put(heap, L, n, x, g)
  PROVE  KeepsHeap
<1>1. /\ Become(g) /\ root' = root /\ client' = client
      /\ lost' = lost \cup LeftBehind(heap, g, x)
  BY DEF MapPut
<1>2. ~heap.wild /\ heap' = Outcome(heap, g)
  BY <1>1, BecomeIs
<1>3. IsOutside(heap, RootsOf(root), x) /\ Sound(heap, root, lost)
  BY <1>2, HandlesAreOutside DEF IInv
<1>4. IsStep(heap, root, lost, heap', root, lost')
  BY <1>1, <1>2, <1>3, PutIsStep
<1>. QED
  BY <1>1, <1>4 DEF KeepsHeap

LEMMA NextSteps ==
  ASSUME IInv, Next
  PROVE  KeepsHeap
<1>. USE DEF IInv
<1>1. PICK L, n : L = RootsOf(root) \cup lost /\ n = (lost # {})
  OBVIOUS
<1>2. ASSUME ~heap.wild
      PROVE  /\ Good(heap, L, n)
             /\ \A x \in Handles : x \in Live(heap) /\ IsOutside(heap, RootsOf(root), x)
  BY <1>1, <1>2, SoundIsGood, HandlesAreOutside DEF IsOutside
<1>3. ASSUME NEW s \in Slots, NEW type \in client.types, Create(s, type) PROVE KeepsHeap
  <2>1. PICK c : c = Make(heap, type)
    OBVIOUS
  <2>2. root[s] = NULL /\ Hold(s, c)
    BY <1>3, <2>1 DEF Create
  <2>3. ~heap.wild
    BY <2>2 DEF Hold, Become
  <2>4. type \in DOMAIN jstype
    BY ClientsAssumption
  <2>5. Good(c.heap, L \cup {c.ref}, n) /\ IsNew(heap, c.heap, c.ref)
    BY <1>2, <2>1, <2>3, <2>4, Made
  <2>. QED
    BY <1>1, <2>2, <2>5, HoldSteps
<1>4. ASSUME NEW s \in Slots, NEW type \in client.types \cap {"int", "string"}, NEW v \in Values,
             CreateValue(s, type, v)
      PROVE  KeepsHeap
  <2>1. PICK c : c = MakeScalar(heap, type, v)
    OBVIOUS
  <2>2. root[s] = NULL /\ Hold(s, c)
    BY <1>4, <2>1 DEF CreateValue
  <2>3. ~heap.wild
    BY <2>2 DEF Hold, Become
  <2>4. type \in Scalars
    BY DEF Scalars
  <2>5. Good(c.heap, L \cup {c.ref}, n) /\ IsNew(heap, c.heap, c.ref)
    BY <1>2, <2>1, <2>3, <2>4, ScalarMade DEF IsMade
  <2>. QED
    BY <1>1, <2>2, <2>5, HoldSteps
<1>5. ASSUME NEW s \in Slots, NEW r \in Handles, Copy(s, r) PROVE KeepsHeap
  <2>1. PICK c : c = Clone(heap, r)
    OBVIOUS
  <2>2. root[s] = NULL /\ Hold(s, c)
    BY <1>5, <2>1 DEF Copy
  <2>3. ~heap.wild
    BY <2>2 DEF Hold, Become
  <2>4. \/ GoneWild(c.heap, n)
        \/ Good(c.heap, L \cup {c.ref}, n) /\ IsNew(heap, c.heap, c.ref)
    BY <1>2, <2>1, <2>3, ClonedIsNew
  <2>. QED
    BY <1>1, <2>2, <2>4, HoldSteps
<1>6. ASSUME NEW s \in Slots, Drop(s) PROVE KeepsHeap
  <2>1. PICK g : g = Release(heap, root[s])
    OBVIOUS
  <2>2. root[s] # 0 /\ Become(g) /\ root' = [root EXCEPT ![s] = 0] /\ lost' = lost /\ client' = client
    BY <1>6, <2>1 DEF Drop, NULL
  <2>3. ~heap.wild /\ heap' = Outcome(heap, g)
    BY <2>2, BecomeIs
  <2>4. IsStep(heap, root, lost, heap', root', lost)
    BY <2>1, <2>2, <2>3, DropIsStep
  <2>. QED
    BY <2>2, <2>4 DEF KeepsHeap
<1>7. ASSUME NEW v \in Handles, NEW late \in BOOLEAN, NEW a \in HandlesTo("array"), ArrayAdd(a, v, late)
      PROVE  KeepsHeap
  <2>1. PICK g : g = AddObject(heap, a, v, late)
    OBVIOUS
  <2>2. Change(g) /\ a \in Handles /\ heap.objs[a].type = "array"
    BY <1>7, <2>1 DEF ArrayAdd, HandlesTo
  <2>3. ~heap.wild
    BY <2>2 DEF Change, Become
  <2>4. StaysGood(heap, g, L, n, a)
    BY <1>2, <2>1, <2>2, <2>3, AddedObject
  <2>5. a \in Reach(heap, a)
    BY <1>2, <2>2, <2>3, GoodIsClosed, ReachIsClosure
  <2>6. GoneWild(g, n) \/ (Good(g, L, n) /\ Changes(heap, g, a))
    BY <2>4, <2>5 DEF StaysGood, Changes, Keeps, IsA
  <2>. QED
    BY <1>1, <2>2, <2>6, ChangeSteps
<1>8. ASSUME NEW v \in Handles, NEW late \in BOOLEAN, NEW r \in HandlesTo("rt"), RuntimeAdd(r, v, late)
      PROVE  KeepsHeap
  <2>1. PICK g : g = AddCodeSegment(heap, r, v, late)
    OBVIOUS
  <2>2. Change(g) /\ r \in Handles /\ heap.objs[r].type = "rt"
    BY <1>8, <2>1 DEF RuntimeAdd, HandlesTo
  <2>3. ~heap.wild
    BY <2>2 DEF Change, Become
  <2>4. GoneWild(g, n) \/ (Good(g, L, n) /\ Changes(heap, g, r))
    BY <1>2, <2>1, <2>2, <2>3, ClientAddsCode
  <2>. QED
    BY <1>1, <2>2, <2>4, ChangeSteps
<1>9. ASSUME NEW v \in Handles, NEW t \in HandlesTo("tuple"), NEW i \in 0 .. MaxIndex, TupleSet(t, i, v)
      PROVE  KeepsHeap
  <2>1. PICK g : g = SetObject(heap, t, i, v)
    OBVIOUS
  <2>2. Change(g) /\ t \in Handles /\ heap.objs[t].type = "tuple"
    BY <1>9, <2>1 DEF TupleSet, HandlesTo
  <2>3. ~heap.wild
    BY <2>2 DEF Change, Become
  <2>4. i \in Nat
    BY ClientsAssumption
  <2>5. t \in Live(heap) /\ ~InMap(heap, t) /\ v \in Live(heap) /\ Good(heap, L, n)
    BY <1>2, <2>2, <2>3 DEF IsOutside
  <2>6. GoneWild(g, n) \/ (Good(g, L, n) /\ IsSet(heap, g, t, i))
    BY <2>1, <2>2, <2>4, <2>5, ObjectSet
  <2>7. GoneWild(g, n) \/ (Good(g, L, n) /\ Changes(heap, g, t))
    BY <2>6 DEF IsSet
  <2>. QED
    BY <1>1, <2>2, <2>7, ChangeSteps
<1>10. ASSUME NEW v \in Handles, NEW m \in HandlesTo("map"), NEW k \in Handles, MapAddPair(m, k, v)
       PROVE  KeepsHeap
  <2>1. PICK g : g = AddPair(heap, m, k, v)
    OBVIOUS
  <2>2. MapPut(m, g) /\ m \in Handles /\ heap.objs[m].type = "map"
    BY <1>10, <2>1 DEF MapAddPair, HandlesTo
  <2>3. ~heap.wild
    BY <2>2 DEF MapPut, Become
  <2>4. PICK R : R = RootsOf(root)
    OBVIOUS
  <2>5. Good(heap, L, n) /\ IsOutside(heap, R, m) /\ IsOutside(heap, R, k) /\ IsOutside(heap, R, v)
    BY <1>2, <2>2, <2>3, <2>4
  <2>6. Put(heap, L, n, m, g)
    BY <2>1, <2>2, <2>5, ClientAddsPair
  <2>. QED
    BY <1>1, <2>2, <2>6, PutSteps
<1>11. ASSUME NEW m \in HandlesTo("map"), NEW t \in HandlesTo("tuple"), MapAddTuple(m, t)
       PROVE  KeepsHeap
  <2>1. PICK g : g = AddTuple(heap, m, t)
    OBVIOUS
  <2>2. /\ MapPut(m, g) /\ m \in Handles /\ heap.objs[m].type = "map"
        /\ t \in Handles /\ heap.objs[t].type = "tuple" /\ Len(heap.objs[t].kids) = 2
    BY <1>11, <2>1 DEF MapAddTuple, HandlesTo
  <2>3. ~heap.wild
    BY <2>2 DEF MapPut, Become
  <2>4. PICK R : R = RootsOf(root)
    OBVIOUS
  <2>5. Good(heap, L, n) /\ IsOutside(heap, R, m) /\ IsOutside(heap, R, t)
    BY <1>2, <2>2, <2>3, <2>4
  <2>6. Put(heap, L, n, m, g)
    BY <2>1, <2>2, <2>5, ClientAddsTuple
  <2>. QED
    BY <1>1, <2>2, <2>6, PutSteps
<1>. QED
  BY <1>3, <1>4, <1>5, <1>6, <1>7, <1>8, <1>9, <1>10, <1>11 DEF Next

-----------------------------------------------------------------------------
(* The theorems. *)
LEMMA EmptyIsSound ==
  ASSUME NEW r, r = [s \in Slots |-> NULL]
  PROVE  Sound(EmptyHeap, r, {})
<1>1. PICK h : h = EmptyHeap
  OBVIOUS
<1>2. PICK F : F = [x \in {} |-> NULL]
  OBVIOUS
<1>3. h = [objs |-> F, wild |-> FALSE] /\ h.objs = F /\ h.wild = FALSE
  BY <1>1, <1>2 DEF EmptyHeap
<1>4. Live(h) = {}
  BY <1>2, <1>3 DEF Live
<1>5. RootsOf(r) = {} /\ IsPointing(r)
  BY DEF RootsOf, IsPointing, NULL
<1>6. IsHeap(h)
  <2>1. h = [objs |-> h.objs, wild |-> h.wild]
    BY <1>3
  <2>2. h.objs = [x \in Live(h) |-> h.objs[x]]
    BY <1>2, <1>3, <1>4
  <2>3. IsFiniteSet({})
    BY FS_EmptySet
  <2>. QED
    BY <1>4, <2>1, <2>2, <2>3 DEF IsHeap
<1>7. IsOwned(h, {})
  BY <1>4 DEF IsOwned, Refers, Separate, Rooted
<1>8. Good(h, {}, {} # {})
  BY <1>3, <1>4, <1>6, <1>7 DEF Good
<1>9. Sound(h, r, {})
  <2>1. RootsOf(r) \cup {} = {} /\ RootsOf(r) \cap {} = {}
    BY <1>5
  <2>2. Good(h, RootsOf(r) \cup {}, {} # {})
    BY <1>8, <2>1
  <2>. QED
    BY <1>5, <2>1, <2>2, GoodIsSound
<1>. QED
  BY <1>1, <1>9

LEMMA InitIsSound ==
  ASSUME Init
  PROVE  IInv
  BY EmptyIsSound DEF Init, IInv

LEMMA NextKeepsSound ==
  ASSUME IInv, [Next]_vars
  PROVE  IInv'
<1>1. CASE Next
  BY <1>1, NextSteps DEF KeepsHeap, IsStep, IInv
<1>2. CASE UNCHANGED vars
  BY <1>2 DEF vars, IInv
<1>. QED
  BY <1>1, <1>2

LEMMA InvariantHolds == Spec => []IInv
<1>1. Init => IInv
  BY InitIsSound
<1>2. IInv /\ [Next]_vars => IInv'
  BY NextKeepsSound
<1>. QED
  BY <1>1, <1>2, PTL DEF Spec

(* Every object has the shape that its type promises, whatever is called:   *)
(* arrays and maps never more parts than space, pairs two slots, a runtime  *)
(* its array of code.                                                       *)
THEOREM ObjectsAreWellFormed == Spec => []TypeOK
<1>1. IInv => TypeOK
  <2>. SUFFICES ASSUME IInv PROVE TypeOK
    OBVIOUS
  <2>1. PICK g, L, n : g = Calm(heap) /\ L = RootsOf(root) \cup lost /\ n = (lost # {})
    OBVIOUS
  <2>2. Good(g, L, n) /\ heap.wild \in BOOLEAN
    BY <2>1 DEF IInv, Sound
  <2>3. Live(g) = Live(heap) /\ g.objs = heap.objs /\ \A r : Kids(g, r) = Kids(heap, r)
    BY <2>1, CalmIs
  <2>4. Roots \subseteq Live(heap)
    BY <2>1, <2>2, <2>3, RootsAre DEF Good, IsOwned
  <2>5. ASSUME NEW r \in Live(heap)
        PROVE  heap.objs[r].type \in DOMAIN jstype /\ WellFormed(heap.objs[r])
    <3>1. IsShaped(g, r, n) /\ IsObject(heap.objs[r]) /\ IsHeap(g)
      BY <2>2, <2>3, <2>5 DEF Good, IsHeap
    <3>2. PICK o : o = heap.objs[r]
      OBVIOUS
    <3>3. o.type \in DOMAIN jstype
      BY <3>1, <3>2 DEF IsObject
    <3>4. o.type \in Scalars => o.kids = <<>>
      BY <2>3, <3>1, <3>2 DEF IsShaped
    <3>5. o.type \in {"array", "map"} => Len(o.kids) <= o.capacity
      BY <2>3, <3>1, <3>2 DEF IsShaped
    <3>6. o.type = "rt" => Len(o.kids) = 1 /\ IsA(heap, o.kids[1], "array")
      BY <2>3, <3>1, <3>2 DEF IsShaped, IsA
    <3>7. o.type = "map" => \A k \in ToSet(o.kids) \ {NULL} :
                              IsA(heap, k, "tuple") /\ Len(heap.objs[k].kids) = 2
      <4>. SUFFICES ASSUME o.type = "map", NEW k \in ToSet(o.kids) \ {NULL}
                    PROVE  IsA(heap, k, "tuple") /\ Len(heap.objs[k].kids) = 2
        OBVIOUS
      <4>1. k \in Kids(heap, r)
        BY <2>5, <3>2 DEF Kids
      <4>2. IsPair(g, k)
        BY <2>3, <3>1, <3>2, <4>1 DEF IsShaped
      <4>. QED
        BY <2>3, <4>2 DEF IsPair, IsA
    <3>8. WellFormed(o)
      BY <3>4, <3>5, <3>6, <3>7 DEF WellFormed
    <3>. QED
      BY <3>2, <3>3, <3>8
  <2>. QED
    BY <2>2, <2>4, <2>5 DEF TypeOK
<1>. QED
  BY <1>1, InvariantHolds, PTL

(* Every live object has exactly one owner and every slot refers to a live  *)
(* object, whatever the client calls and in whatever order; the pair that a *)
(* growing map leaves behind, and the null in its place, is the only        *)
(* exception, and nothing undefined happens before there is one.            *)
THEOREM ObjectsHaveOneOwner == Spec => []OneOwner
<1>1. IInv => OneOwner
  <2>. SUFFICES ASSUME IInv, ~heap.wild PROVE OneOwner
    BY DEF IInv, Sound, OneOwner
  <2>1. PICK L, n : L = RootsOf(root) \cup lost /\ n = (lost # {})
    OBVIOUS
  <2>2. Good(heap, L, n) /\ Roots = RootsOf(root)
    BY <2>1, SoundIsGood, RootsAre DEF IInv
  <2>3. OwnedBy(heap, Roots \cup lost)
    BY <2>1, <2>2, GoodIsOwnedBy
  <2>4. Roots \cap lost = {} /\ \A s, t \in Slots : root[s] = root[t] /\ root[s] # NULL => s = t
    BY <2>2 DEF IInv, Sound, IsPointing, NULL
  <2>5. ASSUME NEW r \in Live(heap), NULL \in ToSet(heap.objs[r].kids)
        PROVE  heap.objs[r].type = "map" /\ lost # {}
    <3>1. IsShaped(heap, r, n) /\ IsObject(heap.objs[r])
      BY <2>2, <2>5 DEF Good, IsHeap
    <3>2. PICK k \in Seq(Nat) : k = heap.objs[r].kids
      BY <3>1 DEF IsObject
    <3>3. PICK i \in 1 .. Len(k) : k[i] = 0
      BY <2>5, <3>2 DEF ToSet, NULL
    <3>4. HasNull(heap, r)
      BY <3>2, <3>3 DEF HasNull
    <3>. QED
      BY <2>1, <3>1, <3>4 DEF IsShaped
  <2>. QED
    BY <2>3, <2>4, <2>5 DEF OneOwner
<1>. QED
  BY <1>1, InvariantHolds, PTL

(* What is kept in the reach of a root is all that the root owns. *)
LEMMA OwnedIsKept ==
  ASSUME NEW h, IsHeap(h), IsClosed(h, Live(h)), NEW g, IsHeap(g), IsClosed(g, Live(g)),
         NEW r \in Live(h), Keeps(h, g, Reach(h, r))
  PROVE  Owned(g, r) = Owned(h, r)
<1>1. PICK R, P : R = Reach(h, r) /\ P = Reach(g, r)
  OBVIOUS
<1>2. r \in R /\ IsClosed(h, R) /\ R \subseteq Live(h)
  BY <1>1, ReachIsClosure
<1>3. \A x \in R : x \in Live(g) /\ g.objs[x] = h.objs[x]
  BY <1>1 DEF Keeps
<1>4. r \in Live(g) /\ \A x \in R : Kids(g, x) = Kids(h, x)
  BY <1>2, <1>3 DEF Kids
<1>5. r \in P /\ IsClosed(g, P) /\ P \subseteq Live(g)
  BY <1>1, <1>4, ReachIsClosure
<1>6. P \subseteq R
  <2>1. IsClosed(g, R)
    BY <1>2, <1>4 DEF IsClosed
  <2>. QED
    BY <1>1, <1>2, <1>4, <2>1, ReachIsClosure
<1>7. R \subseteq P
  <2>1. IsClosed(h, P)
    BY <1>4, <1>5, <1>6 DEF IsClosed
  <2>. QED
    BY <1>1, <1>5, <2>1, ReachIsClosure
<1>8. R = P /\ Live(h) \cap R = R /\ Live(g) \cap P = R
  BY <1>2, <1>5, <1>6, <1>7
<1>9. Owned(h, r) = [x \in R |-> h.objs[x]] /\ Owned(g, r) = [x \in R |-> g.objs[x]]
  BY <1>1, <1>8 DEF Owned
<1>. QED
  BY <1>3, <1>9

LEMMA SoundIsHeap ==
  ASSUME NEW h, NEW r, NEW l, Sound(h, r, l)
  PROVE  IsHeap(h) /\ IsClosed(h, Live(h)) /\ RootsOf(r) \subseteq Live(h)
<1>1. PICK g : g = Calm(h)
  OBVIOUS
<1>2. /\ g.objs = h.objs /\ Live(g) = Live(h) /\ (\A x : Kids(g, x) = Kids(h, x))
      /\ h = [objs |-> h.objs, wild |-> h.wild]
  BY <1>1, CalmIs DEF Sound
<1>3. IsHeap(g) /\ IsClosed(g, Live(g)) /\ RootsOf(r) \subseteq Live(g)
  BY <1>1, GoodIsClosed DEF Sound, Good, IsOwned
<1>4. IsHeap(h)
  BY <1>2, <1>3 DEF IsHeap
<1>. QED
  BY <1>2, <1>3, <1>4 DEF IsClosed

(* One call changes what is in the reach of at most one pointer of the      *)
(* client: every copy is deep, nothing is shared by two owners.             *)
THEOREM CallsAreIndependent == Spec => Independent
<1>1. IInv /\ [Next]_vars => [Cardinality({s \in Slots : Changed(s)}) <= 1]_vars
  <2>. SUFFICES ASSUME IInv, Next PROVE Cardinality({s \in Slots : Changed(s)}) <= 1
    OBVIOUS
  <2>1. KeepsHeap
    BY NextSteps
  <2>2. PICK s \in Slots : Disturbs(heap, heap', root, root', s)
    BY <2>1 DEF KeepsHeap, IsStep
  <2>3. IsHeap(heap) /\ IsClosed(heap, Live(heap)) /\ RootsOf(root) \subseteq Live(heap)
    BY SoundIsHeap DEF IInv
  <2>4. IsHeap(heap') /\ IsClosed(heap', Live(heap'))
    BY <2>1, SoundIsHeap DEF KeepsHeap, IsStep
  <2>5. ASSUME NEW t \in Slots \ {s} PROVE ~Changed(t)
    <3>1. root'[t] = root[t]
      BY <2>2 DEF Disturbs
    <3>2. ASSUME root[t] # 0 PROVE Owned(heap', root[t]) = Owned(heap, root[t])
      <4>1. root[t] \in Live(heap)
        BY <2>3, <3>2 DEF RootsOf
      <4>2. Keeps(heap, heap', Reach(heap, root[t]))
        BY <2>2, <3>2 DEF Disturbs
      <4>. QED
        BY <2>3, <2>4, <4>1, <4>2, OwnedIsKept
    <3>. QED
      BY <3>1, <3>2 DEF Changed, NULL
  <2>6. PICK C : C = {t \in Slots : Changed(t)}
    OBVIOUS
  <2>7. C \subseteq {s}
    BY <2>5, <2>6
  <2>8. IsFiniteSet({s}) /\ Cardinality({s}) = 1
    BY FS_Singleton
  <2>9. IsFiniteSet(C) /\ Cardinality(C) <= 1
    BY <2>7, <2>8, FS_Subset
  <2>. QED
    BY <2>6, <2>9
<1>. QED
  BY <1>1, InvariantHolds, PTL DEF Spec, Independent

=============================================================================
