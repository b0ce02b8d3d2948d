---------------------------- MODULE MgnMemProofs ----------------------------
(***************************************************************************)
(* Proofs about the managed memory of module MgnMem, for any number of     *)
(* owners and addresses: the retained count of a block is the number of    *)
(* its ownerships, and a block is in the pool until it is freed.           *)
(***************************************************************************)
EXTENDS MgnMem, FiniteSetTheorems, TLAPS

(* The inductive invariant: a count is right only if nobody owns what the   *)
(* allocator hands out next, which needs the pool to hold all that is out.  *)
IInv == TypeOK /\ CountIsOwnership /\ NothingLost

Holdings == [Owners -> [Addresses -> Nat]]

Count(h, a) == Cardinality(Ownerships(h, a))

-----------------------------------------------------------------------------
(* Ownerships one by one. *)
LEMMA OwnershipOf ==
  ASSUME NEW h \in Holdings, NEW a \in Addresses, NEW x
  PROVE  x \in Ownerships(h, a) <=> \E o \in Owners : \E i \in 1 .. h[o][a] : x = <<o, i>>
BY DEF Ownerships

(* The ownerships g of an address differ from the ownerships h by one that  *)
(* o has taken.                                                             *)
OneTaken(h, g, o, a) ==
  /\ g[o][a] = h[o][a] + 1
  /\ \A p \in Owners, b \in Addresses : (p # o \/ b # a) => g[p][b] = h[p][b]

LEMMA OneMore ==
  ASSUME NEW h \in Holdings, NEW g \in Holdings, NEW o \in Owners, NEW a \in Addresses,
         OneTaken(h, g, o, a)
  PROVE  /\ Ownerships(g, a) = Ownerships(h, a) \cup {<<o, h[o][a] + 1>>}
         /\ <<o, h[o][a] + 1>> \notin Ownerships(h, a)
<1>1. h[o][a] \in Nat /\ g[o][a] = h[o][a] + 1
  BY DEF Holdings, OneTaken
<1>2. \A p \in Owners, b \in Addresses : (p # o \/ b # a) => g[p][b] = h[p][b]
  BY DEF OneTaken
<1>3. <<o, h[o][a] + 1>> \notin Ownerships(h, a)
  BY <1>1, OwnershipOf
<1>4. ASSUME NEW x, x \in Ownerships(g, a)
      PROVE  x \in Ownerships(h, a) \cup {<<o, h[o][a] + 1>>}
  <2>1. PICK p \in Owners : \E i \in 1 .. g[p][a] : x = <<p, i>>
    BY <1>4, OwnershipOf
  <2>2. PICK i \in 1 .. g[p][a] : x = <<p, i>>
    BY <2>1
  <2>3. CASE p = o /\ i = h[o][a] + 1
    BY <2>2, <2>3
  <2>4. CASE ~(p = o /\ i = h[o][a] + 1)
    <3>1. i \in 1 .. h[p][a]
      BY <1>1, <1>2, <2>2, <2>4
    <3>. QED
      BY <2>2, <3>1, OwnershipOf
  <2>. QED
    BY <2>3, <2>4
<1>5. ASSUME NEW x, x \in Ownerships(h, a) PROVE x \in Ownerships(g, a)
  <2>1. PICK p \in Owners : \E i \in 1 .. h[p][a] : x = <<p, i>>
    BY <1>5, OwnershipOf
  <2>2. PICK i \in 1 .. h[p][a] : x = <<p, i>>
    BY <2>1
  <2>3. i \in 1 .. g[p][a]
    BY <1>1, <1>2, <2>2
  <2>. QED
    BY <2>2, <2>3, OwnershipOf
<1>6. <<o, h[o][a] + 1>> \in Ownerships(g, a)
  <2>1. h[o][a] + 1 \in 1 .. g[o][a]
    BY <1>1
  <2>. QED
    BY <2>1, OwnershipOf
<1>. QED
  BY <1>3, <1>4, <1>5, <1>6

LEMMA OthersAlike ==
  ASSUME NEW h, NEW g, NEW o, NEW a, NEW b \in Addresses \ {a}, OneTaken(h, g, o, a)
  PROVE  Ownerships(g, b) = Ownerships(h, b)
BY DEF OneTaken, Ownerships

LEMMA TakingCounts ==
  ASSUME NEW h \in Holdings, NEW o \in Owners, NEW a \in Addresses,
         IsFiniteSet(Ownerships(h, a)),
         NEW g \in Holdings, OneTaken(h, g, o, a)
  PROVE  /\ IsFiniteSet(Ownerships(g, a))
         /\ Count(g, a) = Count(h, a) + 1
<1>1. /\ Ownerships(g, a) = Ownerships(h, a) \cup {<<o, h[o][a] + 1>>}
      /\ <<o, h[o][a] + 1>> \notin Ownerships(h, a)
  BY OneMore
<1>. QED
  BY <1>1, FS_AddElement DEF Count

(* Giving up an ownership is the way back. *)
LEMMA GivingUpCounts ==
  ASSUME NEW h \in Holdings, NEW o \in Owners, NEW a \in Addresses,
         IsFiniteSet(Ownerships(h, a)),
         NEW g \in Holdings, OneTaken(g, h, o, a)
  PROVE  /\ IsFiniteSet(Ownerships(g, a))
         /\ Count(g, a) = Count(h, a) - 1
<1>1. /\ Ownerships(h, a) = Ownerships(g, a) \cup {<<o, g[o][a] + 1>>}
      /\ <<o, g[o][a] + 1>> \notin Ownerships(g, a)
  BY OneMore
<1>2. Ownerships(g, a) = Ownerships(h, a) \ {<<o, g[o][a] + 1>>}
  BY <1>1
<1>3. <<o, g[o][a] + 1>> \in Ownerships(h, a)
  BY <1>1
<1>4. ASSUME NEW S, IsFiniteSet(S), NEW x \in S
      PROVE  IsFiniteSet(S \ {x}) /\ Cardinality(S \ {x}) = Cardinality(S) - 1
  BY <1>4, FS_RemoveElement
<1>. QED
  BY <1>2, <1>3, <1>4 DEF Count

(* Who owns is counted, *)
LEMMA OwnerCounts ==
  ASSUME NEW h \in Holdings, NEW o \in Owners, NEW a \in Addresses,
         IsFiniteSet(Ownerships(h, a)), h[o][a] > 0
  PROVE  Count(h, a) \in Nat /\ Count(h, a) >= 1
<1>1. 1 \in 1 .. h[o][a]
  BY DEF Holdings
<1>2. <<o, 1>> \in Ownerships(h, a)
  BY <1>1, OwnershipOf
<1>. QED
  BY <1>2, FS_EmptySet, FS_CardinalityType DEF Count

(* two owners are counted twice, *)
LEMMA TwoOwnersCount ==
  ASSUME NEW h \in Holdings, NEW o \in Owners, NEW p \in Owners, NEW a \in Addresses,
         IsFiniteSet(Ownerships(h, a)), o # p, h[o][a] > 0, h[p][a] > 0
  PROVE  Count(h, a) # 1
<1>1. 1 \in 1 .. h[o][a] /\ 1 \in 1 .. h[p][a]
  BY DEF Holdings
<1>2. <<o, 1>> \in Ownerships(h, a) /\ <<p, 1>> \in Ownerships(h, a)
  BY <1>1, OwnershipOf
<1>3. <<o, 1>> # <<p, 1>>
  OBVIOUS
<1>. QED
  BY <1>2, <1>3, FS_Singleton DEF Count

(* and who is not counted does not own. *)
LEMMA NotCounted ==
  ASSUME NEW h \in Holdings, NEW a \in Addresses,
         IsFiniteSet(Ownerships(h, a)), Count(h, a) = 0
  PROVE  \A o \in Owners : h[o][a] = 0
<1>1. SUFFICES ASSUME NEW o \in Owners, h[o][a] # 0 PROVE FALSE
  OBVIOUS
<1>2. h[o][a] > 0
  BY <1>1 DEF Holdings
<1>. QED
  BY <1>2, OwnerCounts
-----------------------------------------------------------------------------
(* What the calls do to the ownerships. *)
LEMMA Taking ==
  ASSUME held \in Holdings, NEW o \in Owners, NEW a \in Addresses
  PROVE  /\ Takes(o, a) \in Holdings
         /\ OneTaken(held, Takes(o, a), o, a)
BY DEF Holdings, Takes, OneTaken

LEMMA GivingUp ==
  ASSUME held \in Holdings, NEW o \in Owners, NEW a \in Addresses, held[o][a] > 0
  PROVE  /\ GivesUp(o, a) \in Holdings
         /\ OneTaken(GivesUp(o, a), held, o, a)
<1>1. held[o][a] \in Nat /\ held[o][a] - 1 \in Nat
  BY DEF Holdings
<1>. QED
  BY <1>1 DEF Holdings, GivesUp, OneTaken

(* An exchange gives one up and takes one, of an address nobody owned. *)
LEMMA Exchanging ==
  ASSUME held \in Holdings, NEW o \in Owners, NEW a \in Addresses, NEW b \in Addresses,
         a # b, held[o][a] > 0, held[o][b] = 0
  PROVE  /\ Exchanges(o, a, b) \in Holdings
         /\ OneTaken(GivesUp(o, a), Exchanges(o, a, b), o, b)
<1>1. held[o][a] \in Nat /\ held[o][a] - 1 \in Nat
  BY DEF Holdings
<1>. QED
  BY <1>1 DEF Holdings, GivesUp, Exchanges, OneTaken
-----------------------------------------------------------------------------
(* What the invariant says of a block somebody owns, *)
LEMMA OwnedFacts ==
  ASSUME IInv, NEW o \in Owners, NEW a \in Addresses, held[o][a] > 0
  PROVE  /\ a \in Recorded /\ a \in allocated /\ a \notin lost
         /\ pool[a].count \in 1 .. MaxCount
         /\ IsFiniteSet(Ownerships(held, a))
         /\ Count(held, a) = pool[a].count
<1>1. held \in Holdings /\ IsFiniteSet(Ownerships(held, a))
  BY DEF IInv, TypeOK, Holdings, CountIsOwnership
<1>2. Count(held, a) \in Nat /\ Count(held, a) >= 1
  BY <1>1, OwnerCounts
<1>3. Count(held, a) = IF a \in Recorded THEN pool[a].count ELSE 0
  BY DEF IInv, CountIsOwnership, Count
<1>4. a \in Recorded
  BY <1>2, <1>3
<1>5. pool[a].count \in 0 .. MaxCount
  BY <1>4 DEF IInv, TypeOK
<1>. QED
  BY <1>1, <1>2, <1>3, <1>4, <1>5, SizeAssumption DEF IInv, NothingLost

(* and of an address the allocator may hand out. *)
LEMMA FreeFacts ==
  ASSUME IInv, NEW a \in Addresses, a \notin allocated
  PROVE  /\ a \notin Recorded /\ a \notin lost
         /\ \A o \in Owners : held[o][a] = 0
         /\ IsFiniteSet(Ownerships(held, a))
         /\ Count(held, a) = 0
<1>1. a \notin Recorded /\ a \notin lost
  BY DEF IInv, NothingLost
<1>2. held \in Holdings /\ IsFiniteSet(Ownerships(held, a)) /\ Count(held, a) = 0
  BY <1>1 DEF IInv, TypeOK, Holdings, CountIsOwnership, Count
<1>. QED
  BY <1>1, <1>2, NotCounted

(* The counts after a step, said of the new pool and the new ownerships. *)
Counted(p, h) ==
  \A a \in Addresses :
    /\ IsFiniteSet(Ownerships(h, a))
    /\ Count(h, a) = IF a \in DOMAIN p THEN p[a].count ELSE 0

LEMMA CountedIsInvariant ==
  /\ CountIsOwnership <=> Counted(pool, held)
  /\ CountIsOwnership' <=> Counted(pool', held')
BY DEF CountIsOwnership, Counted, Count, Recorded, Ownerships

(* Two pools that count alike, but for the block at a. *)
AlikeElsewhere(p, q, a) ==
  \A b \in Addresses \ {a} :
    /\ (b \in DOMAIN q) <=> (b \in DOMAIN p)
    /\ (b \in DOMAIN p) => (q[b].count = p[b].count)

(* A taken ownership, a count that is one higher; the other blocks stay. *)
LEMMA CountedTaking ==
  ASSUME NEW p, NEW q, NEW h \in Holdings, NEW g \in Holdings,
         NEW o \in Owners, NEW a \in Addresses,
         Counted(p, h), OneTaken(h, g, o, a),
         a \in DOMAIN q, q[a].count = Count(h, a) + 1,
         AlikeElsewhere(p, q, a)
  PROVE  Counted(q, g)
<1>1. SUFFICES ASSUME NEW b \in Addresses
      PROVE  /\ IsFiniteSet(Ownerships(g, b))
             /\ Count(g, b) = IF b \in DOMAIN q THEN q[b].count ELSE 0
  BY DEF Counted
<1>2. CASE b = a
  BY <1>2, TakingCounts DEF Counted
<1>3. CASE b # a
  <2>1. Ownerships(g, b) = Ownerships(h, b)
    BY <1>3, OthersAlike
  <2>2. /\ IsFiniteSet(Ownerships(h, b))
        /\ Count(h, b) = IF b \in DOMAIN p THEN p[b].count ELSE 0
    BY DEF Counted
  <2>. QED
    BY <1>3, <2>1, <2>2 DEF Count, AlikeElsewhere
<1>. QED
  BY <1>2, <1>3

(* A given up ownership, a count that is one lower or a block that is gone. *)
LEMMA CountedGivingUp ==
  ASSUME NEW p, NEW q, NEW h \in Holdings, NEW g \in Holdings,
         NEW o \in Owners, NEW a \in Addresses,
         Counted(p, h), OneTaken(g, h, o, a),
         Count(h, a) - 1 = IF a \in DOMAIN q THEN q[a].count ELSE 0,
         AlikeElsewhere(p, q, a)
  PROVE  Counted(q, g)
<1>1. SUFFICES ASSUME NEW b \in Addresses
      PROVE  /\ IsFiniteSet(Ownerships(g, b))
             /\ Count(g, b) = IF b \in DOMAIN q THEN q[b].count ELSE 0
  BY DEF Counted
<1>2. CASE b = a
  BY <1>2, GivingUpCounts DEF Counted
<1>3. CASE b # a
  <2>1. Ownerships(g, b) = Ownerships(h, b)
    BY <1>3, OthersAlike
  <2>2. /\ IsFiniteSet(Ownerships(h, b))
        /\ Count(h, b) = IF b \in DOMAIN p THEN p[b].count ELSE 0
    BY DEF Counted
  <2>. QED
    BY <1>3, <2>1, <2>2 DEF Count, AlikeElsewhere
<1>. QED
  BY <1>2, <1>3

-----------------------------------------------------------------------------
(* What the calls do to the pool. *)
IsPool(p) ==
  /\ DOMAIN p \subseteq Addresses
  /\ p \in [DOMAIN p -> [size : Sizes, count : 0 .. MaxCount]]

LEMMA Adding ==
  ASSUME NEW p, IsPool(p), NEW a \in Addresses, NEW n \in Sizes
  PROVE  /\ IsPool(With(p, a, n, 1))
         /\ DOMAIN With(p, a, n, 1) = DOMAIN p \cup {a}
         /\ With(p, a, n, 1)[a].count = 1
         /\ AlikeElsewhere(p, With(p, a, n, 1), a)
<1>1. [size |-> n, count |-> 1] \in [size : Sizes, count : 0 .. MaxCount]
  BY SizeAssumption
<1>2. \A b \in DOMAIN p : p[b] \in [size : Sizes, count : 0 .. MaxCount]
  BY DEF IsPool
<1>. QED
  BY <1>1, <1>2 DEF IsPool, With, AlikeElsewhere

LEMMA Removing ==
  ASSUME NEW p, IsPool(p), NEW gone
  PROVE  /\ IsPool(Without(p, gone))
         /\ DOMAIN Without(p, gone) = DOMAIN p \ gone
         /\ \A b \in DOMAIN p \ gone : Without(p, gone)[b] = p[b]
<1>1. \A b \in DOMAIN p : p[b] \in [size : Sizes, count : 0 .. MaxCount]
  BY DEF IsPool
<1>. QED
  BY <1>1 DEF IsPool, Without

LEMMA RemovingOne ==
  ASSUME NEW p, IsPool(p), NEW a \in Addresses
  PROVE  AlikeElsewhere(p, Without(p, {a}), a)
<1>1. PICK gone : gone = {a}
  OBVIOUS
<1>2. PICK q : q = Without(p, gone)
  OBVIOUS
<1>3. DOMAIN q = DOMAIN p \ gone /\ \A b \in DOMAIN p \ gone : q[b] = p[b]
  BY <1>2, Removing
<1>. QED
  BY <1>1, <1>2, <1>3 DEF AlikeElsewhere

LEMMA Dropping ==
  ASSUME IsPool(pool), NEW a \in Recorded, pool[a].count \in 1 .. MaxCount
  PROVE  /\ IsPool(Dropped(a))
         /\ DOMAIN Dropped(a) = Recorded
         /\ Dropped(a)[a].count = pool[a].count - 1
         /\ \A b \in Recorded : Dropped(a)[b].size = pool[b].size
         /\ AlikeElsewhere(pool, Dropped(a), a)
<1>1. \A b \in Recorded : pool[b] \in [size : Sizes, count : 0 .. MaxCount]
  BY DEF IsPool, Recorded
<1>2. DOMAIN Dropped(a) = Recorded
  BY DEF Dropped, Recorded
<1>3. Dropped(a)[a] = [pool[a] EXCEPT !.count = pool[a].count - 1]
  BY DEF Dropped, Recorded
<1>4. \A b \in Recorded \ {a} : Dropped(a)[b] = pool[b]
  BY DEF Dropped, Recorded
<1>5. pool[a].count - 1 \in 0 .. MaxCount
  BY SizeAssumption
<1>6. /\ Dropped(a)[a] \in [size : Sizes, count : 0 .. MaxCount]
      /\ Dropped(a)[a].count = pool[a].count - 1
      /\ Dropped(a)[a].size = pool[a].size
  BY <1>1, <1>3, <1>5
<1>7. Dropped(a) \in [Recorded -> [size : Sizes, count : 0 .. MaxCount]]
  <2>1. Dropped(a) = [b \in Recorded |-> Dropped(a)[b]]
    BY DEF Dropped, Recorded
  <2>2. \A b \in Recorded : Dropped(a)[b] \in [size : Sizes, count : 0 .. MaxCount]
    BY <1>1, <1>4, <1>6
  <2>. QED
    BY <2>1, <2>2
<1>. QED
  BY <1>2, <1>4, <1>6, <1>7 DEF IsPool, AlikeElsewhere, Recorded

LEMMA Raising ==
  ASSUME IsPool(pool), NEW a \in Recorded, pool[a].count < MaxCount
  PROVE  /\ IsPool(Retained(a))
         /\ DOMAIN Retained(a) = Recorded
         /\ Retained(a)[a].count = pool[a].count + 1
         /\ \A b \in Recorded : Retained(a)[b].size = pool[b].size
         /\ AlikeElsewhere(pool, Retained(a), a)
<1>1. \A b \in Recorded : pool[b] \in [size : Sizes, count : 0 .. MaxCount]
  BY DEF IsPool, Recorded
<1>2. DOMAIN Retained(a) = Recorded
  BY DEF Retained, Recorded
<1>3. Retained(a)[a] = [pool[a] EXCEPT !.count = pool[a].count + 1]
  BY DEF Retained, Recorded
<1>4. \A b \in Recorded \ {a} : Retained(a)[b] = pool[b]
  BY DEF Retained, Recorded
<1>5. pool[a].count + 1 \in 0 .. MaxCount
  BY <1>1, SizeAssumption
<1>6. /\ Retained(a)[a] \in [size : Sizes, count : 0 .. MaxCount]
      /\ Retained(a)[a].count = pool[a].count + 1
      /\ Retained(a)[a].size = pool[a].size
  BY <1>1, <1>3, <1>5
<1>7. Retained(a) \in [Recorded -> [size : Sizes, count : 0 .. MaxCount]]
  <2>1. Retained(a) = [b \in Recorded |-> Retained(a)[b]]
    BY DEF Retained, Recorded
  <2>2. \A b \in Recorded : Retained(a)[b] \in [size : Sizes, count : 0 .. MaxCount]
    BY <1>1, <1>4, <1>6
  <2>. QED
    BY <2>1, <2>2
<1>. QED
  BY <1>2, <1>4, <1>6, <1>7 DEF IsPool, AlikeElsewhere, Recorded

-----------------------------------------------------------------------------
(* The invariant by its parts, of a state and of the next one. *)
LEMMA Parts ==
  /\ IInv <=> /\ IsPool(pool) /\ held \in Holdings /\ Counted(pool, held)
              /\ allocated \subseteq Addresses /\ content \in [Addresses -> Values]
              /\ lost \subseteq Addresses
              /\ allocated = DOMAIN pool \cup lost /\ DOMAIN pool \cap lost = {}
  /\ IInv' <=> /\ IsPool(pool') /\ held' \in Holdings /\ Counted(pool', held')
               /\ allocated' \subseteq Addresses /\ content' \in [Addresses -> Values]
               /\ lost' \subseteq Addresses
               /\ allocated' = DOMAIN pool' \cup lost' /\ DOMAIN pool' \cap lost' = {}
BY CountedIsInvariant DEF IInv, TypeOK, IsPool, Holdings, NothingLost, Recorded

LEMMA AllocKeeps ==
  ASSUME IInv, NEW o \in Owners, NEW n \in Sizes, NEW a \in Addresses, Alloc(o, n, a)
  PROVE  IInv'
<1>1. /\ IsPool(pool) /\ held \in Holdings /\ Counted(pool, held)
      /\ allocated = DOMAIN pool \cup lost /\ DOMAIN pool \cap lost = {}
  BY Parts
<1>2. a \notin lost /\ Count(held, a) = 0
  BY FreeFacts DEF Alloc
<1>3. /\ IsPool(pool') /\ DOMAIN pool' = DOMAIN pool \cup {a}
      /\ pool'[a].count = 1 /\ AlikeElsewhere(pool, pool', a)
  BY <1>1, Adding DEF Alloc
<1>4. held' \in Holdings /\ OneTaken(held, held', o, a)
  BY <1>1, Taking DEF Alloc
<1>5. Counted(pool', held')
  <2>1. a \in DOMAIN pool' /\ pool'[a].count = Count(held, a) + 1
    BY <1>2, <1>3
  <2>. QED
    BY <1>1, <1>3, <1>4, <2>1, CountedTaking
<1>6. /\ allocated' \subseteq Addresses /\ lost' \subseteq Addresses
      /\ content' \in [Addresses -> Values]
  BY Parts, ZeroAssumption DEF Alloc
<1>7. allocated' = DOMAIN pool' \cup lost' /\ DOMAIN pool' \cap lost' = {}
  BY <1>1, <1>2, <1>3 DEF Alloc
<1>. QED
  BY <1>3, <1>4, <1>5, <1>6, <1>7, Parts

LEMMA StoreKeeps ==
  ASSUME IInv, NEW o \in Owners, NEW a \in Addresses, NEW v \in Values, Store(o, a, v)
  PROVE  IInv'
BY Parts DEF Store

LEMMA RetainKeeps ==
  ASSUME IInv, NEW o \in Owners, NEW a \in Addresses, Retain(o, a)
  PROVE  IInv'
<1>1. IsPool(pool) /\ held \in Holdings /\ Counted(pool, held)
  BY Parts
<1>2. a \in Recorded /\ Count(held, a) = pool[a].count
  BY <1>1 DEF Retain, Counted, Recorded
<1>3. /\ IsPool(pool') /\ DOMAIN pool' = DOMAIN pool
      /\ pool'[a].count = Count(held, a) + 1 /\ AlikeElsewhere(pool, pool', a)
  BY <1>1, <1>2, Raising DEF Retain, Recorded
<1>4. held' \in Holdings /\ OneTaken(held, held', o, a)
  BY <1>1, Taking DEF Retain
<1>5. Counted(pool', held')
  <2>1. a \in DOMAIN pool'
    BY <1>2, <1>3 DEF Recorded
  <2>. QED
    BY <1>1, <1>3, <1>4, <2>1, CountedTaking
<1>. QED
  BY <1>3, <1>4, <1>5, Parts DEF Retain

(* One owner less of a block that stays in the pool, *)
LEMMA DroppingCounts ==
  ASSUME IInv, NEW o \in Owners, NEW a \in Addresses, held[o][a] > 0
  PROVE  /\ IsPool(Dropped(a)) /\ DOMAIN Dropped(a) = DOMAIN pool
         /\ \A b \in DOMAIN pool : Dropped(a)[b].size = pool[b].size
         /\ GivesUp(o, a) \in Holdings
         /\ Counted(Dropped(a), GivesUp(o, a))
<1>1. IsPool(pool) /\ held \in Holdings /\ Counted(pool, held)
  BY Parts
<1>2. /\ a \in Recorded /\ pool[a].count \in 1 .. MaxCount
      /\ Count(held, a) = pool[a].count
  BY OwnedFacts
<1>3. /\ IsPool(Dropped(a)) /\ DOMAIN Dropped(a) = DOMAIN pool
      /\ \A b \in DOMAIN pool : Dropped(a)[b].size = pool[b].size
      /\ Dropped(a)[a].count = Count(held, a) - 1
      /\ AlikeElsewhere(pool, Dropped(a), a)
  BY <1>1, <1>2, Dropping DEF Recorded
<1>4. GivesUp(o, a) \in Holdings /\ OneTaken(GivesUp(o, a), held, o, a)
  BY <1>1, GivingUp
<1>5. Count(held, a) - 1 = IF a \in DOMAIN Dropped(a) THEN Dropped(a)[a].count ELSE 0
  BY <1>2, <1>3 DEF Recorded
<1>6. Counted(Dropped(a), GivesUp(o, a))
  BY <1>1, <1>3, <1>4, <1>5, CountedGivingUp
<1>. QED
  BY <1>3, <1>4, <1>6

(* and the last one of a block that leaves it. *)
LEMMA RemovingCounts ==
  ASSUME IInv, NEW o \in Owners, NEW a \in Addresses, held[o][a] > 0, pool[a].count = 1
  PROVE  /\ IsPool(Removed(a)) /\ DOMAIN Removed(a) = DOMAIN pool \ {a}
         /\ \A b \in DOMAIN pool \ {a} : Removed(a)[b] = pool[b]
         /\ GivesUp(o, a) \in Holdings
         /\ Counted(Removed(a), GivesUp(o, a))
<1>1. IsPool(pool) /\ held \in Holdings /\ Counted(pool, held)
  BY Parts
<1>2. a \in Recorded /\ Count(held, a) = 1
  BY OwnedFacts
<1>3. /\ IsPool(Removed(a)) /\ DOMAIN Removed(a) = DOMAIN pool \ {a}
      /\ \A b \in DOMAIN pool \ {a} : Removed(a)[b] = pool[b]
      /\ AlikeElsewhere(pool, Removed(a), a)
  BY <1>1, Removing, RemovingOne DEF Removed
<1>4. GivesUp(o, a) \in Holdings /\ OneTaken(GivesUp(o, a), held, o, a)
  BY <1>1, GivingUp
<1>5. Count(held, a) - 1 = IF a \in DOMAIN Removed(a) THEN Removed(a)[a].count ELSE 0
  BY <1>2, <1>3
<1>6. Counted(Removed(a), GivesUp(o, a))
  BY <1>1, <1>3, <1>4, <1>5, CountedGivingUp
<1>. QED
  BY <1>3, <1>4, <1>6

(* Growing: the share is given up, and the new block has one owner. *)
LEMMA GrowingCounts ==
  ASSUME IInv, NEW o \in Owners, NEW a \in Addresses, held[o][a] > 0,
         NEW b \in Addresses, b \notin allocated, NEW n \in Sizes,
         NEW p, IsPool(p), DOMAIN p \subseteq DOMAIN pool, Counted(p, GivesUp(o, a))
  PROVE  /\ a # b
         /\ IsPool(With(p, b, n, 1)) /\ DOMAIN With(p, b, n, 1) = DOMAIN p \cup {b}
         /\ Exchanges(o, a, b) \in Holdings
         /\ Counted(With(p, b, n, 1), Exchanges(o, a, b))
<1>1. held \in Holdings
  BY Parts
<1>2. a # b /\ b \notin DOMAIN p /\ held[o][b] = 0
  BY OwnedFacts, FreeFacts DEF Recorded
<1>3. /\ IsPool(With(p, b, n, 1)) /\ DOMAIN With(p, b, n, 1) = DOMAIN p \cup {b}
      /\ With(p, b, n, 1)[b].count = 1 /\ AlikeElsewhere(p, With(p, b, n, 1), b)
  BY Adding
<1>4. /\ GivesUp(o, a) \in Holdings /\ Exchanges(o, a, b) \in Holdings
      /\ OneTaken(GivesUp(o, a), Exchanges(o, a, b), o, b)
  BY <1>1, <1>2, GivingUp, Exchanging
<1>5. Count(GivesUp(o, a), b) = 0
  BY <1>2 DEF Counted
<1>6. b \in DOMAIN With(p, b, n, 1) /\ With(p, b, n, 1)[b].count = Count(GivesUp(o, a), b) + 1
  BY <1>3, <1>5
<1>7. Counted(With(p, b, n, 1), Exchanges(o, a, b))
  BY <1>3, <1>4, <1>6, CountedTaking
<1>. QED
  BY <1>2, <1>3, <1>4, <1>7

LEMMA GrowOwnKeeps ==
  ASSUME IInv, NEW o \in Owners, NEW a \in Addresses, NEW n \in Sizes, NEW b \in Addresses,
         GrowOwn(o, a, n, b)
  PROVE  IInv'
<1>1. held[o][a] > 0 /\ pool[a].count = 1 /\ b \notin allocated
  BY DEF GrowOwn, TooSmall
<1>2. /\ IsPool(Removed(a)) /\ DOMAIN Removed(a) = DOMAIN pool \ {a}
      /\ Counted(Removed(a), GivesUp(o, a))
  BY <1>1, RemovingCounts
<1>3. /\ IsPool(pool') /\ DOMAIN pool' = (DOMAIN pool \ {a}) \cup {b}
      /\ held' \in Holdings /\ Counted(pool', held')
  BY <1>1, <1>2, GrowingCounts DEF GrowOwn
<1>4. a \in DOMAIN pool /\ a \notin lost /\ b \notin lost
  BY <1>1, OwnedFacts, FreeFacts DEF Recorded
<1>5. /\ allocated \subseteq Addresses /\ content \in [Addresses -> Values]
      /\ lost \subseteq Addresses
      /\ allocated = DOMAIN pool \cup lost /\ DOMAIN pool \cap lost = {}
  BY Parts
<1>6. /\ allocated' \subseteq Addresses /\ lost' \subseteq Addresses
      /\ content' \in [Addresses -> Values]
  BY <1>5 DEF GrowOwn, Freed, Copied
<1>7. allocated' = DOMAIN pool' \cup lost' /\ DOMAIN pool' \cap lost' = {}
  BY <1>3, <1>4, <1>5 DEF GrowOwn, Freed
<1>. QED
  BY <1>3, <1>6, <1>7, Parts

LEMMA GrowSharedKeeps ==
  ASSUME IInv, NEW o \in Owners, NEW a \in Addresses, NEW n \in Sizes, NEW b \in Addresses,
         GrowShared(o, a, n, b)
  PROVE  IInv'
<1>1. held[o][a] > 0 /\ b \notin allocated
  BY DEF GrowShared, TooSmall
<1>2. /\ IsPool(Dropped(a)) /\ DOMAIN Dropped(a) = DOMAIN pool
      /\ Counted(Dropped(a), GivesUp(o, a))
  BY <1>1, DroppingCounts
<1>3. /\ IsPool(pool') /\ DOMAIN pool' = DOMAIN pool \cup {b}
      /\ held' \in Holdings /\ Counted(pool', held')
  BY <1>1, <1>2, GrowingCounts DEF GrowShared
<1>4. b \notin lost
  BY <1>1, FreeFacts
<1>5. /\ allocated \subseteq Addresses /\ content \in [Addresses -> Values]
      /\ lost \subseteq Addresses
      /\ allocated = DOMAIN pool \cup lost /\ DOMAIN pool \cap lost = {}
  BY Parts
<1>6. /\ allocated' \subseteq Addresses /\ lost' \subseteq Addresses
      /\ content' \in [Addresses -> Values]
  BY <1>5 DEF GrowShared, Copied
<1>7. allocated' = DOMAIN pool' \cup lost' /\ DOMAIN pool' \cap lost' = {}
  BY <1>3, <1>4, <1>5 DEF GrowShared
<1>. QED
  BY <1>3, <1>6, <1>7, Parts

LEMMA GrowSharedFailsKeeps ==
  ASSUME IInv, NEW o \in Owners, NEW a \in Addresses, NEW n \in Sizes,
         GrowSharedFails(o, a, n)
  PROVE  IInv'
<1>1. /\ IsPool(pool') /\ DOMAIN pool' = DOMAIN pool
      /\ held' \in Holdings /\ Counted(pool', held')
  BY DroppingCounts DEF GrowSharedFails, TooSmall
<1>. QED
  BY <1>1, Parts DEF GrowSharedFails

LEMMA AutoreleaseKeeps ==
  ASSUME IInv, NEW o \in Owners, NEW a \in Addresses, Autorelease(o, a)
  PROVE  IInv'
<1>1. /\ IsPool(pool') /\ DOMAIN pool' = DOMAIN pool
      /\ held' \in Holdings /\ Counted(pool', held')
  BY DroppingCounts DEF Autorelease
<1>. QED
  BY <1>1, Parts DEF Autorelease

LEMMA GrowOwnFailsKeeps ==
  ASSUME IInv, NEW o \in Owners, NEW a \in Addresses, NEW n \in Sizes,
         GrowOwnFails(o, a, n)
  PROVE  IInv'
<1>1. held[o][a] > 0 /\ pool[a].count = 1
  BY DEF GrowOwnFails, TooSmall
<1>2. /\ IsPool(pool') /\ DOMAIN pool' = DOMAIN pool \ {a}
      /\ held' \in Holdings /\ Counted(pool', held')
  BY <1>1, RemovingCounts DEF GrowOwnFails
<1>3. a \in DOMAIN pool
  BY <1>1, OwnedFacts DEF Recorded
<1>. QED
  BY <1>2, <1>3, Parts DEF GrowOwnFails

LEMMA ReleaseKeeps ==
  ASSUME IInv, NEW o \in Owners, NEW a \in Addresses, Release(o, a)
  PROVE  IInv'
<1>1. held[o][a] > 0
  BY DEF Release
<1>2. CASE pool[a].count = 1
  <2>1. /\ IsPool(pool') /\ DOMAIN pool' = DOMAIN pool \ {a}
        /\ held' \in Holdings /\ Counted(pool', held')
    BY <1>1, <1>2, RemovingCounts DEF Release
  <2>2. a \in DOMAIN pool /\ a \notin lost
    BY <1>1, OwnedFacts DEF Recorded
  <2>. QED
    BY <1>2, <2>1, <2>2, Parts DEF Release, Freed
<1>3. CASE pool[a].count > 1
  <2>1. /\ IsPool(pool') /\ DOMAIN pool' = DOMAIN pool
        /\ held' \in Holdings /\ Counted(pool', held')
    BY <1>1, <1>3, DroppingCounts DEF Release
  <2>. QED
    BY <1>3, <2>1, Parts DEF Release
<1>. QED
  BY <1>2, <1>3 DEF Release

LEMMA ReleaseUnusedKeeps ==
  ASSUME IInv, ReleaseUnused
  PROVE  IInv'
<1>1. /\ IsPool(pool) /\ Counted(pool, held)
      /\ allocated = DOMAIN pool \cup lost /\ DOMAIN pool \cap lost = {}
  BY Parts
<1>2. /\ IsPool(pool') /\ DOMAIN pool' = DOMAIN pool \ Unused
      /\ \A b \in DOMAIN pool \ Unused : pool'[b] = pool[b]
  BY <1>1, Removing DEF ReleaseUnused
<1>3. Counted(pool', held')
  <2>1. \A a \in Unused : a \in DOMAIN pool /\ pool[a].count = 0
    BY DEF Unused, Recorded
  <2>. QED
    BY <1>1, <1>2, <2>1 DEF Counted, ReleaseUnused
<1>4. Unused \subseteq DOMAIN pool
  BY DEF Unused, Recorded
<1>. QED
  BY <1>1, <1>2, <1>3, <1>4, Parts DEF ReleaseUnused, Freed

LEMMA NobodyCounts ==
  /\ NobodyHolds \in Holdings
  /\ \A a \in Addresses : /\ IsFiniteSet(Ownerships(NobodyHolds, a))
                          /\ Count(NobodyHolds, a) = 0
<1>1. NobodyHolds \in Holdings
  BY DEF NobodyHolds, Holdings
<1>2. ASSUME NEW a \in Addresses PROVE Ownerships(NobodyHolds, a) = {}
  <2>1. ASSUME NEW x \in Ownerships(NobodyHolds, a) PROVE FALSE
    <3>1. PICK o \in Owners : \E i \in 1 .. NobodyHolds[o][a] : x = <<o, i>>
      BY <1>1, OwnershipOf
    <3>2. NobodyHolds[o][a] = 0
      BY DEF NobodyHolds
    <3>. QED
      BY <3>1, <3>2
  <2>. QED
    BY <2>1
<1>. QED
  BY <1>1, <1>2, FS_EmptySet DEF Count

LEMMA ReleaseAllKeeps ==
  ASSUME IInv, ReleaseAll
  PROVE  IInv'
<1>1. /\ IsPool(pool)
      /\ allocated = DOMAIN pool \cup lost /\ DOMAIN pool \cap lost = {}
  BY Parts
<1>2. IsPool(pool') /\ DOMAIN pool' = {}
  <2>1. /\ IsPool(Without(pool, Recorded))
        /\ DOMAIN Without(pool, Recorded) = DOMAIN pool \ Recorded
    BY <1>1, Removing
  <2>2. DOMAIN pool \ Recorded = {}
    BY DEF Recorded
  <2>. QED
    BY <2>1, <2>2 DEF ReleaseAll
<1>3. held' \in Holdings /\ Counted(pool', held')
  BY <1>2, NobodyCounts DEF ReleaseAll, Counted
<1>. QED
  BY <1>1, <1>2, <1>3, Parts DEF ReleaseAll, Freed, Recorded

LEMMA InitHolds == Init => IInv
<1>. SUFFICES ASSUME Init PROVE IInv
  OBVIOUS
<1>1. IsPool(pool) /\ DOMAIN pool = {}
  BY DEF Init, IsPool
<1>2. held \in Holdings /\ Counted(pool, held)
  BY <1>1, NobodyCounts DEF Init, Counted
<1>. QED
  BY <1>1, <1>2, Parts DEF Init

LEMMA StepKeeps == IInv /\ [Next]_vars => IInv'
<1>. SUFFICES ASSUME IInv, [Next]_vars PROVE IInv'
  OBVIOUS
<1>1. ASSUME NEW o \in Owners, Step(o) PROVE IInv'
  BY <1>1, AllocKeeps, StoreKeeps, RetainKeeps, ReleaseKeeps, AutoreleaseKeeps,
     GrowSharedFailsKeeps, GrowOwnFailsKeeps, GrowOwnKeeps, GrowSharedKeeps DEF Step
<1>2. CASE ReleaseUnused
  BY <1>2, ReleaseUnusedKeeps
<1>3. CASE ReleaseAll
  BY <1>3, ReleaseAllKeeps
<1>4. CASE UNCHANGED vars
  BY <1>4, Parts DEF vars
<1>. QED
  BY <1>1, <1>2, <1>3, <1>4 DEF Next

LEMMA Inductive == Spec => []IInv
<1>. QED
  BY InitHolds, StepKeeps, PTL DEF Spec

(* Records are of addresses, counts stay in their bounds: no count goes     *)
(* below nothing or past the ownerships there are.                          *)
THEOREM TypeCorrect == Spec => []TypeOK
<1>1. IInv => TypeOK
  BY DEF IInv
<1>. QED
  BY <1>1, Inductive, PTL

(* The retained count of a block is the number of ownerships of it, in any  *)
(* order of retain, release, autorelease and growing (mgn_mem_ralloc) by    *)
(* any number of owners, also where the allocator fails.                    *)
THEOREM CountsAreOwnerships == Spec => []CountIsOwnership
<1>1. IInv => CountIsOwnership
  BY DEF IInv
<1>. QED
  BY <1>1, Inductive, PTL

(* The pool knows every block the allocator has given out, but for those    *)
(* an only owner failed to grow, which it lists and never uses again.       *)
THEOREM PoolKnowsItsBlocks == Spec => []NothingLost
<1>1. IInv => NothingLost
  BY DEF IInv
<1>. QED
  BY <1>1, Inductive, PTL

-----------------------------------------------------------------------------
(* An owner that is left alone keeps a block it owns, at the address where  *)
(* the allocator cannot put another one.                                    *)
Untouched(o, a) ==
  /\ a \in DOMAIN pool' /\ pool'[a].size = pool[a].size /\ content'[a] = content[a]

(* Where the only owner gives up its share, nobody else has one. *)
LEMMA OnlyOwner ==
  ASSUME IInv, NEW o \in Owners, NEW p \in Owners, NEW a \in Addresses,
         held[o][a] > 0, held[p][a] > 0, pool[a].count = 1
  PROVE  o = p
<1>1. held \in Holdings /\ IsFiniteSet(Ownerships(held, a)) /\ Count(held, a) = 1
  BY OwnedFacts, Parts
<1>. QED
  BY <1>1, TwoOwnersCount

(* Who gives up a share does not keep all of them. *)
LEMMA SharesChange ==
  ASSUME IInv, NEW o \in Owners, NEW a \in Addresses, held[o][a] > 0,
         NEW g \in Holdings, g[o][a] = held[o][a] - 1
  PROVE  g[o] # held[o]
<1>1. held[o][a] \in Nat
  BY Parts DEF Holdings
<1>. QED
  BY <1>1

LEMMA StepLeavesOthers ==
  ASSUME IInv, NEW p \in Owners, Step(p), NEW o \in Owners, NEW c \in Addresses,
         pool' # pool, held[o][c] > 0, held'[o] = held[o]
  PROVE  Untouched(o, c)
<1>1. /\ IsPool(pool) /\ held \in Holdings /\ held' \in Holdings
      /\ content \in [Addresses -> Values]
  BY Parts, StepKeeps DEF Next
<1>2. c \in DOMAIN pool /\ c \in allocated
  BY OwnedFacts DEF Recorded
<1>3. ASSUME NEW a \in Addresses, NEW n \in Sizes, Alloc(p, n, a) PROVE Untouched(o, c)
  BY <1>1, <1>2, <1>3 DEF Alloc, With, Untouched
<1>4. ASSUME NEW a \in Addresses, NEW v \in Values, Store(p, a, v) PROVE Untouched(o, c)
  BY <1>4 DEF Store
<1>5. ASSUME NEW a \in Addresses, Retain(p, a) PROVE Untouched(o, c)
  BY <1>1, <1>2, <1>5, Raising DEF Retain, Recorded, Untouched
<1>6. ASSUME NEW a \in Addresses, held[p][a] > 0, held' = GivesUp(p, a)
      PROVE  o # p
  <2>1. held'[p][a] = held[p][a] - 1
    BY <1>1, <1>6 DEF GivesUp, Holdings
  <2>. QED
    BY <1>1, <1>6, <2>1, SharesChange
<1>7. ASSUME NEW a \in Addresses, NEW b \in Addresses, held[p][a] > 0, a # b,
             held' = Exchanges(p, a, b)
      PROVE  o # p
  <2>1. held'[p][a] = held[p][a] - 1
    BY <1>1, <1>7 DEF Exchanges, Holdings
  <2>. QED
    BY <1>1, <1>7, <2>1, SharesChange
<1>8. ASSUME NEW a \in Addresses, Release(p, a) PROVE Untouched(o, c)
  <2>1. held[p][a] > 0 /\ o # p /\ content' = content
    BY <1>6, <1>8 DEF Release
  <2>2. CASE pool[a].count = 1 /\ pool' = Removed(a)
    <3>1. c # a
      BY <2>1, <2>2, OnlyOwner
    <3>. QED
      BY <1>2, <2>1, <2>2, <3>1, RemovingCounts DEF Untouched
  <2>3. CASE pool' = Dropped(a)
    BY <1>2, <2>1, <2>3, DroppingCounts DEF Untouched
  <2>. QED
    BY <1>8, <2>2, <2>3 DEF Release
<1>9. ASSUME NEW a \in Addresses, Autorelease(p, a) PROVE Untouched(o, c)
  BY <1>2, <1>9, DroppingCounts DEF Autorelease, Untouched
<1>10. ASSUME NEW a \in Addresses, NEW n \in Sizes, GrowSharedFails(p, a, n)
       PROVE  Untouched(o, c)
  BY <1>2, <1>10, DroppingCounts DEF GrowSharedFails, TooSmall, Untouched
<1>11. ASSUME NEW a \in Addresses, NEW n \in Sizes, GrowOwnFails(p, a, n)
       PROVE  Untouched(o, c)
  <2>1. held[p][a] > 0 /\ o # p /\ pool[a].count = 1
    BY <1>6, <1>11 DEF GrowOwnFails, TooSmall
  <2>2. c # a
    BY <2>1, OnlyOwner
  <2>. QED
    BY <1>2, <1>11, <2>1, <2>2, RemovingCounts DEF GrowOwnFails, Untouched
<1>12. ASSUME NEW a \in Addresses, NEW n \in Sizes, NEW b \in Addresses,
              GrowOwn(p, a, n, b)
       PROVE  Untouched(o, c)
  <2>1. held[p][a] > 0 /\ pool[a].count = 1 /\ b \notin allocated
    BY <1>12 DEF GrowOwn, TooSmall
  <2>2. a # b
    BY <2>1, OwnedFacts
  <2>3. c # a /\ c # b
    BY <1>2, <1>7, <1>12, <2>1, <2>2, OnlyOwner DEF GrowOwn
  <2>4. c \in DOMAIN Removed(a) /\ Removed(a)[c] = pool[c]
    BY <1>2, <2>1, <2>3, RemovingCounts
  <2>. QED
    BY <1>1, <1>12, <2>3, <2>4 DEF GrowOwn, With, Copied, Untouched
<1>13. ASSUME NEW a \in Addresses, NEW n \in Sizes, NEW b \in Addresses,
              GrowShared(p, a, n, b)
       PROVE  Untouched(o, c)
  <2>1. held[p][a] > 0 /\ b \notin allocated
    BY <1>13 DEF GrowShared, TooSmall
  <2>2. c # b
    BY <1>2, <2>1
  <2>3. c \in DOMAIN Dropped(a) /\ Dropped(a)[c].size = pool[c].size
    BY <1>2, <2>1, DroppingCounts
  <2>. QED
    BY <1>1, <1>13, <2>2, <2>3 DEF GrowShared, With, Copied, Untouched
<1>. QED
  BY <1>3, <1>4, <1>5, <1>8, <1>9, <1>10, <1>11, <1>12, <1>13 DEF Step

LEMMA LeavesOthers ==
  ASSUME IInv, Next, NEW o \in Owners, NEW c \in Addresses,
         pool' # pool, held[o][c] > 0, held'[o] = held[o]
  PROVE  Untouched(o, c)
<1>1. ASSUME NEW p \in Owners, Step(p) PROVE Untouched(o, c)
  BY <1>1, StepLeavesOthers
<1>2. CASE ReleaseUnused
  <2>1. c \in DOMAIN pool /\ pool[c].count \in 1 .. MaxCount
    BY OwnedFacts DEF Recorded
  <2>2. IsPool(pool) /\ c \notin Unused
    BY <2>1, Parts DEF Unused
  <2>3. /\ DOMAIN Without(pool, Unused) = DOMAIN pool \ Unused
        /\ \A b \in DOMAIN pool \ Unused : Without(pool, Unused)[b] = pool[b]
    BY <2>2, Removing
  <2>4. c \in DOMAIN pool \ Unused
    BY <2>1, <2>2
  <2>. QED
    BY <1>2, <2>3, <2>4 DEF ReleaseUnused, Untouched
<1>3. CASE ReleaseAll
  <2>1. held'[o][c] = 0
    BY <1>3 DEF ReleaseAll, NobodyHolds
  <2>. QED
    BY <2>1
<1>. QED
  BY <1>1, <1>2, <1>3 DEF Next

(* No call of one owner or of the pool takes, moves or overwrites a block   *)
(* of an owner that is not the caller (mgn_mem_release frees only with the  *)
(* last owner, mgn_mem_ralloc copies a shared block, mgn_mem_release_unused *)
(* spares what is owned).                                                   *)
THEOREM OthersAreLeftAlone == Spec => OthersKeepTheirBlocks
<1>1. ASSUME IInv, [Next]_vars
      PROVE  [ \A o \in Owners, a \in Addresses :
                 (pool' # pool /\ held[o][a] > 0 /\ held'[o] = held[o]) =>
                   /\ a \in DOMAIN pool'
                   /\ pool'[a].size = pool[a].size
                   /\ content'[a] = content[a] ]_vars
  <2>1. CASE UNCHANGED vars
    BY <2>1
  <2>2. CASE Next
    BY <1>1, <2>2, LeavesOthers DEF Untouched
  <2>. QED
    BY <1>1, <2>1, <2>2
<1>. QED
  BY <1>1, Inductive, PTL DEF Spec, OthersKeepTheirBlocks

(* Shares that change in one direction only follow no block. *)
LEMMA OnlyTaken ==
  ASSUME NEW h \in Holdings, NEW g \in Holdings, NEW o \in Owners, NEW a \in Addresses,
         OneTaken(h, g, o, a)
  PROVE  \A p \in Owners, b \in Addresses : g[p][b] >= h[p][b]
BY DEF OneTaken, Holdings

LEMMA StepCarriesContent ==
  ASSUME IInv, NEW p \in Owners, Step(p), NEW o \in Owners,
         NEW c \in Addresses, NEW d \in Addresses,
         held'[o][c] < held[o][c], held'[o][d] > held[o][d]
  PROVE  content'[d] = content[c]
<1>1. /\ held \in Holdings /\ held' \in Holdings
      /\ content \in [Addresses -> Values]
      /\ held[o][c] \in Nat /\ held[o][d] \in Nat
      /\ held'[o][c] \in Nat /\ held'[o][d] \in Nat
  BY Parts, StepKeeps DEF Next, Holdings
<1>2. ASSUME NEW a \in Addresses, held' = Takes(p, a) PROVE FALSE
  <2>1. OneTaken(held, held', p, a)
    BY <1>1, <1>2, Taking
  <2>. QED
    BY <1>1, <2>1, OnlyTaken
<1>3. ASSUME NEW a \in Addresses, held[p][a] > 0, held' = GivesUp(p, a) PROVE FALSE
  <2>1. OneTaken(held', held, p, a)
    BY <1>1, <1>3, GivingUp
  <2>2. held[o][d] >= held'[o][d]
    BY <1>1, <2>1, OnlyTaken
  <2>. QED
    BY <1>1, <2>2
<1>4. ASSUME NEW a \in Addresses, NEW b \in Addresses, held[p][a] > 0, b \notin allocated,
             held' = Exchanges(p, a, b)
      PROVE  c = a /\ d = b
  <2>1. a # b /\ held[p][b] = 0
    BY <1>4, OwnedFacts, FreeFacts
  <2>2. \A q \in Owners, x \in Addresses :
          held'[q][x] = IF q = p /\ x = b THEN 1
                        ELSE IF q = p /\ x = a THEN held[q][x] - 1 ELSE held[q][x]
    BY <1>1, <1>4, <2>1 DEF Exchanges, Holdings
  <2>. QED
    BY <1>1, <2>1, <2>2
<1>5. ASSUME NEW a \in Addresses, NEW v \in Values, Store(p, a, v) PROVE FALSE
  BY <1>1, <1>5 DEF Store
<1>6. ASSUME NEW a \in Addresses, NEW n \in Sizes PROVE ~Alloc(p, n, a)
  BY <1>2 DEF Alloc
<1>7. ASSUME NEW a \in Addresses PROVE ~Retain(p, a) /\ ~Release(p, a) /\ ~Autorelease(p, a)
  BY <1>2, <1>3 DEF Retain, Release, Autorelease
<1>8. ASSUME NEW a \in Addresses, NEW n \in Sizes
      PROVE  ~GrowSharedFails(p, a, n) /\ ~GrowOwnFails(p, a, n)
  BY <1>3 DEF GrowSharedFails, GrowOwnFails, TooSmall
<1>9. PICK a \in Addresses, b \in Addresses, n \in Sizes :
        GrowOwn(p, a, n, b) \/ GrowShared(p, a, n, b)
  BY <1>5, <1>6, <1>7, <1>8 DEF Step
<1>10. c = a /\ d = b
  BY <1>4, <1>9 DEF GrowOwn, GrowShared, TooSmall
<1>11. content'[b] = content[a]
  BY <1>1, <1>9 DEF GrowOwn, GrowShared, Copied
<1>. QED
  BY <1>10, <1>11

(* Growing a block (mgn_mem_ralloc) carries what it holds along, whether    *)
(* the block moves or one of its owners gets a copy.                        *)
THEOREM ContentIsCarried == Spec => ContentFollowsOwner
<1>1. ASSUME IInv, [Next]_vars
      PROVE  [ \A o \in Owners, a, b \in Addresses :
                 (held'[o][a] < held[o][a] /\ held'[o][b] > held[o][b]) =>
                   content'[b] = content[a] ]_vars
  <2>1. CASE UNCHANGED vars
    BY <2>1
  <2>2. ASSUME NEW p \in Owners, Step(p), NEW o \in Owners,
               NEW a \in Addresses, NEW b \in Addresses,
               held'[o][a] < held[o][a], held'[o][b] > held[o][b]
        PROVE  content'[b] = content[a]
    BY <1>1, <2>2, StepCarriesContent
  <2>3. ASSUME ReleaseUnused \/ ReleaseAll, NEW o \in Owners, NEW b \in Addresses
        PROVE  ~(held'[o][b] > held[o][b])
    <3>1. held[o][b] \in Nat
      BY <1>1, Parts DEF Holdings
    <3>. QED
      BY <2>3, <3>1 DEF ReleaseUnused, ReleaseAll, NobodyHolds
  <2>4. CASE Next
    BY <2>2, <2>3, <2>4 DEF Next
  <2>. QED
    BY <1>1, <2>1, <2>4
<1>. QED
  BY <1>1, Inductive, PTL DEF Spec, ContentFollowsOwner

=============================================================================
