------------------------- MODULE JavaMemCacheProofs -------------------------
(***************************************************************************)
(* Proofs about the shared array cache of module JavaMemCache, for any     *)
(* number of threads and arrays and any sizes.  First, with IInv and       *)
(* whatever the rounding of sizes: an array has one holder.  Then, on top  *)
(* of it, with MemInv: arrays are long enough, bytes stay those of their   *)
(* thread and the cache counts its bytes.                                  *)
(***************************************************************************)
EXTENDS JavaMemCache, FiniteSetTheorems, TLAPS

-----------------------------------------------------------------------------
(* The natural numbers. *)
VP == INSTANCE VarIntProofs WITH
  W <- 8, sent <- Null, signed <- FALSE, wire <- <<>>, position <- 0, got <- Null

LEMMA WidthOfTheCode == 8 \in Nat /\ 8 >= 1
OBVIOUS

(* What the proofs need of natural numbers, as module VarIntProofs proves it. *)
LEMMA LeastNatural ==
  ASSUME NEW T, T \subseteq Nat, T # {}
  PROVE  \E x \in T : \A y \in T : x <= y
BY WidthOfTheCode, VP!LeastNatural, Zenon

LEMMA SetInduction ==
  ASSUME NEW P, 0 \in P, \A n \in Nat : n \in P => n + 1 \in P
  PROVE  Nat \subseteq P
BY WidthOfTheCode, VP!SetInduction, Zenon

LEMMA GreatestNatural ==
  ASSUME NEW T, T \subseteq Nat, T # {}, NEW b \in Nat, \A y \in T : y <= b
  PROVE  \E x \in T : \A y \in T : y <= x
BY WidthOfTheCode, VP!GreatestNatural, Zenon

LEMMA PowerOfZero == 2 ^ 0 = 1
BY WidthOfTheCode, VP!PowerOfZero, Zenon

LEMMA PowerType == \A k \in Nat : 2 ^ k \in Nat \ {0}
BY WidthOfTheCode, VP!PowerType, Zenon

LEMMA PowerAbove == \A k \in Nat : k < 2 ^ k
BY WidthOfTheCode, VP!PowerAbove, Zenon

LEMMA ElementTaken ==
  ASSUME NEW T, T # {}, IsFiniteSet(T), NEW x \in T
  PROVE  /\ IsFiniteSet(T \ {x}) /\ Cardinality(T) \in Nat \ {0}
         /\ Cardinality(T \ {x}) = Cardinality(T) - 1
BY WidthOfTheCode, VP!ElementTaken, Zenon DEF IsFiniteSet, VP!IsFiniteSet, Cardinality, VP!Cardinality

LEMMA FiniteBound ==
  ASSUME NEW S, IsFiniteSet(S), S \subseteq Nat
  PROVE  \E b \in Nat : \A y \in S : y <= b
BY WidthOfTheCode, VP!FiniteBound, Zenon DEF IsFiniteSet, VP!IsFiniteSet

-----------------------------------------------------------------------------
Labels == {"idle", "new", "new copy", "new null", "grow copy", "grow release", "grow assign",
           "forget"}

Queues == [Classes -> Seq(Arrays)]

(* What the queues and the variables of the threads hold, and what a thread *)
(* has in hand where it is.                                                 *)
Control ==
  /\ memcache \in Queues
  /\ data \in [Threads -> Arrays \cup {Null}]
  /\ newData \in [Threads -> Arrays \cup {Null}]
  /\ pc \in [Threads -> Labels]
  /\ \A t \in Threads :
       /\ pc[t] \in {"idle", "forget"} => newData[t] = Null
       /\ pc[t] \notin {"idle", "forget"} => newData[t] # Null
       /\ pc[t] \in {"new", "new copy", "new null"} => data[t] = Null
       /\ pc[t] \in {"grow copy", "grow release", "grow assign"} => data[t] # Null

(* A queue m holds a, holds nothing twice. *)
Holds(m, a) == \E c \in Classes : \E i \in 1 .. Len(m[c]) : m[c][i] = a
NothingTwice(m) ==
  \A c, d \in Classes : \A i \in 1 .. Len(m[c]), j \in 1 .. Len(m[d]) :
    m[c][i] = m[d][j] => c = d /\ i = j

(* The hands on the arrays: of each thread, and of the cache. *)
OneHand ==
  /\ \A t \in Threads : \A a \in InUse(t) : ~Holds(memcache, a)
  /\ \A t, u \in Threads : t # u => InUse(t) \cap InUse(u) = {}
  /\ \A t \in Threads : newData[t] # Null => newData[t] # data[t]
  /\ NothingTwice(memcache)

IInv == Control /\ OneHand

-----------------------------------------------------------------------------
(* Giving an array to a queue, and taking the first one of a queue. *)
Given(m, c, a) == [m EXCEPT ![c] = Append(@, a)]

LEMMA Giving ==
  ASSUME NEW m \in Queues, NothingTwice(m), NEW a \in Arrays, ~Holds(m, a), NEW c
  PROVE  /\ Given(m, c, a) \in Queues /\ NothingTwice(Given(m, c, a))
         /\ \A b : Holds(Given(m, c, a), b) => b = a \/ Holds(m, b)
         /\ c \in Classes => \A b : b = a \/ Holds(m, b) => Holds(Given(m, c, a), b)
<1> DEFINE n == Given(m, c, a)
<1>0. n = [m EXCEPT ![c] = Append(@, a)]
  BY DEF Given
<1> HIDE DEF n
<1>. SUFFICES /\ n \in Queues /\ NothingTwice(n)
              /\ \A b : Holds(n, b) => b = a \/ Holds(m, b)
              /\ c \in Classes => \A b : b = a \/ Holds(m, b) => Holds(n, b)
  BY DEF n
<1>1. CASE c \notin Classes
  <2>1. n = m
    BY <1>0, <1>1 DEF Queues
  <2>. QED
    BY <1>1, <2>1
<1>2. CASE c \in Classes
  <2>1. /\ n \in Queues
        /\ \A d \in Classes \ {c} : n[d] = m[d]
        /\ n[c] = Append(m[c], a)
    BY <1>0, <1>2 DEF Queues
  <2>2. m[c] \in Seq(Arrays)
    BY <1>2 DEF Queues
  <2>3. /\ Len(n[c]) = Len(m[c]) + 1 /\ Len(m[c]) \in Nat
        /\ n[c][Len(m[c]) + 1] = a
        /\ \A i \in 1 .. Len(m[c]) : n[c][i] = m[c][i]
    <3>1. PICK s \in Seq(Arrays) : s = m[c]
      BY <2>2
    <3>2. PICK t : t = Append(s, a)
      OBVIOUS
    <3>3. /\ Len(t) = Len(s) + 1 /\ Len(s) \in Nat /\ t[Len(s) + 1] = a
          /\ \A i \in 1 .. Len(s) : t[i] = s[i]
      BY <3>2
    <3>. QED
      BY <2>1, <3>1, <3>2, <3>3
  <2>4. \A b : Holds(n, b) => b = a \/ Holds(m, b)
    <3>. SUFFICES ASSUME NEW d \in Classes, NEW i \in 1 .. Len(n[d])
                  PROVE  n[d][i] = a \/ Holds(m, n[d][i])
      BY DEF Holds
    <3>1. CASE d = c
      <4>1. i = Len(m[c]) + 1 \/ i \in 1 .. Len(m[c])
        BY <2>3, <3>1
      <4>. QED
        BY <1>2, <2>3, <3>1, <4>1 DEF Holds
    <3>2. CASE d # c
      BY <2>1, <3>2 DEF Holds
    <3>. QED
      BY <3>1, <3>2
  <2>5. \A d \in Classes : \A i \in 1 .. Len(n[d]) :
          \/ d = c /\ i = Len(m[c]) + 1 /\ n[d][i] = a
          \/ i \in 1 .. Len(m[d]) /\ n[d][i] = m[d][i] /\ n[d][i] # a
    <3>1. \A d \in Classes : \A i \in 1 .. Len(m[d]) : m[d][i] # a
      BY DEF Holds
    <3>2. \A i \in 1 .. Len(n[c]) :
            \/ i = Len(m[c]) + 1 /\ n[c][i] = a
            \/ i \in 1 .. Len(m[c]) /\ n[c][i] = m[c][i] /\ n[c][i] # a
      BY <1>2, <2>3, <3>1
    <3>3. \A d \in Classes \ {c} : \A i \in 1 .. Len(n[d]) :
            i \in 1 .. Len(m[d]) /\ n[d][i] = m[d][i] /\ n[d][i] # a
      BY <2>1, <3>1
    <3>. QED
      BY <3>2, <3>3
  <2>6. NothingTwice(n)
    BY <2>5 DEF NothingTwice
  <2>7. \A b : b = a \/ Holds(m, b) => Holds(n, b)
    <3>1. Holds(n, a)
      BY <1>2, <2>3 DEF Holds
    <3>2. \A d \in Classes : \A i \in 1 .. Len(m[d]) : i \in 1 .. Len(n[d]) /\ n[d][i] = m[d][i]
      BY <2>1, <2>3
    <3>. QED
      BY <3>1, <3>2 DEF Holds
  <2>. QED
    BY <2>1, <2>4, <2>6, <2>7
<1>. QED
  BY <1>1, <1>2

LEMMA TakingFirst ==
  ASSUME NEW m \in Queues, NothingTwice(m), NEW c \in Classes, m[c] # <<>>,
         NEW n, n = [m EXCEPT ![c] = Tail(@)]
  PROVE  /\ n \in Queues /\ NothingTwice(n)
         /\ Head(m[c]) \in Arrays /\ Holds(m, Head(m[c])) /\ ~Holds(n, Head(m[c]))
         /\ \A b : Holds(n, b) => Holds(m, b)
         /\ \A b : Holds(m, b) => b = Head(m[c]) \/ Holds(n, b)
<1>1. m[c] \in Seq(Arrays) /\ Len(m[c]) \in Nat \ {0}
  BY DEF Queues
<1>2. /\ n \in Queues
      /\ \A d \in Classes \ {c} : n[d] = m[d]
      /\ n[c] = Tail(m[c])
  BY <1>1 DEF Queues
<1>3. /\ Len(n[c]) = Len(m[c]) - 1
      /\ \A i \in 1 .. Len(n[c]) : n[c][i] = m[c][i + 1]
      /\ Head(m[c]) = m[c][1] /\ m[c][1] \in Arrays
  <2>1. ASSUME NEW s \in Seq(Arrays), s # <<>>
        PROVE  /\ Len(Tail(s)) = Len(s) - 1
               /\ \A i \in 1 .. Len(Tail(s)) : Tail(s)[i] = s[i + 1]
               /\ Head(s) = s[1] /\ s[1] \in Arrays
    BY <2>1
  <2>. QED
    BY <1>1, <1>2, <2>1
<1>4. \A d \in Classes : \A i \in 1 .. Len(n[d]) :
        \/ d # c /\ i \in 1 .. Len(m[d]) /\ n[d][i] = m[d][i]
        \/ d = c /\ i + 1 \in 2 .. Len(m[d]) /\ n[d][i] = m[d][i + 1]
  BY <1>1, <1>2, <1>3
<1>5. Holds(m, Head(m[c]))
  BY <1>1, <1>3 DEF Holds
<1>6. ~Holds(n, Head(m[c]))
  BY <1>1, <1>3, <1>4 DEF Holds, NothingTwice
<1>7. \A b : Holds(n, b) => Holds(m, b)
  BY <1>1, <1>4 DEF Holds
<1>8. NothingTwice(n)
  BY <1>1, <1>4 DEF NothingTwice
<1>9. \A b : Holds(m, b) => b = Head(m[c]) \/ Holds(n, b)
  <2>1. \A i \in 1 .. Len(m[c]) : i = 1 \/ (i - 1 \in 1 .. Len(n[c]) /\ n[c][i - 1] = m[c][i])
    BY <1>1, <1>3
  <2>. QED
    BY <1>2, <1>3, <2>1 DEF Holds
<1>. QED
  BY <1>2, <1>3, <1>5, <1>6, <1>7, <1>8, <1>9

(* What is cached is what a queue holds. *)
LEMMA CachedIsHeld ==
  ASSUME memcache \in Queues, NEW a
  PROVE  a \in Cached <=> Holds(memcache, a)
<1>1. \A c \in Classes : memcache[c] \in Seq(Arrays)
  BY DEF Queues
<1>2. \A c \in Classes : DOMAIN memcache[c] = 1 .. Len(memcache[c])
  BY <1>1
<1>. QED
  BY <1>2 DEF Cached, Holds, Range

LEMMA InvariantGivesOneHolder == IInv => OneHolder
<1>. SUFFICES ASSUME IInv PROVE OneHolder
  OBVIOUS
<1>1. memcache \in Queues /\ OneHand
  BY DEF IInv, Control
<1>2. \A t \in Threads : InUse(t) \cap Cached = {}
  BY <1>1, CachedIsHeld DEF OneHand
<1>3. \A c \in Classes : DOMAIN memcache[c] = 1 .. Len(memcache[c])
  <2>1. \A c \in Classes : memcache[c] \in Seq(Arrays)
    BY <1>1 DEF Queues
  <2>. QED
    BY <2>1
<1>. QED
  BY <1>1, <1>2, <1>3 DEF OneHand, NothingTwice, OneHolder

-----------------------------------------------------------------------------
(* An array nobody reaches is in no hand. *)
LEMMA FreshIsFree ==
  ASSUME Control, NEW a \in Arrays \ Reachable
  PROVE  /\ a # Null /\ ~Holds(memcache, a)
         /\ \A u \in Threads : a \notin InUse(u) /\ a # data[u] /\ a # newData[u]
<1>1. a # Null
  BY NullAssumption
<1>2. a \notin Cached /\ a \notin Range(data) /\ a \notin Range(newData)
  BY <1>1 DEF Reachable
<1>3. ~Holds(memcache, a)
  BY <1>2, CachedIsHeld DEF Control
<1>4. \A u \in Threads : a # data[u] /\ a # newData[u]
  BY <1>2 DEF Control, Range
<1>. QED
  BY <1>1, <1>3, <1>4 DEF InUse

(* One thread t moves: its hands are its own, and the queues take nothing   *)
(* from the hands of others.                                                *)
OnlyMoves(t) ==
  \A u \in Threads \ {t} :
    data'[u] = data[u] /\ newData'[u] = newData[u] /\ pc'[u] = pc[u]

LEMMA HandsMove ==
  ASSUME OneHand, NEW t \in Threads, OnlyMoves(t),
         NothingTwice(memcache'),
         \A a \in InUse(t)' : ~Holds(memcache', a) /\ \A u \in Threads \ {t} : a \notin InUse(u),
         \A a : Holds(memcache', a) =>
           Holds(memcache, a) \/ \A u \in Threads \ {t} : a \notin InUse(u),
         newData'[t] # Null => newData'[t] # data'[t]
  PROVE  OneHand'
<1>1. \A u \in Threads \ {t} : InUse(u)' = InUse(u)
  BY DEF OnlyMoves, InUse
<1>2. \A u \in Threads : \A a \in InUse(u)' : ~Holds(memcache', a)
  BY <1>1 DEF OneHand
<1>3. \A u, v \in Threads : u # v => InUse(u)' \cap InUse(v)' = {}
  BY <1>1 DEF OneHand
<1>4. \A u \in Threads : newData'[u] # Null => newData'[u] # data'[u]
  BY DEF OneHand, OnlyMoves
<1>. QED
  BY <1>2, <1>3, <1>4 DEF OneHand

(* The same where t keeps what it has in hand, or less, and no queue moves. *)
LEMMA HandsStay ==
  ASSUME OneHand, NEW t \in Threads, OnlyMoves(t), memcache' = memcache,
         InUse(t)' \subseteq InUse(t),
         newData'[t] # Null => newData'[t] # data'[t]
  PROVE  OneHand'
<1>1. \A a \in InUse(t) : ~Holds(memcache, a) /\ \A u \in Threads \ {t} : a \notin InUse(u)
  BY DEF OneHand
<1>2. NothingTwice(memcache')
  BY DEF OneHand
<1>. QED
  BY <1>1, <1>2, HandsMove

(* allocBytes gives t an array nobody has in hand any more. *)
LEMMA Allocating ==
  ASSUME IInv, NEW t \in Threads, NEW n, NEW then \in {"new", "new copy", "new null", "grow copy"},
         pc[t] = "idle", AllocBytes(t, n, then),
         then = "grow copy" => data[t] # Null,
         then # "grow copy" => data[t] = Null
  PROVE  IInv'
<1>1. /\ Control /\ OneHand /\ NothingTwice(memcache)
      /\ data' = data /\ pc' = [pc EXCEPT ![t] = then]
  BY DEF IInv, OneHand, AllocBytes, Goto, buffer
<1>2. data[t] # Null => data[t] \in InUse(t)
  BY DEF InUse
<1>3. \E a \in Arrays :
        /\ newData' = [newData EXCEPT ![t] = a]
        /\ a # data[t] /\ ~Holds(memcache', a)
        /\ \A u \in Threads : a \notin InUse(u)
        /\ memcache' \in Queues /\ NothingTwice(memcache')
        /\ \A b : Holds(memcache', b) => Holds(memcache, b)
  <2>1. CASE /\ RoundedUp(n) \in Classes /\ memcache[RoundedUp(n)] # <<>>
             /\ newData' = [newData EXCEPT ![t] = Head(memcache[RoundedUp(n)])]
             /\ memcache' = Polled(RoundedUp(n))
    <3>0. PICK a : a = Head(memcache[RoundedUp(n)])
      OBVIOUS
    <3>1. /\ memcache' \in Queues /\ NothingTwice(memcache')
          /\ a \in Arrays /\ Holds(memcache, a) /\ ~Holds(memcache', a)
          /\ \A b : Holds(memcache', b) => Holds(memcache, b)
      <4>1. ASSUME NEW c \in Classes, memcache[c] # <<>>, memcache' = Polled(c)
            PROVE  /\ memcache' \in Queues /\ NothingTwice(memcache')
                   /\ Head(memcache[c]) \in Arrays /\ Holds(memcache, Head(memcache[c]))
                   /\ ~Holds(memcache', Head(memcache[c]))
                   /\ \A b : Holds(memcache', b) => Holds(memcache, b)
        <5>1. memcache \in Queues /\ memcache' = [memcache EXCEPT ![c] = Tail(@)]
          BY <1>1, <4>1 DEF Control, Polled
        <5>. QED
          BY <1>1, <4>1, <5>1, TakingFirst
      <4>. QED
        BY <2>1, <3>0, <4>1
    <3>2. \A u \in Threads : a \notin InUse(u)
      BY <1>1, <3>1 DEF OneHand
    <3>3. a # data[t]
      BY <1>2, <3>1, <3>2, NullAssumption
    <3>. QED
      BY <2>1, <3>0, <3>1, <3>2, <3>3
  <2>2. ASSUME NEW a \in Arrays, Fresh(a, RoundedUp(n), Null),
               newData' = [newData EXCEPT ![t] = a], memcache' = memcache
        PROVE  /\ a # data[t] /\ ~Holds(memcache', a)
               /\ \A u \in Threads : a \notin InUse(u)
    BY <1>1, <2>2, FreshIsFree DEF Fresh
  <2>. QED
    BY <1>1, <2>1, <2>2 DEF AllocBytes, cache, Control
<1>4. PICK a \in Arrays :
        /\ newData' = [newData EXCEPT ![t] = a]
        /\ a # data[t] /\ ~Holds(memcache', a)
        /\ \A u \in Threads : a \notin InUse(u)
        /\ memcache' \in Queues /\ NothingTwice(memcache')
        /\ \A b : Holds(memcache', b) => Holds(memcache, b)
  BY <1>3
<1>5. newData'[t] = a /\ pc'[t] = then /\ a # Null
  BY <1>1, <1>4, NullAssumption DEF Control
<1>6. OnlyMoves(t)
  BY <1>1, <1>4 DEF OnlyMoves, Control
<1>7. Control'
  BY <1>1, <1>4, <1>5 DEF Control, Labels
<1>8. InUse(t)' \subseteq InUse(t) \cup {a}
  BY <1>1, <1>5 DEF InUse
<1>9. \A b \in InUse(t) : ~Holds(memcache, b) /\ \A u \in Threads \ {t} : b \notin InUse(u)
  BY <1>1 DEF OneHand
<1>10. OneHand'
  BY <1>1, <1>4, <1>5, <1>6, <1>8, <1>9, HandsMove
<1>. QED
  BY <1>7, <1>10 DEF IInv

-----------------------------------------------------------------------------
(* One lemma for each of the other steps of a thread. *)
LEMMA Constructing ==
  ASSUME IInv, NEW t \in Threads, Construct(t)
  PROVE  IInv'
<1>1. Control /\ OneHand /\ data[t] = Null /\ memcache' = memcache
  BY DEF IInv, Control, Construct, cache
<1>2. /\ data' = [data EXCEPT ![t] = newData[t]]
      /\ newData' = [newData EXCEPT ![t] = Null] /\ pc' = [pc EXCEPT ![t] = "idle"]
  BY DEF Construct, Goto
<1>3. /\ data'[t] = newData[t] /\ newData'[t] = Null /\ pc'[t] = "idle"
      /\ OnlyMoves(t)
  BY <1>1, <1>2 DEF Control, OnlyMoves
<1>4. InUse(t)' \subseteq InUse(t)
  BY <1>1, <1>3 DEF InUse
<1>5. OneHand'
  BY <1>1, <1>3, <1>4, HandsStay
<1>6. Control'
  BY <1>1, <1>2, <1>3 DEF Control, Labels
<1>. QED
  BY <1>5, <1>6 DEF IInv

LEMMA Adopting ==
  ASSUME IInv, NEW t \in Threads, NEW n, Adopt(t, n)
  PROVE  IInv'
<1>1. Control /\ OneHand /\ data[t] = Null /\ pc[t] = "idle" /\ newData[t] = Null
  BY DEF IInv, Control, Adopt
<1>2. PICK a \in Arrays : Fresh(a, n, t) /\ data' = [data EXCEPT ![t] = a]
  BY DEF Adopt
<1>3. /\ ~Holds(memcache, a) /\ \A u \in Threads : a \notin InUse(u)
      /\ a # Null
  BY <1>1, <1>2, FreshIsFree DEF Fresh
<1>4. /\ memcache' = memcache /\ newData' = newData /\ pc' = pc
      /\ data'[t] = a /\ OnlyMoves(t)
  BY <1>1, <1>2 DEF Adopt, cache, frame, Control, OnlyMoves
<1>5. InUse(t)' \subseteq {a}
  BY <1>1, <1>4 DEF InUse
<1>6. OneHand'
  BY <1>1, <1>3, <1>4, <1>5, HandsMove DEF OneHand
<1>7. Control'
  BY <1>1, <1>2, <1>4 DEF Control
<1>. QED
  BY <1>6, <1>7 DEF IInv

LEMMA Keeping ==
  ASSUME IInv, memcache' = memcache, data' = data, newData' = newData, pc' = pc
  PROVE  IInv'
<1>1. \A t \in Threads : InUse(t)' = InUse(t)
  BY DEF InUse
<1>2. OneHand'
  BY <1>1 DEF IInv, OneHand
<1>3. Control'
  BY DEF IInv, Control
<1>. QED
  BY <1>2, <1>3 DEF IInv

LEMMA Putting ==
  ASSUME IInv, NEW t \in Threads, NEW n, Put(t, n)
  PROVE  IInv'
<1>1. CASE UNCHANGED <<cache, data, capacity, frame>>
  BY <1>1, Keeping DEF cache, frame
<1>2. CASE AllocBytes(t, n, "grow copy")
  BY <1>2, Allocating DEF Put
<1>. QED
  BY <1>1, <1>2 DEF Put

LEMMA CopyingOver ==
  ASSUME IInv, NEW t \in Threads, GrowCopy(t)
  PROVE  IInv'
<1>1. /\ Control /\ OneHand /\ newData[t] # data[t]
      /\ memcache' = memcache /\ data' = data /\ newData' = newData
      /\ pc' = [pc EXCEPT ![t] = "grow release"] /\ pc[t] = "grow copy"
  BY DEF IInv, Control, OneHand, GrowCopy, cache, Goto
<1>2. pc'[t] = "grow release" /\ OnlyMoves(t)
  BY <1>1 DEF Control, OnlyMoves
<1>3. InUse(t)' \subseteq InUse(t)
  BY <1>1, <1>2 DEF InUse
<1>4. OneHand'
  BY <1>1, <1>2, <1>3, HandsStay
<1>5. Control'
  BY <1>1, <1>2 DEF Control, Labels
<1>. QED
  BY <1>4, <1>5 DEF IInv

(* An array in the hands of t goes to the cache, which t then leaves alone. *)
LEMMA Releasing ==
  ASSUME IInv, NEW t \in Threads, data[t] # Null, pc[t] \in {"idle", "grow release"},
         ReleaseBytes(data[t]), data' = data, newData' = newData,
         NEW next, pc' = [pc EXCEPT ![t] = next],
         next = IF pc[t] = "idle" THEN "forget" ELSE "grow assign"
  PROVE  IInv'
<1>1. /\ Control /\ OneHand /\ NothingTwice(memcache) /\ memcache \in Queues
      /\ newData[t] # Null => newData[t] # data[t]
      /\ data[t] \in Arrays
  BY DEF IInv, Control, OneHand
<1>2. data[t] \in InUse(t)
  BY DEF InUse
<1>3. ~Holds(memcache, data[t]) /\ \A u \in Threads \ {t} : data[t] \notin InUse(u)
  BY <1>1, <1>2 DEF OneHand
<1>4. /\ memcache' \in Queues /\ NothingTwice(memcache')
      /\ \A b : Holds(memcache', b) => b = data[t] \/ Holds(memcache, b)
  <2>1. CASE memcache' = memcache
    BY <1>1, <2>1
  <2>2. CASE memcache' = Given(memcache, ReleaseClass(data[t]), data[t])
    BY <1>1, <1>3, <2>2, Giving
  <2>3. \/ memcache' = memcache
        \/ memcache' = Given(memcache, ReleaseClass(data[t]), data[t])
    BY DEF ReleaseBytes, cache, Given
  <2>. QED
    BY <2>1, <2>2, <2>3
<1>5. pc'[t] = next /\ OnlyMoves(t)
  BY <1>1 DEF Control, OnlyMoves
<1>6. \A a \in InUse(t)' : a \in InUse(t) /\ a # data[t]
  BY <1>1, <1>5 DEF InUse
<1>7. \A a \in InUse(t) : ~Holds(memcache, a) /\ \A u \in Threads \ {t} : a \notin InUse(u)
  BY <1>1 DEF OneHand
<1>8. OneHand'
  BY <1>1, <1>3, <1>4, <1>5, <1>6, <1>7, HandsMove
<1>9. Control'
  BY <1>1, <1>4, <1>5 DEF Control, Labels
<1>. QED
  BY <1>8, <1>9 DEF IInv

LEMMA Assigning ==
  ASSUME IInv, NEW t \in Threads, GrowAssign(t)
  PROVE  IInv'
<1>1. /\ Control /\ OneHand /\ memcache' = memcache
      /\ newData[t] # Null /\ newData[t] # data[t]
  BY DEF IInv, Control, OneHand, GrowAssign, cache
<1>2. /\ data' = [data EXCEPT ![t] = newData[t]]
      /\ newData' = [newData EXCEPT ![t] = Null] /\ pc' = [pc EXCEPT ![t] = "idle"]
  BY DEF GrowAssign, Goto
<1>3. /\ data'[t] = newData[t] /\ newData'[t] = Null /\ pc'[t] = "idle"
      /\ OnlyMoves(t)
  BY <1>1, <1>2 DEF Control, OnlyMoves
<1>4. InUse(t)' \subseteq InUse(t)
  BY <1>1, <1>3 DEF InUse
<1>5. OneHand'
  BY <1>1, <1>3, <1>4, HandsStay
<1>6. Control'
  BY <1>1, <1>2, <1>3 DEF Control, Labels
<1>. QED
  BY <1>5, <1>6 DEF IInv

LEMMA Leaving ==
  ASSUME IInv, NEW t \in Threads, Forget(t) \/ Drop(t)
  PROVE  IInv'
<1>1. /\ Control /\ OneHand /\ memcache' = memcache /\ newData' = newData
      /\ newData[t] = Null /\ data' = [data EXCEPT ![t] = Null]
      /\ pc' = [pc EXCEPT ![t] = "idle"]
  BY DEF IInv, Control, Forget, Drop, Gone, Goto, cache
<1>2. data'[t] = Null /\ pc'[t] = "idle" /\ OnlyMoves(t)
  BY <1>1 DEF Control, OnlyMoves
<1>3. InUse(t)' = {}
  BY <1>1, <1>2 DEF InUse
<1>4. OneHand'
  BY <1>1, <1>2, <1>3, HandsStay
<1>5. Control'
  BY <1>1, <1>2 DEF Control, Labels
<1>. QED
  BY <1>4, <1>5 DEF IInv

LEMMA InitHolds == Init => IInv
<1>. SUFFICES ASSUME Init PROVE IInv
  OBVIOUS
<1>1. Control
  BY DEF Init, Control, Queues, Labels
<1>2. \A a : ~Holds(memcache, a)
  BY DEF Init, Holds
<1>3. NothingTwice(memcache)
  BY DEF Init, NothingTwice
<1>4. \A t \in Threads : InUse(t) = {}
  BY DEF Init, InUse
<1>5. \A t \in Threads : newData[t] = Null
  BY DEF Init
<1>. QED
  BY <1>1, <1>2, <1>3, <1>4, <1>5 DEF IInv, OneHand

LEMMA StepKeeps == IInv /\ [Next]_vars => IInv'
<1>. SUFFICES ASSUME IInv, [Next]_vars PROVE IInv'
  OBVIOUS
<1>1. ASSUME NEW t \in Threads, Step(t) PROVE IInv'
  <2>1. ASSUME NEW n, New(t, n, "new") \/ New(t, n, "new copy") \/ New(t, n, "new null")
        PROVE  IInv'
    BY <2>1, Allocating DEF New
  <2>2. ASSUME NEW n \in Requests, Adopt(t, n) \/ Put(t, n) PROVE IInv'
    BY <2>2, Adopting, Putting
  <2>3. CASE GrowRelease(t)
    <3>1. data[t] # Null
      BY <2>3 DEF IInv, Control, GrowRelease
    <3>. QED
      BY <2>3, <3>1, Releasing DEF GrowRelease, Goto, buffer
  <2>4. CASE ReleaseForReuse(t)
    BY <2>4, Releasing DEF ReleaseForReuse, Goto, buffer
  <2>5. CASE Clear(t)
    BY <2>5, Keeping DEF Clear, cache, frame
  <2>. QED
    BY <1>1, <2>1, <2>2, <2>3, <2>4, <2>5, Constructing, CopyingOver, Assigning, Leaving DEF Step
<1>2. CASE UNCHANGED vars
  BY <1>2, Keeping DEF vars, cache, buffer, frame
<1>. QED
  BY <1>1, <1>2 DEF Next

(* An array is never in two hands: what a thread may still touch is in no   *)
(* queue of the cache and in the hands of no other thread, in any           *)
(* interleaving of allocBytes, releaseBytes, capacity(int) and              *)
(* releaseForReuse (DyBuf.java), although the cache has the old array of a  *)
(* growing buffer before the buffer has its new one.                        *)
THEOREM OneHolderAlways == Spec => []OneHolder
<1>. QED
  BY InitHolds, StepKeeps, InvariantGivesOneHolder, PTL DEF Spec

-----------------------------------------------------------------------------
(* Powers and how sizes are rounded to them. *)
LEMMA LargestRequest ==
  Max(Requests) \in Nat /\ \A n \in Requests : n <= Max(Requests)
<1>1. PICK b \in Nat : \A y \in Requests : y <= b
  BY CacheAssumption, FiniteBound
<1>2. \E x \in Requests : \A y \in Requests : y <= x
  BY <1>1, CacheAssumption, GreatestNatural
<1>3. Max(Requests) \in Requests /\ \A y \in Requests : Max(Requests) >= y
  BY <1>2, CacheAssumption DEF Max
<1>. QED
  BY <1>3, CacheAssumption

LEMMA PowersAreNumbers == Powers \subseteq Nat \ {0} /\ Unit \in Powers
<1>. DEFINE top == Max(Requests) + MaxCacheSize
<1>1. top \in Nat /\ Unit \in Nat \ {0}
  BY LargestRequest, CacheAssumption
<1>2. \A k \in 0 .. top : Unit * 2 ^ k \in Nat \ {0}
  <2>1. \A k \in 0 .. top : 2 ^ k \in Nat \ {0}
    BY PowerType
  <2>. HIDE DEF top
  <2>. QED
    BY <1>1, <2>1
<1>3. 0 \in 0 .. top /\ Unit * 2 ^ 0 = Unit
  BY <1>1, PowerOfZero
<1>. QED
  BY <1>2, <1>3 DEF Powers

Sizes == Requests \cup {Unit}

LEMMA RequestsRoundUp ==
  ASSUME NEW n \in Sizes
  PROVE  RoundedUp(n) \in Powers /\ RoundedUp(n) \in Nat /\ RoundedUp(n) >= n
<1>. DEFINE top == Max(Requests) + MaxCacheSize
            Above == {c \in Powers : c >= n}
<1>1. top \in Nat /\ n \in Nat /\ Unit \in Nat \ {0}
  BY LargestRequest, CacheAssumption DEF Sizes
<1>2. ASSUME n \in Requests PROVE Above # {}
  <2>1. n <= top
    BY <1>2, LargestRequest, CacheAssumption
  <2>2. top < 2 ^ top /\ 2 ^ top \in Nat
    BY <1>1, PowerAbove, PowerType
  <2>3. \A u \in Nat \ {0}, p \in Nat : u * p >= p
    OBVIOUS
  <2>4. Unit * 2 ^ top >= 2 ^ top /\ Unit * 2 ^ top \in Nat
    BY <1>1, <2>2, <2>3
  <2>5. top \in 0 .. top
    BY <1>1
  <2>6. Unit * 2 ^ top \in Powers
    BY <2>5 DEF Powers
  <2>. HIDE DEF top
  <2>. QED
    BY <1>1, <2>1, <2>2, <2>4, <2>6
<1>3. Above # {}
  <2>1. CASE n = Unit
    BY <1>1, <2>1, PowersAreNumbers
  <2>. QED
    BY <1>2, <2>1 DEF Sizes
<1>4. PICK c \in Above : \A d \in Above : c <= d
  BY <1>3, PowersAreNumbers, LeastNatural
<1>5. RoundedUp(n) \in Powers /\ RoundedUp(n) >= n
  BY <1>4 DEF RoundedUp
<1>. QED
  BY <1>5, PowersAreNumbers

LEMMA LengthsRoundDown ==
  ASSUME NEW n \in Unit .. MaxCacheSize
  PROVE  RoundedDown(n) \in Classes /\ RoundedDown(n) <= n
<1>. DEFINE Below == {c \in Powers : c <= n}
<1>1. n \in Nat /\ Unit \in Below /\ Below \subseteq Nat
  <2>1. n \in Nat /\ Unit <= n
    BY CacheAssumption
  <2>. QED
    BY <2>1, PowersAreNumbers
<1>2. PICK c \in Below : \A d \in Below : d <= c
  BY <1>1, GreatestNatural
<1>3. RoundedDown(n) \in Powers /\ RoundedDown(n) <= n
  BY <1>2 DEF RoundedDown
<1>. QED
  BY <1>1, <1>3, PowersAreNumbers, CacheAssumption DEF Classes

-----------------------------------------------------------------------------
(* The arrays on the heap, each with its length. *)
Bytes == Threads \cup {Null}
Blocks == UNION {[0 .. n - 1 -> Bytes] : n \in Nat}
IsHeap(h) == h \in [DOMAIN h -> Blocks] /\ DOMAIN h \subseteq Arrays

LEMMA BlockOf ==
  ASSUME NEW n \in Nat, NEW b \in [0 .. n - 1 -> Bytes]
  PROVE  b \in Blocks /\ DOMAIN b = 0 .. n - 1 /\ Cardinality(DOMAIN b) = n
<1>1. Cardinality(0 .. n - 1) = n
  <2>1. Cardinality(0 .. n - 1) = IF 0 > n - 1 THEN 0 ELSE n - 1 - 0 + 1
    BY FS_Interval, 0 \in Int, n - 1 \in Int
  <2>. QED
    BY <2>1
<1>. QED
  BY <1>1 DEF Blocks

LEMMA BlockFacts ==
  ASSUME NEW b \in Blocks
  PROVE  /\ Cardinality(DOMAIN b) \in Nat
         /\ b \in [0 .. Cardinality(DOMAIN b) - 1 -> Bytes]
<1>1. PICK n \in Nat : b \in [0 .. n - 1 -> Bytes]
  BY DEF Blocks
<1>. QED
  BY <1>1, BlockOf

(* What the queues m and the variables d and w of the threads refer to. *)
Roots(m, d, w) ==
  {a \in Arrays : Holds(m, a) \/ \E u \in Threads : d[u] = a \/ w[u] = a}

LEMMA HeldArrays ==
  ASSUME NEW m \in Queues
  PROVE  UNION {Range(m[c]) : c \in Classes} = {a \in Arrays : Holds(m, a)}
<1>1. \A c \in Classes : m[c] \in Seq(Arrays)
  BY DEF Queues
<1>2. \A c \in Classes : DOMAIN m[c] = 1 .. Len(m[c])
  BY <1>1
<1>3. \A c \in Classes : \A i \in 1 .. Len(m[c]) : m[c][i] \in Arrays
  BY <1>1
<1>. QED
  BY <1>2, <1>3 DEF Holds, Range

LEMMA RootsAre ==
  ASSUME NEW m \in Queues, NEW d \in [Threads -> Arrays \cup {Null}],
         NEW w \in [Threads -> Arrays \cup {Null}]
  PROVE  ((UNION {Range(m[c]) : c \in Classes}) \cup Range(d) \cup Range(w)) \ {Null}
           = Roots(m, d, w)
<1>1. Range(d) = {d[u] : u \in Threads} /\ Range(w) = {w[u] : u \in Threads}
  BY DEF Range
<1>2. Null \notin Arrays
  BY NullAssumption
<1>. QED
  BY <1>1, <1>2, HeldArrays DEF Roots

LEMMA Reached == Control => Reachable = Roots(memcache, data, newData)
BY RootsAre DEF Control, Reachable, Cached
LEMMA ReachedNext == Control' => Reachable' = Roots(memcache', data', newData')
BY RootsAre DEF Control, Reachable, Cached

-----------------------------------------------------------------------------
(* The second invariant: every reference leads to an array, the arrays of   *)
(* the cache and of the threads are as long as they must be, a buffer has   *)
(* what its thread put in it, and the cache counts its bytes.               *)
Numbers ==
  /\ limit \in [Threads -> Nat]
  /\ capacity \in [Threads -> Nat]
  /\ size \in [Threads -> Nat]
  /\ put \in [Threads -> SUBSET Nat]

HeapOK == IsHeap(heap) /\ Reachable \subseteq DOMAIN heap

Own(t) ==
  \A i \in put[t] : i \in 0 .. Length(Current(t)) - 1 /\ heap[Current(t)][i] = t

Backed(t) ==
  /\ pc[t] \notin {"idle", "forget"} => Length(newData[t]) >= size[t]
  /\ pc[t] = "grow copy" => capacity[t] < size[t]
  /\ Holding(t) => limit[t] <= capacity[t] /\ capacity[t] = Length(Current(t)) /\ Own(t)
  /\ data[t] = Null => put[t] = {}

QueuesBacked ==
  \A c \in Classes : \A i \in 1 .. Len(memcache[c]) : Length(memcache[c][i]) >= c

SumOfLengths(h, S) == MapThenSumSet(LAMBDA a : Cardinality(DOMAIN h[a]), S)
Accounts == IsFiniteSet(Cached) /\ totalCachedSize = SumOfLengths(heap, Cached)

MemInv ==
  /\ Numbers
  /\ HeapOK
  /\ \A t \in Threads : Backed(t)
  /\ QueuesBacked
  /\ Accounts

-----------------------------------------------------------------------------
(* What a step of t does to the heap: but for the arrays W it writes, what  *)
(* is reachable before and after stays as it is.                            *)
HeapKept(W) ==
  /\ IsHeap(heap') /\ Reachable' \subseteq DOMAIN heap'
  /\ \A x \in Reachable \cap Reachable' :
       DOMAIN heap'[x] = DOMAIN heap[x] /\ (x \notin W => heap'[x] = heap[x])

LEMMA Standing ==
  ASSUME HeapOK, heap' = heap, Reachable' \subseteq Reachable
  PROVE  HeapKept({})
BY DEF HeapOK, HeapKept, IsHeap

(* The array a is one of n times the byte now. *)
Filled(a, n, byte) ==
  Cardinality(DOMAIN heap'[a]) = n /\ \A i \in 0 .. n - 1 : heap'[a][i] = byte

LEMMA NewArray ==
  ASSUME HeapOK, NEW a, NEW n \in Nat, NEW byte \in Bytes, Fresh(a, n, byte),
         Reachable' \subseteq Reachable \cup {a}
  PROVE  HeapKept({}) /\ Filled(a, n, byte)
<1>. DEFINE b == [i \in 0 .. n - 1 |-> byte]
<1>1. b \in Blocks /\ Cardinality(DOMAIN b) = n
  BY BlockOf
<1>. HIDE DEF b
<1>2. heap' = [x \in Reachable \cup {a} |-> IF x = a THEN b ELSE heap[x]]
  BY DEF Fresh, b
<1>3. a \in Arrays /\ a \notin Reachable
  BY DEF Fresh
<1>4. \A x \in Reachable : x \in DOMAIN heap /\ heap[x] \in Blocks /\ x \in Arrays
  BY DEF HeapOK, IsHeap
<1>5. IsHeap(heap')
  BY <1>1, <1>2, <1>3, <1>4 DEF IsHeap
<1>6. HeapKept({})
  BY <1>2, <1>3, <1>5 DEF HeapKept
<1>7. heap'[a] = b /\ \A i \in 0 .. n - 1 : b[i] = byte
  BY <1>2 DEF b
<1>. QED
  BY <1>1, <1>6, <1>7 DEF Filled

LEMMA Writing ==
  ASSUME HeapOK, NEW x \in DOMAIN heap, NEW b \in Blocks, DOMAIN b = DOMAIN heap[x],
         NEW h, h = [heap EXCEPT ![x] = b],
         Reachable' \subseteq Reachable, heap' = h \/ heap' = Collected(h)
  PROVE  HeapKept({x}) /\ (x \in Reachable' => heap'[x] = b)
<1>1. /\ h \in [DOMAIN heap -> Blocks] /\ DOMAIN heap \subseteq Arrays
      /\ h[x] = b /\ \A y \in DOMAIN heap \ {x} : h[y] = heap[y]
  BY DEF HeapOK, IsHeap
<1>2. Reachable' \subseteq DOMAIN heap /\ DOMAIN h = DOMAIN heap
  BY <1>1 DEF HeapOK
<1>3. /\ heap' \in [DOMAIN heap' -> Blocks] /\ DOMAIN heap' \subseteq Arrays
      /\ Reachable' \subseteq DOMAIN heap' /\ \A y \in Reachable' : heap'[y] = h[y]
  <2>1. CASE heap' = h
    BY <1>1, <1>2, <2>1
  <2>2. CASE heap' = Collected(h)
    <3>1. heap' = [y \in DOMAIN h \cap Reachable' |-> h[y]]
      BY <2>2 DEF Collected, Restrict
    <3>. QED
      BY <1>1, <1>2, <3>1
  <2>. QED
    BY <2>1, <2>2
<1>. QED
  BY <1>1, <1>2, <1>3 DEF HeapKept, IsHeap

LEMMA Collecting ==
  ASSUME HeapOK, heap' = Collected(heap), Reachable' \subseteq Reachable
  PROVE  HeapKept({})
<1>1. heap' = [y \in DOMAIN heap \cap Reachable' |-> heap[y]]
  BY DEF Collected, Restrict
<1>2. heap \in [DOMAIN heap -> Blocks] /\ DOMAIN heap \subseteq Arrays /\ Reachable' \subseteq DOMAIN heap
  BY DEF HeapOK, IsHeap
<1>. QED
  BY <1>1, <1>2 DEF HeapKept, IsHeap

-----------------------------------------------------------------------------
(* F sums v over every subset of S, taking the elements in some order. *)
SumsUp(F, S, v) ==
  F = [T \in SUBSET S |->
         IF T = {} THEN 0
         ELSE v[CHOOSE x \in T : TRUE] + F[T \ {CHOOSE x \in T : TRUE}]]

(* There is such an F, *)
LEMMA SumExists ==
  ASSUME NEW S, IsFiniteSet(S), NEW v
  PROVE  \E F : SumsUp(F, S, v)
<1>. DEFINE Small(n) == {T \in SUBSET S : Cardinality(T) <= n}
            Taken(T) == CHOOSE x \in T : TRUE
            Sums(F, n) == F = [T \in Small(n) |->
                                 IF T = {} THEN 0 ELSE v[Taken(T)] + F[T \ {Taken(T)}]]
            P == {n \in Nat : \E F : Sums(F, n)}
<1>1. \A T \in SUBSET S : IsFiniteSet(T) /\ Cardinality(T) \in Nat
  BY FS_Subset, FS_CardinalityType
<1>2. \A T \in SUBSET S : T # {} =>
        /\ Taken(T) \in T /\ T \ {Taken(T)} \in SUBSET S
        /\ Cardinality(T) \in Nat \ {0}
        /\ Cardinality(T \ {Taken(T)}) = Cardinality(T) - 1
  <2>. SUFFICES ASSUME NEW T \in SUBSET S, T # {}
                PROVE  /\ Taken(T) \in T /\ T \ {Taken(T)} \in SUBSET S
                       /\ Cardinality(T) \in Nat \ {0}
                       /\ Cardinality(T \ {Taken(T)}) = Cardinality(T) - 1
    OBVIOUS
  <2>1. Taken(T) \in T
    OBVIOUS
  <2>. HIDE DEF Taken
  <2>. QED
    BY <1>1, <2>1, ElementTaken
<1>3. 0 \in P
  <2>1. \A T \in Small(0) : T = {}
    BY <1>1, FS_EmptySet
  <2>2. Sums([T \in Small(0) |-> 0], 0)
    BY <2>1
  <2>. QED
    BY <2>2
<1>4. ASSUME NEW n \in Nat, n \in P PROVE n + 1 \in P
  <2>1. PICK F : Sums(F, n)
    BY <1>4
  <2>. DEFINE G == [T \in Small(n + 1) |->
                      IF T = {} THEN 0 ELSE v[Taken(T)] + F[T \ {Taken(T)}]]
  <2>2. ASSUME NEW T \in Small(n) PROVE T \in Small(n + 1) /\ G[T] = F[T]
    <3>. HIDE DEF Taken
    <3>1. T \in Small(n + 1)
      BY <1>1
    <3>. QED
      BY <2>1, <3>1
  <2>3. ASSUME NEW T \in Small(n + 1), T # {} PROVE T \ {Taken(T)} \in Small(n)
    <3>. HIDE DEF Taken
    <3>. QED
      BY <1>2, <2>3
  <2>4. G = [T \in Small(n + 1) |->
               IF T = {} THEN 0 ELSE v[Taken(T)] + G[T \ {Taken(T)}]]
    <3>1. ASSUME NEW T \in Small(n + 1), T # {}
          PROVE  F[T \ {Taken(T)}] = G[T \ {Taken(T)}]
      <4>. HIDE DEF Taken, G, Small
      <4>. QED
        BY <2>2, <2>3, <3>1
    <3>. HIDE DEF Taken, Small
    <3>. QED
      BY <3>1
  <2>5. Sums(G, n + 1)
    <3>. HIDE DEF Taken, Small, G
    <3>. QED
      BY <2>4
  <2>. HIDE DEF Sums
  <2>. QED
    BY <2>5
<1>. HIDE DEF P
<1>5. Nat \subseteq P
  BY <1>3, <1>4, SetInduction
<1>6. PICK F : Sums(F, Cardinality(S))
  BY <1>1, <1>5 DEF P
<1>7. Small(Cardinality(S)) = SUBSET S
  BY FS_Subset
<1>8. SumsUp(F, S, v)
  <2>. HIDE DEF Small
  <2>. QED
    BY <1>6, <1>7 DEF SumsUp
<1>. QED
  BY <1>8

(* one step of it, *)
LEMMA SumStep ==
  ASSUME NEW S, NEW v, NEW F, SumsUp(F, S, v), NEW T \in SUBSET S, T # {}
  PROVE  \E y \in T : /\ y = CHOOSE x \in T : TRUE
                      /\ T \ {y} \in SUBSET S
                      /\ F[T] = v[y] + F[T \ {y}]
<1>1. PICK y : y = CHOOSE x \in T : TRUE
  OBVIOUS
<1>2. y \in T
  BY <1>1
<1>. QED
  BY <1>1, <1>2 DEF SumsUp

LEMMA SumOfNothing ==
  ASSUME NEW S, NEW v, NEW F, SumsUp(F, S, v)
  PROVE  F[{}] = 0
BY DEF SumsUp

(* which is a number when the values are, *)
LEMMA SumType ==
  ASSUME NEW S, IsFiniteSet(S), NEW v, \A x \in S : v[x] \in Nat,
         NEW F, SumsUp(F, S, v)
  PROVE  \A T \in SUBSET S : F[T] \in Nat
<1>. DEFINE P == {n \in Nat : \A T \in SUBSET S : Cardinality(T) = n => F[T] \in Nat}
<1>1. \A T \in SUBSET S : IsFiniteSet(T) /\ Cardinality(T) \in Nat
  BY FS_Subset, FS_CardinalityType
<1>2. 0 \in P
  <2>1. \A T \in SUBSET S : Cardinality(T) = 0 => T = {}
    BY <1>1, FS_EmptySet
  <2>. QED
    BY <2>1, SumOfNothing
<1>3. ASSUME NEW n \in Nat, n \in P PROVE n + 1 \in P
  <2>. SUFFICES ASSUME NEW T \in SUBSET S, Cardinality(T) = n + 1 PROVE F[T] \in Nat
    OBVIOUS
  <2>1. T # {}
    BY FS_EmptySet
  <2>2. PICK y \in T : T \ {y} \in SUBSET S /\ F[T] = v[y] + F[T \ {y}]
    BY <2>1, SumStep
  <2>3. Cardinality(T \ {y}) = n
    BY <1>1, <2>1, ElementTaken
  <2>. QED
    BY <1>3, <2>2, <2>3
<1>. HIDE DEF P
<1>4. Nat \subseteq P
  BY <1>2, <1>3, SetInduction
<1>. QED
  BY <1>1, <1>4 DEF P

(* whichever element is taken first, *)
LEMMA SumTakes ==
  ASSUME NEW S, IsFiniteSet(S), NEW v, \A x \in S : v[x] \in Nat,
         NEW F, SumsUp(F, S, v)
  PROVE  \A T \in SUBSET S : \A x \in T : F[T] = v[x] + F[T \ {x}]
<1>. DEFINE P == {n \in Nat : \A T \in SUBSET S : Cardinality(T) = n =>
                                \A x \in T : F[T] = v[x] + F[T \ {x}]}
<1>1. \A T \in SUBSET S : IsFiniteSet(T) /\ Cardinality(T) \in Nat /\ F[T] \in Nat
  BY FS_Subset, FS_CardinalityType, SumType
<1>2. 0 \in P
  <2>1. \A T \in SUBSET S : Cardinality(T) = 0 => T = {}
    BY <1>1, FS_EmptySet
  <2>. QED
    BY <2>1
<1>3. ASSUME NEW n \in Nat, n \in P PROVE n + 1 \in P
  <2>. SUFFICES ASSUME NEW T \in SUBSET S, Cardinality(T) = n + 1, NEW x \in T
                PROVE  F[T] = v[x] + F[T \ {x}]
    OBVIOUS
  <2>1. PICK y \in T : T \ {y} \in SUBSET S /\ F[T] = v[y] + F[T \ {y}]
    BY SumStep
  <2>2. ASSUME y # x PROVE F[T] = v[x] + F[T \ {x}]
    <3>1. Cardinality(T \ {y}) = n /\ Cardinality(T \ {x}) = n
      BY <1>1, ElementTaken
    <3>2. x \in T \ {y} /\ y \in T \ {x} /\ T \ {x} \in SUBSET S
      BY <2>2
    <3>3. /\ F[T \ {y}] = v[x] + F[(T \ {y}) \ {x}]
          /\ F[T \ {x}] = v[y] + F[(T \ {x}) \ {y}]
      BY <1>3, <2>1, <3>1, <3>2
    <3>4. (T \ {y}) \ {x} = (T \ {x}) \ {y} /\ (T \ {y}) \ {x} \in SUBSET S
      OBVIOUS
    <3>5. v[x] \in Nat /\ v[y] \in Nat /\ F[(T \ {y}) \ {x}] \in Nat
      BY <1>1, <3>4
    <3>6. F[T] = v[y] + (v[x] + F[(T \ {y}) \ {x}])
      BY <2>1, <3>3
    <3>7. F[T \ {x}] = v[y] + F[(T \ {y}) \ {x}]
      BY <3>3, <3>4, Zenon
    <3>. QED
      BY <3>5, <3>6, <3>7
  <2>. QED
    BY <2>1, <2>2
<1>. HIDE DEF P
<1>4. Nat \subseteq P
  BY <1>2, <1>3, SetInduction
<1>. QED
  BY <1>1, <1>4 DEF P

(* and depends on the values only. *)
LEMMA SumAgrees ==
  ASSUME NEW S, IsFiniteSet(S), NEW v, NEW F, SumsUp(F, S, v),
         NEW U, NEW w, NEW G, SumsUp(G, U, w)
  PROVE  \A T \in (SUBSET S) \cap (SUBSET U) : (\A x \in T : v[x] = w[x]) => F[T] = G[T]
<1>. DEFINE Agree(T) == \A x \in T : v[x] = w[x]
            P == {n \in Nat : \A T \in (SUBSET S) \cap (SUBSET U) :
                                Cardinality(T) = n /\ Agree(T) => F[T] = G[T]}
<1>1. \A T \in SUBSET S : IsFiniteSet(T) /\ Cardinality(T) \in Nat
  BY FS_Subset, FS_CardinalityType
<1>2. 0 \in P
  <2>1. \A T \in SUBSET S : Cardinality(T) = 0 => T = {}
    BY <1>1, FS_EmptySet
  <2>2. F[{}] = G[{}]
    BY SumOfNothing
  <2>. QED
    BY <2>1, <2>2
<1>3. ASSUME NEW n \in Nat, n \in P PROVE n + 1 \in P
  <2>. SUFFICES ASSUME NEW T \in (SUBSET S) \cap (SUBSET U), Cardinality(T) = n + 1, Agree(T)
                PROVE  F[T] = G[T]
    OBVIOUS
  <2>1. T # {}
    BY FS_EmptySet
  <2>2. PICK y \in T : /\ y = CHOOSE x \in T : TRUE
                       /\ T \ {y} \in SUBSET S /\ F[T] = v[y] + F[T \ {y}]
    BY <2>1, SumStep
  <2>3. PICK z \in T : /\ z = CHOOSE x \in T : TRUE
                       /\ T \ {z} \in SUBSET U /\ G[T] = w[z] + G[T \ {z}]
    BY <2>1, SumStep
  <2>4. z = y /\ v[y] = w[y]
    BY <2>2, <2>3
  <2>5. Cardinality(T \ {y}) = n
    BY <1>1, <2>1, ElementTaken
  <2>6. F[T \ {y}] = G[T \ {y}]
    BY <1>3, <2>2, <2>3, <2>4, <2>5
  <2>. QED
    BY <2>2, <2>3, <2>4, <2>6
<1>. HIDE DEF P
<1>4. Nat \subseteq P
  BY <1>2, <1>3, SetInduction
<1>. QED
  BY <1>1, <1>4 DEF P

-----------------------------------------------------------------------------
(* Sums of lengths. *)
Lengths(h, S) == [a \in S |-> Cardinality(DOMAIN h[a])]

LEMMA SumIsSum ==
  ASSUME NEW h, NEW S, IsFiniteSet(S)
  PROVE  \E F : SumsUp(F, S, Lengths(h, S)) /\ SumOfLengths(h, S) = F[S]
<1>. DEFINE iter[T \in SUBSET S] ==
              IF T = {} THEN 0
              ELSE LET x == CHOOSE x \in T : TRUE
                   IN  Cardinality(DOMAIN h[x]) + iter[T \ {x}]
            Eq(f) == f = [T \in SUBSET S |->
              IF T = {} THEN 0
              ELSE LET x == CHOOSE x \in T : TRUE
                   IN  Cardinality(DOMAIN h[x]) + f[T \ {x}]]
<1>1. SumOfLengths(h, S) = iter[S]
  BY DEF SumOfLengths, MapThenSumSet, MapThenFoldSet
<1>2. \A T \in SUBSET S : T # {} =>
        Lengths(h, S)[CHOOSE x \in T : TRUE] = Cardinality(DOMAIN h[CHOOSE x \in T : TRUE])
  BY DEF Lengths
<1>3. \A F : SumsUp(F, S, Lengths(h, S)) <=> Eq(F)
  BY <1>2 DEF SumsUp
<1>4. \E F : Eq(F)
  <2>. HIDE DEF Eq
  <2>1. \E F : SumsUp(F, S, Lengths(h, S))
    BY SumExists
  <2>. QED
    BY <1>3, <2>1
<1>5. iter = CHOOSE f : Eq(f)
  BY Zenon
<1>. HIDE DEF iter, Eq
<1>6. Eq(iter)
  BY <1>4, <1>5, Zenon
<1>. QED
  BY <1>1, <1>3, <1>6

LEMMA SumSame ==
  ASSUME NEW h, NEW k, NEW S, IsFiniteSet(S), \A a \in S : DOMAIN h[a] = DOMAIN k[a]
  PROVE  SumOfLengths(h, S) = SumOfLengths(k, S)
<1>1. PICK F : SumsUp(F, S, Lengths(h, S)) /\ SumOfLengths(h, S) = F[S]
  BY SumIsSum
<1>2. PICK G : SumsUp(G, S, Lengths(k, S)) /\ SumOfLengths(k, S) = G[S]
  BY SumIsSum
<1>3. \A a \in S : Lengths(h, S)[a] = Lengths(k, S)[a]
  BY DEF Lengths
<1>4. S \in (SUBSET S) \cap (SUBSET S)
  OBVIOUS
<1>5. F[S] = G[S]
  BY <1>1, <1>2, <1>3, <1>4, SumAgrees
<1>. QED
  BY <1>1, <1>2, <1>5

LEMMA SumMore ==
  ASSUME NEW h, NEW S, IsFiniteSet(S), NEW x, x \notin S,
         \A a \in S \cup {x} : Cardinality(DOMAIN h[a]) \in Nat
  PROVE  /\ IsFiniteSet(S \cup {x})
         /\ SumOfLengths(h, S \cup {x}) = SumOfLengths(h, S) + Cardinality(DOMAIN h[x])
         /\ SumOfLengths(h, S) \in Nat
<1>. DEFINE U == S \cup {x}
<1>1. IsFiniteSet(U)
  BY FS_AddElement
<1>2. PICK F : SumsUp(F, U, Lengths(h, U)) /\ SumOfLengths(h, U) = F[U]
  BY <1>1, SumIsSum
<1>3. PICK G : SumsUp(G, S, Lengths(h, S)) /\ SumOfLengths(h, S) = G[S]
  BY SumIsSum
<1>4. \A a \in U : Lengths(h, U)[a] = Cardinality(DOMAIN h[a]) /\ Lengths(h, U)[a] \in Nat
  BY DEF Lengths
<1>5. F[U] = Lengths(h, U)[x] + F[U \ {x}]
  <2>1. U \in SUBSET U /\ x \in U
    OBVIOUS
  <2>. HIDE DEF U
  <2>. QED
    BY <1>1, <1>2, <1>4, <2>1, SumTakes
<1>6. F[S] = G[S]
  <2>1. S \in (SUBSET U) \cap (SUBSET S) /\ \A a \in S : Lengths(h, U)[a] = Lengths(h, S)[a]
    BY DEF Lengths
  <2>. HIDE DEF U
  <2>. QED
    BY <1>1, <1>2, <1>3, <2>1, SumAgrees
<1>7. F[S] \in Nat
  <2>1. S \in SUBSET U
    OBVIOUS
  <2>. HIDE DEF U
  <2>. QED
    BY <1>1, <1>2, <1>4, <2>1, SumType
<1>8. U \ {x} = S /\ x \in U
  OBVIOUS
<1>9. Lengths(h, U)[x] = Cardinality(DOMAIN h[x]) /\ Cardinality(DOMAIN h[x]) \in Nat
  BY <1>4, <1>8
<1>. HIDE DEF U
<1>10. F[U] = F[S] + Cardinality(DOMAIN h[x])
  <2>1. F[U] = Cardinality(DOMAIN h[x]) + F[S]
    BY <1>5, <1>8, <1>9, Zenon
  <2>. QED
    BY <1>7, <1>9, <2>1
<1>11. SumOfLengths(h, U) = SumOfLengths(h, S) + Cardinality(DOMAIN h[x])
  BY <1>2, <1>3, <1>6, <1>10
<1>. QED
  BY <1>1, <1>3, <1>6, <1>7, <1>11 DEF U

LEMMA SumIsNumber ==
  ASSUME NEW h, NEW S, IsFiniteSet(S), \A a \in S : Cardinality(DOMAIN h[a]) \in Nat
  PROVE  SumOfLengths(h, S) \in Nat
<1>1. PICK F : SumsUp(F, S, Lengths(h, S)) /\ SumOfLengths(h, S) = F[S]
  BY SumIsSum
<1>2. \A a \in S : Lengths(h, S)[a] \in Nat
  BY DEF Lengths
<1>3. S \in SUBSET S
  OBVIOUS
<1>. QED
  BY <1>1, <1>2, <1>3, SumType

LEMMA SumOfNone == ASSUME NEW h PROVE SumOfLengths(h, {}) = 0
<1>1. IsFiniteSet({})
  BY FS_EmptySet
<1>2. PICK F : SumsUp(F, {}, Lengths(h, {})) /\ SumOfLengths(h, {}) = F[{}]
  BY <1>1, SumIsSum
<1>. QED
  BY <1>2, SumOfNothing

-----------------------------------------------------------------------------
(* What a thread has in hand, and reads, is on the heap. *)
LEMMA InHand ==
  ASSUME Control, OneHand, NEW u \in Threads
  PROVE  /\ pc[u] \notin {"idle", "forget"} =>
              newData[u] \in InUse(u) /\ newData[u] \in Arrays
         /\ Holding(u) => Current(u) \in InUse(u) /\ Current(u) \in Arrays
         /\ \A x \in InUse(u) : x \in Reachable /\ x \in Arrays
<1>1. /\ data[u] \in Arrays \cup {Null} /\ newData[u] \in Arrays \cup {Null}
      /\ newData[u] # Null => newData[u] # data[u]
      /\ pc[u] \notin {"idle", "forget"} => newData[u] # Null
      /\ pc[u] \in Labels
  BY DEF Control, OneHand
<1>2. pc[u] \notin {"idle", "forget"} => newData[u] \in InUse(u) /\ newData[u] \in Arrays
  BY <1>1 DEF InUse
<1>3. Holding(u) => Current(u) \in InUse(u) /\ Current(u) \in Arrays
  BY <1>1, <1>2 DEF Holding, Current, InUse, Labels
<1>4. \A x \in InUse(u) : x \in Roots(memcache, data, newData)
  <2>. SUFFICES ASSUME NEW x \in InUse(u) PROVE x \in Roots(memcache, data, newData)
    OBVIOUS
  <2>1. x \in Arrays /\ (data[u] = x \/ newData[u] = x)
    BY <1>1 DEF InUse
  <2>. QED
    BY <2>1 DEF Roots
<1>5. Roots(memcache, data, newData) \subseteq Arrays
  BY DEF Roots
<1>. QED
  BY <1>2, <1>3, <1>4, <1>5, Reached

NumbersMove(t) ==
  \A u \in Threads \ {t} :
    /\ limit'[u] = limit[u] /\ capacity'[u] = capacity[u] /\ size'[u] = size[u]
    /\ put'[u] = put[u]

(* The step of t leaves the others alone. *)
LEMMA OthersBacked ==
  ASSUME IInv, IInv', NEW t \in Threads, OnlyMoves(t), NumbersMove(t),
         NEW W, HeapKept(W), \A x \in W : x \in InUse(t),
         NEW u \in Threads \ {t}, Backed(u)
  PROVE  Backed(u)'
<1>1. Control /\ OneHand /\ Control'
  BY DEF IInv
<1>2. /\ data'[u] = data[u] /\ newData'[u] = newData[u] /\ pc'[u] = pc[u]
      /\ limit'[u] = limit[u] /\ capacity'[u] = capacity[u] /\ size'[u] = size[u]
      /\ put'[u] = put[u]
  BY DEF OnlyMoves, NumbersMove
<1>3. \A x \in InUse(u) : heap'[x] = heap[x]
  <2>. SUFFICES ASSUME NEW x \in InUse(u) PROVE heap'[x] = heap[x]
    OBVIOUS
  <2>1. x \notin W
    BY <1>1 DEF OneHand
  <2>2. x \in Reachable /\ x \in Arrays
    BY <1>1, InHand
  <2>3. x \in Reachable'
    <3>1. x = data'[u] \/ x = newData'[u]
      BY <1>2 DEF InUse
    <3>. QED
      BY <1>1, <2>2, <3>1, ReachedNext DEF Roots
  <2>. QED
    BY <2>1, <2>2, <2>3 DEF HeapKept
<1>4. Holding(u)' = Holding(u) /\ Current(u)' = Current(u)
  BY <1>2 DEF Holding, Current
<1>5. pc[u] \notin {"idle", "forget"} => Length(newData[u])' = Length(newData[u])
  BY <1>1, <1>2, <1>3, InHand DEF Length
<1>6. Holding(u) => heap'[Current(u)] = heap[Current(u)]
  BY <1>1, <1>3, InHand
<1>7. Holding(u) => Length(Current(u))' = Length(Current(u))
  BY <1>4, <1>6 DEF Length
<1>8. /\ pc'[u] \notin {"idle", "forget"} => Length(newData[u])' >= size'[u]
      /\ pc'[u] = "grow copy" => capacity'[u] < size'[u]
      /\ data'[u] = Null => put'[u] = {}
  BY <1>2, <1>5 DEF Backed
<1>9. Holding(u)' => limit'[u] <= capacity'[u] /\ capacity'[u] = Length(Current(u))'
  BY <1>2, <1>4, <1>7 DEF Backed
<1>10. Holding(u)' => Own(u)'
  BY <1>2, <1>4, <1>6, <1>7 DEF Backed, Own
<1>. QED
  BY <1>8, <1>9, <1>10 DEF Backed

-----------------------------------------------------------------------------
(* The queues: nothing moves, the first array of one is taken, one is given. *)
LEMMA CachedAre == Control => Cached = {a \in Arrays : Holds(memcache, a)}
BY HeldArrays DEF Control, Cached
LEMMA CachedNext == Control' => Cached' = {a \in Arrays : Holds(memcache', a)}
BY HeldArrays DEF Control, Cached

LEMMA CachedOnHeap ==
  ASSUME Control, HeapOK, NEW a \in Cached
  PROVE  a \in Reachable /\ Cardinality(DOMAIN heap[a]) \in Nat
<1>1. a \in Reachable
  BY CachedAre, NullAssumption DEF Reachable
<1>2. heap[a] \in Blocks
  BY <1>1 DEF HeapOK, IsHeap
<1>. QED
  BY <1>1, <1>2, BlockFacts

LEMMA QueueStill ==
  ASSUME IInv, IInv', MemInv, memcache' = memcache, totalCachedSize' = totalCachedSize,
         NEW W, HeapKept(W)
  PROVE  QueuesBacked' /\ Accounts'
<1>1. Control /\ Control' /\ HeapOK /\ QueuesBacked /\ Accounts
  BY DEF IInv, MemInv
<1>2. Cached' = Cached
  BY DEF Cached
<1>3. \A a \in Cached : a \in Reachable /\ a \in Reachable'
  BY <1>1, <1>2, CachedAre, NullAssumption DEF Reachable
<1>4. \A a \in Cached : DOMAIN heap'[a] = DOMAIN heap[a]
  BY <1>3 DEF HeapKept
<1>5. Accounts'
  <2>1. SumOfLengths(heap, Cached) = SumOfLengths(heap', Cached)
    BY <1>1, <1>4, SumSame DEF Accounts
  <2>. QED
    BY <1>1, <1>2, <2>1 DEF Accounts
<1>6. QueuesBacked'
  <2>1. \A c \in Classes : \A i \in 1 .. Len(memcache[c]) : memcache[c][i] \in Cached
    <3>1. \A c \in Classes : memcache[c] \in Seq(Arrays)
      BY <1>1 DEF Control, Queues
    <3>2. \A c \in Classes : \A i \in 1 .. Len(memcache[c]) : memcache[c][i] \in Arrays
      BY <3>1
    <3>. QED
      BY <1>1, <3>2, CachedAre DEF Holds
  <2>2. \A c \in Classes : \A i \in 1 .. Len(memcache[c]) :
          Length(memcache[c][i])' = Length(memcache[c][i])
    BY <1>4, <2>1 DEF Length
  <2>. QED
    BY <1>1, <2>2 DEF QueuesBacked
<1>. QED
  BY <1>5, <1>6

LEMMA QueueTakes ==
  ASSUME IInv, IInv', MemInv, NEW c \in Classes, memcache[c] # <<>>,
         memcache' = [memcache EXCEPT ![c] = Tail(@)],
         totalCachedSize' = totalCachedSize - Length(Head(memcache[c])), heap' = heap
  PROVE  /\ QueuesBacked' /\ Accounts'
         /\ Head(memcache[c]) \in Reachable /\ Length(Head(memcache[c])) >= c
         /\ \A b : Holds(memcache', b) => Holds(memcache, b)
<1>. DEFINE a == Head(memcache[c])
<1>1. Control /\ Control' /\ HeapOK /\ QueuesBacked /\ Accounts /\ NothingTwice(memcache)
  BY DEF IInv, MemInv, OneHand
<1>2. memcache[c] \in Seq(Arrays) /\ memcache \in Queues
  BY <1>1 DEF Control, Queues
<1>3. /\ a \in Arrays /\ Holds(memcache, a) /\ ~Holds(memcache', a)
      /\ \A b : Holds(memcache', b) => Holds(memcache, b)
      /\ \A b : Holds(memcache, b) => b = a \/ Holds(memcache', b)
  <2>1. \A n : n = [memcache EXCEPT ![c] = Tail(@)] =>
          /\ a \in Arrays /\ Holds(memcache, a) /\ ~Holds(n, a)
          /\ \A b : Holds(n, b) => Holds(memcache, b)
          /\ \A b : Holds(memcache, b) => b = a \/ Holds(n, b)
    BY <1>1, <1>2, TakingFirst
  <2>. QED
    BY <2>1
<1>. HIDE DEF a
<1>4. a \notin Cached' /\ Cached = Cached' \cup {a}
  BY <1>1, <1>3, CachedAre, CachedNext
<1>5. a \in Reachable /\ Length(a) >= c
  <2>1. memcache[c][1] = a /\ 1 \in 1 .. Len(memcache[c])
    BY <1>2 DEF a
  <2>2. Length(memcache[c][1]) >= c
    BY <1>1, <2>1 DEF QueuesBacked
  <2>. QED
    BY <1>1, <1>4, <2>1, <2>2, CachedOnHeap
<1>6. IsFiniteSet(Cached') /\ \A b \in Cached : Cardinality(DOMAIN heap[b]) \in Nat
  <2>1. IsFiniteSet(Cached) /\ Cached' \in SUBSET Cached
    BY <1>1, <1>4 DEF Accounts
  <2>. QED
    BY <1>1, <2>1, FS_Subset, CachedOnHeap
<1>7. Accounts'
  <2>1. /\ SumOfLengths(heap, Cached) = SumOfLengths(heap, Cached') + Length(a)
        /\ SumOfLengths(heap, Cached') \in Nat
    BY <1>4, <1>6, SumMore DEF Length
  <2>2. totalCachedSize = SumOfLengths(heap, Cached) /\ Length(a) \in Nat
    BY <1>1, <1>4, <1>6 DEF Accounts, Length
  <2>3. totalCachedSize' = totalCachedSize - Length(a)
    BY DEF a
  <2>4. totalCachedSize' = SumOfLengths(heap, Cached')
    BY <2>1, <2>2, <2>3
  <2>. QED
    BY <1>6, <2>4 DEF Accounts
<1>8. QueuesBacked'
  <2>1. /\ \A d \in Classes \ {c} : memcache'[d] = memcache[d]
        /\ memcache'[c] = Tail(memcache[c])
    BY <1>2 DEF Queues
  <2>2. \A i \in 1 .. Len(Tail(memcache[c])) :
          i + 1 \in 1 .. Len(memcache[c]) /\ Tail(memcache[c])[i] = memcache[c][i + 1]
    BY <1>2
  <2>3. \A b : Length(b)' = Length(b)
    BY DEF Length
  <2>. QED
    BY <1>1, <2>1, <2>2, <2>3 DEF QueuesBacked
<1>. QED
  BY <1>3, <1>5, <1>7, <1>8 DEF a

LEMMA QueueGets ==
  ASSUME IInv, IInv', MemInv, NEW a \in Reachable, ~Holds(memcache, a), a \in Arrays,
         ReleaseBytes(a), heap' = heap
  PROVE  /\ QueuesBacked' /\ Accounts'
         /\ \A b : Holds(memcache', b) => b = a \/ Holds(memcache, b)
<1>1. /\ Control /\ Control' /\ HeapOK /\ QueuesBacked /\ Accounts
      /\ NothingTwice(memcache) /\ memcache \in Queues
  BY DEF IInv, MemInv, OneHand, Control
<1>2. heap[a] \in Blocks
  BY <1>1 DEF HeapOK, IsHeap
<1>3. Length(a) \in Nat
  BY <1>2, BlockFacts DEF Length
<1>4. \A b : Length(b)' = Length(b)
  BY DEF Length
<1>5. CASE UNCHANGED cache
  BY <1>1, <1>4, <1>5 DEF cache, QueuesBacked, Accounts, Cached
<1>6. CASE Length(a) >= Unit /\ Length(a) <= MaxCacheSize
  <2>. DEFINE c == ReleaseClass(a)
  <2>1. c \in Classes /\ Length(a) >= c
    <3>1. Length(a) \in Unit .. MaxCacheSize
      BY <1>3, <1>6, CacheAssumption
    <3>2. RoundedDown(Length(a)) \in Classes /\ RoundedDown(Length(a)) <= Length(a)
      BY <3>1, LengthsRoundDown
    <3>3. RoundedDown(Length(a)) \in Nat
      BY <3>2, PowersAreNumbers DEF Classes
    <3>. QED
      BY <1>3, <3>2, <3>3 DEF ReleaseClass
  <2>. HIDE DEF c
  <2>2. /\ memcache' = [memcache EXCEPT ![c] = Append(@, a)]
        /\ totalCachedSize' = totalCachedSize + Length(a)
    <3>1. ~(Length(a) < Unit \/ Length(a) > MaxCacheSize)
      BY <1>3, <1>6, CacheAssumption
    <3>. QED
      BY <3>1 DEF ReleaseBytes, c
  <2>3. \A b : Holds(memcache', b) <=> b = a \/ Holds(memcache, b)
    <3>1. memcache' = Given(memcache, c, a)
      BY <2>2 DEF Given
    <3>2. \A b : Holds(Given(memcache, c, a), b) <=> b = a \/ Holds(memcache, b)
      BY <1>1, <2>1, Giving
    <3>. QED
      BY <3>1, <3>2
  <2>4. Cached' = Cached \cup {a} /\ a \notin Cached
    BY <1>1, <2>3, CachedAre, CachedNext
  <2>5. Accounts'
    <3>1. \A b \in Cached \cup {a} : Cardinality(DOMAIN heap[b]) \in Nat
      BY <1>1, <1>3, CachedOnHeap DEF Length
    <3>2. IsFiniteSet(Cached) /\ totalCachedSize = SumOfLengths(heap, Cached)
      BY <1>1 DEF Accounts
    <3>3. /\ IsFiniteSet(Cached')
          /\ SumOfLengths(heap, Cached') = SumOfLengths(heap, Cached) + Length(a)
      BY <2>4, <3>1, <3>2, SumMore DEF Length
    <3>. QED
      BY <2>2, <3>2, <3>3 DEF Accounts
  <2>6. QueuesBacked'
    <3>1. memcache[c] \in Seq(Arrays)
      BY <1>1, <2>1 DEF Queues
    <3>2. /\ \A d \in Classes \ {c} : memcache'[d] = memcache[d]
          /\ memcache'[c] = Append(memcache[c], a)
      BY <1>1, <2>1, <2>2 DEF Queues
    <3>3. \A i \in 1 .. Len(Append(memcache[c], a)) :
            \/ i \in 1 .. Len(memcache[c]) /\ Append(memcache[c], a)[i] = memcache[c][i]
            \/ Append(memcache[c], a)[i] = a
      BY <3>1
    <3>. QED
      BY <1>1, <1>4, <2>1, <3>2, <3>3 DEF QueuesBacked
  <2>. QED
    BY <2>3, <2>5, <2>6
<1>. QED
  BY <1>3, <1>5, <1>6, CacheAssumption DEF ReleaseBytes

-----------------------------------------------------------------------------
(* One lemma for each kind of step again. *)
LEMMA Together ==
  ASSUME IInv, IInv', MemInv, NEW t \in Threads, OnlyMoves(t), NumbersMove(t), Numbers',
         NEW W, HeapKept(W), \A x \in W : x \in InUse(t),
         Backed(t)', QueuesBacked', Accounts'
  PROVE  MemInv'
<1>1. \A u \in Threads : Backed(u)'
  BY OthersBacked DEF MemInv
<1>2. HeapOK'
  BY DEF HeapKept, HeapOK
<1>. QED
  BY <1>1, <1>2 DEF MemInv

(* An array in the hands of t before and after the step that was not written. *)
LEMMA HandKept ==
  ASSUME IInv, IInv', NEW t \in Threads, NEW x \in InUse(t), x = data'[t] \/ x = newData'[t],
         NEW W, HeapKept(W)
  PROVE  /\ x \in Reachable \cap Reachable'
         /\ DOMAIN heap'[x] = DOMAIN heap[x]
         /\ x \notin W => heap'[x] = heap[x]
<1>1. x \in Reachable /\ x \in Arrays
  BY InHand DEF IInv
<1>2. x \in Reachable'
  BY <1>1, ReachedNext DEF IInv, Roots
<1>. QED
  BY <1>1, <1>2 DEF HeapKept

(* Who asks for n bytes has no array yet, or a shorter one. *)
Asks(t, n, label) ==
  /\ label \in {"new", "new copy", "new null", "grow copy"}
  /\ pc[t] = "idle"
  /\ label = "grow copy" => data[t] # Null /\ capacity[t] < n
  /\ label # "grow copy" => data[t] = Null

LEMMA AllocatingRoom ==
  ASSUME IInv, IInv', MemInv, NEW t \in Threads, NEW n \in Sizes, NEW label,
         Asks(t, n, label), AllocBytes(t, n, label)
  PROVE  MemInv'
<1>1. /\ Control /\ OneHand /\ Control' /\ HeapOK /\ Numbers
      /\ QueuesBacked /\ Accounts /\ Backed(t) /\ n \in Nat
  BY CacheAssumption DEF IInv, MemInv, Sizes
<1>2. /\ data' = data /\ limit' = limit /\ capacity' = capacity /\ put' = put
      /\ pc' = [pc EXCEPT ![t] = label] /\ size' = [size EXCEPT ![t] = n]
  BY DEF AllocBytes, Goto, buffer
<1>3. RoundedUp(n) \in Nat /\ RoundedUp(n) >= n
  BY RequestsRoundUp
<1>4. PICK a : /\ newData' = [newData EXCEPT ![t] = a]
               /\ HeapKept({}) /\ QueuesBacked' /\ Accounts'
               /\ Cardinality(DOMAIN heap'[a]) >= n
  <2>1. ASSUME NEW c \in Classes, c = RoundedUp(n), memcache[c] # <<>>,
               newData' = [newData EXCEPT ![t] = Head(memcache[c])],
               memcache' = Polled(c),
               totalCachedSize' = totalCachedSize - Length(Head(memcache[c])),
               heap' = heap
        PROVE  /\ HeapKept({}) /\ QueuesBacked' /\ Accounts'
               /\ Cardinality(DOMAIN heap'[Head(memcache[c])]) >= n
    <3>0. memcache' = [memcache EXCEPT ![c] = Tail(@)]
      BY <2>1 DEF Polled
    <3>1. /\ QueuesBacked' /\ Accounts'
          /\ Head(memcache[c]) \in Reachable /\ Length(Head(memcache[c])) >= c
          /\ \A b : Holds(memcache', b) => Holds(memcache, b)
      BY <2>1, <3>0, QueueTakes
    <3>2. Reachable' \subseteq Reachable
      <4>. DEFINE a == Head(memcache[c])
      <4>1. a \in Roots(memcache, data, newData)
        BY <1>1, <3>1, Reached
      <4>2. newData'[t] = a /\ \A u \in Threads \ {t} : newData'[u] = newData[u]
        BY <1>1, <2>1 DEF Control
      <4>. HIDE DEF a
      <4>3. Roots(memcache', data', newData') \subseteq Roots(memcache, data, newData)
        BY <1>2, <3>1, <4>1, <4>2 DEF Roots
      <4>. QED
        BY <1>1, <4>3, Reached, ReachedNext
    <3>3. HeapKept({})
      BY <1>1, <2>1, <3>2, Standing
    <3>4. Cardinality(DOMAIN heap'[Head(memcache[c])]) >= n
      <4>1. heap[Head(memcache[c])] \in Blocks
        BY <1>1, <3>1 DEF HeapOK, IsHeap
      <4>2. Length(Head(memcache[c])) \in Nat
        BY <4>1, BlockFacts DEF Length
      <4>3. c \in Nat /\ c >= n /\ n \in Nat
        BY <1>1, <1>3, <2>1
      <4>4. Length(Head(memcache[c])) >= n
        <5>1. \A l \in Nat : l >= c => l >= n
          BY <4>3
        <5>. QED
          BY <3>1, <4>2, <5>1
      <4>. QED
        BY <2>1, <4>4 DEF Length
    <3>. QED
      BY <3>1, <3>3, <3>4
  <2>2. ASSUME NEW a \in Arrays, Fresh(a, RoundedUp(n), Null),
               newData' = [newData EXCEPT ![t] = a],
               memcache' = memcache, totalCachedSize' = totalCachedSize
        PROVE  /\ HeapKept({}) /\ QueuesBacked' /\ Accounts'
               /\ Cardinality(DOMAIN heap'[a]) >= n
    <3>1. Reachable' \subseteq Reachable \cup {a}
      <4>1. Roots(memcache', data', newData') \subseteq Roots(memcache, data, newData) \cup {a}
        BY <1>1, <1>2, <2>2 DEF Roots, Control
      <4>. QED
        BY <1>1, <4>1, Reached, ReachedNext
    <3>2. HeapKept({}) /\ Cardinality(DOMAIN heap'[a]) = RoundedUp(n)
      <4>1. Null \in Bytes
        BY DEF Bytes
      <4>. QED
        BY <1>1, <1>3, <2>2, <3>1, <4>1, NewArray DEF Filled
    <3>. QED
      BY <1>3, <2>2, <3>2, QueueStill
  <2>. QED
    BY <2>1, <2>2 DEF AllocBytes, cache
<1>5. /\ newData'[t] = a /\ pc'[t] = label /\ size'[t] = n
      /\ OnlyMoves(t) /\ NumbersMove(t) /\ Numbers'
  BY <1>1, <1>2, <1>4 DEF Control, Numbers, OnlyMoves, NumbersMove
<1>6. Backed(t)'
  <2>1. Length(newData[t])' >= size'[t]
    BY <1>4, <1>5 DEF Length
  <2>2. CASE label = "grow copy"
    <3>1. /\ Holding(t) /\ Current(t) = data[t] /\ data[t] \in InUse(t)
      BY <1>1, <2>2 DEF Asks, Holding, Current, InUse
    <3>2. heap'[data[t]] = heap[data[t]]
      <4>1. \A x \in InUse(t) : x = data'[t] => heap'[x] = heap[x]
        <5>1. HeapKept({})
          BY <1>4
        <5>. QED
          BY <5>1, HandKept
      <4>. QED
        BY <1>2, <3>1, <4>1
    <3>3. Current(t)' = data[t] /\ Length(Current(t))' = Length(Current(t))
      BY <1>2, <1>5, <2>2, <3>1, <3>2 DEF Current, Length
    <3>4. /\ limit'[t] = limit[t] /\ capacity'[t] = capacity[t]
          /\ capacity'[t] < size'[t] /\ data'[t] # Null
      BY <1>2, <1>5, <2>2 DEF Asks
    <3>5. Own(t)'
      BY <1>1, <1>2, <3>1, <3>2, <3>3 DEF Backed, Own
    <3>. QED
      BY <1>1, <2>1, <3>1, <3>3, <3>4, <3>5 DEF Backed
  <2>3. CASE label # "grow copy"
    <3>1. data'[t] = Null /\ put'[t] = {}
      BY <1>1, <1>2, <2>3 DEF Asks, Backed
    <3>. QED
      BY <1>5, <2>1, <2>3, <3>1 DEF Asks, Backed, Holding
  <2>. QED
    BY <2>2, <2>3
<1>. QED
  BY <1>4, <1>5, <1>6, Together

LEMMA NothingNew ==
  ASSUME IInv, IInv', NEW t \in Threads, OnlyMoves(t), memcache' = memcache,
         data'[t] \in {data[t], newData[t], Null}, newData'[t] \in {newData[t], Null}
  PROVE  Reachable' \subseteq Reachable
<1>1. Control /\ Control' /\ Null \notin Arrays
  BY NullAssumption DEF IInv
<1>2. Roots(memcache', data', newData') \subseteq Roots(memcache, data, newData)
  BY <1>1 DEF Roots, OnlyMoves
<1>. QED
  BY <1>1, <1>2, Reached, ReachedNext

LEMMA ArrayInHand ==
  ASSUME IInv, HeapOK, NEW t \in Threads, NEW x \in InUse(t)
  PROVE  /\ x \in DOMAIN heap /\ x \in Reachable /\ x \in Arrays
         /\ heap[x] \in Blocks /\ Length(x) \in Nat
         /\ DOMAIN heap[x] = 0 .. Length(x) - 1
         /\ \A i \in 0 .. Length(x) - 1 : heap[x][i] \in Bytes
<1>1. x \in Reachable /\ x \in Arrays
  BY InHand DEF IInv
<1>2. x \in DOMAIN heap /\ heap[x] \in Blocks
  BY <1>1 DEF HeapOK, IsHeap
<1>. QED
  BY <1>1, <1>2, BlockFacts DEF Length

LEMMA StillReached ==
  ASSUME IInv', NEW t \in Threads, NEW x \in Arrays, x = data'[t] \/ x = newData'[t]
  PROVE  x \in Reachable'
BY ReachedNext DEF IInv, Roots

(* The bytes from .. to - 1 of an array in hand become those of t. *)
NowStored(x, from, to, t) ==
  /\ DOMAIN heap'[x] = DOMAIN heap[x]
  /\ \A i \in DOMAIN heap[x] :
       heap'[x][i] = IF i \in from .. to - 1 THEN t ELSE heap[x][i]

LEMMA Storing ==
  ASSUME IInv, IInv', HeapOK, NEW t \in Threads, NEW x \in InUse(t),
         x = data'[t] \/ x = newData'[t], NEW from, NEW to,
         Reachable' \subseteq Reachable,
         heap' = Stored(x, from, to, t) \/ heap' = Collected(Stored(x, from, to, t))
  PROVE  HeapKept({x}) /\ NowStored(x, from, to, t)
<1>. DEFINE b == [i \in DOMAIN heap[x] |-> IF i \in from .. to - 1 THEN t ELSE heap[x][i]]
<1>1. /\ x \in DOMAIN heap /\ x \in Arrays /\ heap[x] \in Blocks /\ Length(x) \in Nat
      /\ DOMAIN heap[x] = 0 .. Length(x) - 1
      /\ \A i \in 0 .. Length(x) - 1 : heap[x][i] \in Bytes
  BY ArrayInHand
<1>2. b \in [0 .. Length(x) - 1 -> Bytes]
  BY <1>1 DEF Bytes
<1>3. b \in Blocks /\ DOMAIN b = DOMAIN heap[x]
  BY <1>1, <1>2, BlockOf
<1>4. x \in Reachable'
  BY <1>1, StillReached
<1>5. Stored(x, from, to, t) = [heap EXCEPT ![x] = b]
  BY <1>1 DEF Stored
<1>6. \A i \in DOMAIN heap[x] : b[i] = IF i \in from .. to - 1 THEN t ELSE heap[x][i]
  OBVIOUS
<1>. HIDE DEF b
<1>7. HeapKept({x}) /\ heap'[x] = b
  BY <1>1, <1>3, <1>4, <1>5, Writing
<1>. QED
  BY <1>3, <1>6, <1>7 DEF NowStored

(* Of the first l places of an array x of the heap h those of P hold t. *)
Filling(h, x, l, P, t) == \A i \in P : i \in 0 .. l - 1 /\ h[x][i] = t

LEMMA OwnStored ==
  ASSUME NEW t, NEW x, DOMAIN heap[x] = 0 .. Length(x) - 1, Length(x) \in Nat,
         NEW from \in Nat, NEW to \in Nat, to <= Length(x), NowStored(x, from, to, t),
         NEW P, Filling(heap, x, Length(x), P, t)
  PROVE  Filling(heap', x, Length(x), P \cup from .. to - 1, t)
<1>. PICK l \in Nat : l = Length(x)
  OBVIOUS
<1>1. \A i \in from .. to - 1 : i \in 0 .. l - 1
  OBVIOUS
<1>2. \A i \in P : i \in 0 .. l - 1 /\ heap'[x][i] = t
  BY DEF NowStored, Filling
<1>3. \A i \in from .. to - 1 : heap'[x][i] = t
  BY <1>1 DEF NowStored
<1>. QED
  BY <1>1, <1>2, <1>3 DEF Filling

-----------------------------------------------------------------------------
LEMMA ConstructingRoom ==
  ASSUME IInv, IInv', MemInv, NEW t \in Threads, Construct(t)
  PROVE  MemInv'
<1>. DEFINE x == newData[t]
<1>1. /\ Control /\ HeapOK /\ Numbers /\ Backed(t) /\ data[t] = Null
      /\ pc[t] \in {"new", "new copy", "new null"} /\ x # Null /\ x \in Arrays
  BY DEF IInv, MemInv, Control, Construct
<1>2. x \in InUse(t) /\ size[t] \in Nat /\ Length(x) >= size[t] /\ put[t] = {}
  BY <1>1 DEF InUse, Backed, Numbers
<1>3. /\ data' = [data EXCEPT ![t] = newData[t]]
      /\ newData' = [newData EXCEPT ![t] = Null] /\ pc' = [pc EXCEPT ![t] = "idle"]
      /\ capacity' = [capacity EXCEPT ![t] = Length(x)]
      /\ size' = [size EXCEPT ![t] = 0]
      /\ memcache' = memcache /\ totalCachedSize' = totalCachedSize
  BY DEF Construct, Goto, cache
<1>4. /\ x \in DOMAIN heap /\ Length(x) \in Nat /\ DOMAIN heap[x] = 0 .. Length(x) - 1
  BY <1>1, <1>2, ArrayInHand
<1>5. \/ /\ limit' = [limit EXCEPT ![t] = size[t]]
         /\ put' = [put EXCEPT ![t] = 0 .. size[t] - 1] /\ heap' = Stored(x, 0, size[t], t)
      \/ /\ put' = put /\ heap' = heap
         /\ limit' = [limit EXCEPT ![t] = 0] \/ limit' = [limit EXCEPT ![t] = Length(x)]
  BY DEF Construct
<1>6. /\ data'[t] = x /\ newData'[t] = Null /\ pc'[t] = "idle"
      /\ capacity'[t] = Length(x) /\ OnlyMoves(t)
  BY <1>1, <1>3 DEF Control, Numbers, OnlyMoves
<1>. HIDE DEF x
<1>7. \E l \in Nat : l <= Length(x) /\ limit' = [limit EXCEPT ![t] = l]
  BY <1>2, <1>4, <1>5
<1>8. /\ put' \in [Threads -> SUBSET Nat]
      /\ \A u \in Threads \ {t} : put'[u] = put[u]
  <2>1. 0 .. size[t] - 1 \subseteq Nat
    BY <1>2
  <2>. QED
    BY <1>1, <1>5, <2>1 DEF Numbers
<1>9. NumbersMove(t) /\ Numbers' /\ limit'[t] <= Length(x)
  BY <1>1, <1>3, <1>4, <1>7, <1>8 DEF Numbers, NumbersMove
<1>10. Reachable' \subseteq Reachable
  BY <1>3, <1>6, NothingNew DEF x
<1>11. /\ HeapKept({x}) /\ DOMAIN heap'[x] = DOMAIN heap[x]
       /\ Filling(heap', x, Length(x), put'[t], t)
  <2>1. CASE /\ put' = [put EXCEPT ![t] = 0 .. size[t] - 1] /\ heap' = Stored(x, 0, size[t], t)
    <3>1. HeapKept({x}) /\ NowStored(x, 0, size[t], t)
      <4>1. HeapOK /\ x \in InUse(t) /\ x = data'[t]
        BY <1>1, <1>2, <1>6
      <4>. QED
        BY <1>10, <2>1, <4>1, Storing
    <3>2. put'[t] = {} \cup 0 .. size[t] - 1
      BY <1>1, <2>1 DEF Numbers
    <3>3. 0 \in Nat /\ size[t] <= Length(x)
      BY <1>2, <1>4
    <3>4. Filling(heap, x, Length(x), {}, t)
      BY DEF Filling
    <3>5. Filling(heap', x, Length(x), {} \cup 0 .. size[t] - 1, t)
      BY <1>2, <1>4, <3>1, <3>3, <3>4, OwnStored
    <3>. QED
      BY <3>1, <3>2, <3>5 DEF NowStored
  <2>2. CASE put' = put /\ heap' = heap
    <3>1. HeapKept({})
      BY <1>1, <1>10, <2>2, Standing
    <3>2. HeapKept({x})
      BY <3>1 DEF HeapKept
    <3>3. Filling(heap', x, Length(x), put'[t], t)
      BY <1>2, <2>2 DEF Filling
    <3>. QED
      BY <2>2, <3>2, <3>3
  <2>. QED
    BY <1>5, <2>1, <2>2
<1>12. Backed(t)'
  <2>1. Current(t)' = x /\ Length(Current(t))' = Length(x)
    BY <1>6, <1>11 DEF Current, Length
  <2>2. Own(t)'
    BY <1>11, <2>1 DEF Own, Filling
  <2>3. data'[t] # Null
    BY <1>1, <1>6
  <2>. QED
    BY <1>6, <1>9, <2>1, <2>2, <2>3 DEF Backed
<1>13. QueuesBacked' /\ Accounts'
  BY <1>3, <1>11, QueueStill
<1>. QED
  BY <1>2, <1>6, <1>9, <1>11, <1>12, <1>13, Together

LEMMA AdoptingRoom ==
  ASSUME IInv, IInv', MemInv, NEW t \in Threads, NEW n \in Nat, Adopt(t, n)
  PROVE  MemInv'
<1>1. Control /\ Control' /\ HeapOK /\ Numbers /\ pc[t] = "idle"
  BY DEF IInv, MemInv, Adopt
<1>2. PICK a \in Arrays : Fresh(a, n, t) /\ data' = [data EXCEPT ![t] = a]
  BY DEF Adopt
<1>3. /\ capacity' = [capacity EXCEPT ![t] = n] /\ limit' = [limit EXCEPT ![t] = n]
      /\ put' = [put EXCEPT ![t] = 0 .. n - 1]
      /\ memcache' = memcache /\ totalCachedSize' = totalCachedSize
      /\ pc' = pc /\ size' = size /\ newData' = newData
  BY DEF Adopt, cache, frame
<1>4. /\ data'[t] = a /\ capacity'[t] = n /\ limit'[t] = n /\ put'[t] = 0 .. n - 1
      /\ OnlyMoves(t) /\ NumbersMove(t) /\ Numbers'
  <2>1. 0 .. n - 1 \in SUBSET Nat
    OBVIOUS
  <2>. QED
    BY <1>1, <1>2, <1>3, <2>1 DEF Control, Numbers, OnlyMoves, NumbersMove
<1>5. Reachable' \subseteq Reachable \cup {a}
  <2>1. Roots(memcache', data', newData') \subseteq Roots(memcache, data, newData) \cup {a}
    BY <1>3, <1>4 DEF Roots, OnlyMoves
  <2>. QED
    BY <1>1, <2>1, Reached, ReachedNext
<1>6. /\ HeapKept({}) /\ \A i \in 0 .. n - 1 : heap'[a][i] = t
      /\ Cardinality(DOMAIN heap'[a]) = n
  <2>1. t \in Bytes /\ HeapOK /\ Fresh(a, n, t)
    BY <1>1, <1>2 DEF Bytes
  <2>2. HeapKept({}) /\ Filled(a, n, t)
    BY <1>5, <2>1, NewArray
  <2>. QED
    BY <2>2 DEF Filled
<1>7. Backed(t)'
  <2>1. pc'[t] = "idle"
    BY <1>1, <1>3
  <2>2. Current(t)' = a
    BY <1>4, <2>1 DEF Current
  <2>3. Length(Current(t))' = n
    BY <1>6, <2>2 DEF Length
  <2>4. Own(t)'
    BY <1>4, <1>6, <2>2, <2>3 DEF Own
  <2>5. data'[t] # Null
    BY <1>4, NullAssumption
  <2>. QED
    BY <1>4, <2>1, <2>2, <2>3, <2>4, <2>5 DEF Backed
<1>8. QueuesBacked' /\ Accounts'
  BY <1>3, <1>6, QueueStill
<1>. QED
  BY <1>4, <1>6, <1>7, <1>8, Together

LEMMA Raising ==
  ASSUME NEW old \in Nat, NEW n \in Nat, NEW l \in Nat, old <= l, n <= l
  PROVE  Raised(old, n) \in Nat /\ Raised(old, n) <= l
BY DEF Raised

LEMMA PuttingRoom ==
  ASSUME IInv, IInv', MemInv, NEW t \in Threads, NEW n \in Nat, pc[t] = "idle",
         data[t] # Null, n <= capacity[t], NEW from \in Nat,
         heap' = Stored(data[t], from, n, t), StoredAt(t, from, n),
         UNCHANGED <<cache, data, capacity, frame>>
  PROVE  MemInv'
<1>. DEFINE x == data[t]
<1>1. /\ Control /\ HeapOK /\ Numbers /\ Backed(t)
      /\ memcache' = memcache /\ totalCachedSize' = totalCachedSize /\ data' = data
      /\ capacity' = capacity /\ pc' = pc /\ size' = size /\ newData' = newData
  BY DEF IInv, MemInv, cache, frame
<1>2. /\ x \in InUse(t) /\ Holding(t) /\ Current(t) = x
      /\ limit[t] \in Nat /\ limit[t] <= capacity[t] /\ capacity[t] = Length(x) /\ Own(t)
  BY <1>1 DEF InUse, Holding, Current, Backed, Numbers
<1>3. Length(x) \in Nat /\ DOMAIN heap[x] = 0 .. Length(x) - 1
  BY <1>1, <1>2, ArrayInHand
<1>4. /\ limit'[t] = Raised(limit[t], n) /\ put'[t] = put[t] \cup from .. n - 1
      /\ Raised(limit[t], n) \in Nat /\ Raised(limit[t], n) <= Length(x)
      /\ OnlyMoves(t) /\ NumbersMove(t) /\ Numbers'
  <2>1. Raised(limit[t], n) \in Nat /\ Raised(limit[t], n) <= Length(x)
    BY <1>2, <1>3, Raising
  <2>2. put[t] \cup from .. n - 1 \in SUBSET Nat
    BY <1>1 DEF Numbers
  <2>. QED
    BY <1>1, <2>1, <2>2 DEF Numbers, OnlyMoves, NumbersMove, StoredAt
<1>5. Reachable' \subseteq Reachable
  BY <1>1, <1>4, NothingNew
<1>6. HeapKept({x}) /\ NowStored(x, from, n, t)
  BY <1>1, <1>2, <1>5, Storing
<1>. HIDE DEF x
<1>7. Backed(t)'
  <2>1. Current(t)' = x /\ Length(Current(t))' = Length(x)
    BY <1>1, <1>2, <1>6 DEF Current, Length, NowStored, x
  <2>2. Filling(heap, x, Length(x), put[t], t)
    BY <1>2 DEF Own, Filling
  <2>3. Filling(heap', x, Length(x), put[t] \cup from .. n - 1, t)
    BY <1>2, <1>3, <1>6, <2>2, OwnStored
  <2>4. Own(t)'
    BY <1>4, <2>1, <2>3 DEF Own, Filling
  <2>5. pc'[t] = "idle" /\ data'[t] # Null /\ capacity'[t] = Length(x)
    BY <1>1, <1>2
  <2>. QED
    BY <1>4, <2>1, <2>4, <2>5 DEF Backed
<1>8. QueuesBacked' /\ Accounts'
  BY <1>1, <1>6, QueueStill
<1>. QED
  BY <1>2, <1>4, <1>6, <1>7, <1>8, Together

LEMMA ClearingRoom ==
  ASSUME IInv, IInv', MemInv, NEW t \in Threads, Clear(t)
  PROVE  MemInv'
<1>1. /\ Control /\ HeapOK /\ Numbers /\ Backed(t) /\ pc[t] = "idle" /\ data[t] # Null
      /\ memcache' = memcache /\ totalCachedSize' = totalCachedSize /\ data' = data
      /\ capacity' = capacity /\ pc' = pc /\ size' = size /\ newData' = newData
      /\ heap' = heap /\ put' = put /\ limit' = [limit EXCEPT ![t] = capacity[t]]
  BY DEF IInv, MemInv, Clear, cache, frame
<1>2. /\ limit'[t] = capacity[t] /\ capacity[t] \in Nat
      /\ OnlyMoves(t) /\ NumbersMove(t) /\ Numbers'
  BY <1>1 DEF Numbers, OnlyMoves, NumbersMove
<1>3. Reachable' \subseteq Reachable
  BY <1>1, <1>2, NothingNew
<1>4. HeapKept({})
  BY <1>1, <1>3, Standing
<1>5. Backed(t)'
  <2>1. Holding(t) /\ Current(t)' = Current(t) /\ \A b : Length(b)' = Length(b)
    BY <1>1 DEF Holding, Current, Length
  <2>2. capacity[t] = Length(Current(t)) /\ Own(t)
    BY <1>1, <2>1 DEF Backed
  <2>3. Length(Current(t))' = Length(Current(t))
    BY <1>1, <2>1 DEF Length
  <2>4. Own(t)'
    BY <1>1, <2>1, <2>2, <2>3 DEF Own
  <2>5. limit'[t] <= capacity'[t] /\ capacity'[t] = Length(Current(t))'
    BY <1>1, <1>2, <2>2, <2>3
  <2>6. pc'[t] = "idle" /\ data'[t] # Null
    BY <1>1
  <2>. QED
    BY <2>4, <2>5, <2>6 DEF Backed
<1>6. QueuesBacked' /\ Accounts'
  BY <1>1, <1>4, QueueStill
<1>. QED
  BY <1>2, <1>4, <1>5, <1>6, Together

LEMMA CopyingOverRoom ==
  ASSUME IInv, IInv', MemInv, NEW t \in Threads, GrowCopy(t)
  PROVE  MemInv'
<1>. DEFINE x == newData[t]
            a == data[t]
            copy == Copied(a, x)
<1>1. /\ Control /\ HeapOK /\ Numbers /\ Backed(t) /\ pc[t] = "grow copy"
      /\ a # Null /\ x # Null /\ x # a
      /\ memcache' = memcache /\ totalCachedSize' = totalCachedSize
      /\ data' = data /\ limit' = limit /\ size' = size /\ newData' = newData /\ put' = put
      /\ pc' = [pc EXCEPT ![t] = "grow release"]
      /\ capacity' = [capacity EXCEPT ![t] = Length(x)]
      /\ heap' = [heap EXCEPT ![x] = copy]
  BY DEF IInv, MemInv, Control, OneHand, GrowCopy, Goto, cache
<1>2. /\ x \in InUse(t) /\ a \in InUse(t) /\ Holding(t) /\ Current(t) = a
  BY <1>1 DEF InUse, Holding, Current
<1>3. /\ limit[t] \in Nat /\ size[t] \in Nat /\ limit[t] <= Length(a) /\ Length(a) < size[t]
      /\ Length(x) >= size[t]
      /\ \A i \in put[t] : i \in 0 .. Length(a) - 1 /\ heap[a][i] = t
  BY <1>1, <1>2 DEF Backed, Numbers, Own
<1>4. /\ x \in DOMAIN heap /\ x \in Arrays /\ Length(x) \in Nat
      /\ DOMAIN heap[x] = 0 .. Length(x) - 1
      /\ \A i \in 0 .. Length(x) - 1 : heap[x][i] \in Bytes
  BY <1>1, <1>2, ArrayInHand
<1>5. /\ Length(a) \in Nat /\ \A i \in 0 .. Length(a) - 1 : heap[a][i] \in Bytes
  BY <1>1, <1>2, ArrayInHand
<1>6. copy \in Blocks /\ DOMAIN copy = DOMAIN heap[x]
      /\ \A i \in put[t] : i \in 0 .. Length(x) - 1 /\ copy[i] = t
  <2>. HIDE DEF a, x
  <2>1. copy \in [0 .. Length(x) - 1 -> Bytes]
    BY <1>4, <1>5 DEF Copied
  <2>2. \A i \in 0 .. Length(a) - 1 : i \in 0 .. Length(x) - 1 /\ i < Length(a)
    BY <1>3, <1>4, <1>5
  <2>3. \A i \in put[t] : i \in 0 .. Length(x) - 1 /\ copy[i] = t
    BY <1>3, <1>4, <2>2 DEF Copied
  <2>4. copy \in Blocks
    BY <1>4, <2>1, BlockOf
  <2>. QED
    BY <1>4, <2>3, <2>4 DEF Copied
<1>. HIDE DEF x, a, copy
<1>7. /\ OnlyMoves(t) /\ NumbersMove(t) /\ Numbers'
      /\ pc'[t] = "grow release" /\ capacity'[t] = Length(x)
  BY <1>1, <1>4 DEF Control, Numbers, OnlyMoves, NumbersMove
<1>8. Reachable' \subseteq Reachable /\ x \in Reachable'
  <2>1. x = newData'[t]
    BY <1>1 DEF x
  <2>2. data'[t] = data[t] /\ newData'[t] = newData[t]
    BY <1>1
  <2>. QED
    BY <1>1, <1>4, <1>7, <2>1, <2>2, NothingNew, StillReached
<1>9. HeapKept({x}) /\ heap'[x] = copy
  BY <1>1, <1>4, <1>6, <1>8, Writing
<1>10. Backed(t)'
  <2>1. /\ Current(t)' = x /\ newData'[t] = x /\ limit'[t] = limit[t] /\ size'[t] = size[t]
        /\ put'[t] = put[t] /\ data'[t] # Null
    BY <1>1, <1>7 DEF Current, x, a
  <2>2. Length(newData[t])' = Length(x) /\ Length(Current(t))' = Length(x)
    BY <1>6, <1>9, <2>1 DEF Length
  <2>3. limit[t] <= Length(x)
    BY <1>3, <1>4, <1>5
  <2>4. Own(t)'
    BY <1>6, <1>9, <2>1, <2>2 DEF Own
  <2>. QED
    BY <1>3, <1>7, <2>1, <2>2, <2>3, <2>4 DEF Backed
<1>11. QueuesBacked' /\ Accounts'
  BY <1>1, <1>9, QueueStill
<1>. QED
  BY <1>2, <1>7, <1>9, <1>10, <1>11, Together

LEMMA ReleasingRoom ==
  ASSUME IInv, IInv', MemInv, NEW t \in Threads, GrowRelease(t) \/ ReleaseForReuse(t)
  PROVE  MemInv'
<1>. DEFINE a == data[t]
<1>1. /\ Control /\ Control' /\ OneHand /\ HeapOK /\ Numbers /\ Backed(t)
      /\ heap' = heap /\ data' = data /\ capacity' = capacity /\ limit' = limit
      /\ put' = put /\ size' = size /\ newData' = newData
  BY DEF IInv, MemInv, GrowRelease, ReleaseForReuse, buffer
<1>2. a \in InUse(t)
  BY <1>1 DEF InUse, Control, GrowRelease, ReleaseForReuse
<1>3. a \in Reachable /\ a \in Arrays /\ ~Holds(memcache, a)
  BY <1>1, <1>2, InHand DEF OneHand
<1>. HIDE DEF a
<1>4. /\ QueuesBacked' /\ Accounts'
      /\ \A b : Holds(memcache', b) => b = a \/ Holds(memcache, b)
  <2>1. ReleaseBytes(a)
    BY DEF GrowRelease, ReleaseForReuse, a
  <2>. QED
    BY <1>1, <1>3, <2>1, QueueGets
<1>5. Reachable' \subseteq Reachable
  <2>1. a \in Roots(memcache, data, newData)
    BY <1>1, <1>3, Reached
  <2>2. Roots(memcache', data', newData') \subseteq Roots(memcache, data, newData)
    BY <1>1, <1>4, <2>1 DEF Roots
  <2>. QED
    BY <1>1, <2>2, Reached, ReachedNext
<1>6. HeapKept({})
  BY <1>1, <1>5, Standing
<1>7. /\ OnlyMoves(t) /\ NumbersMove(t) /\ Numbers'
      /\ ReleaseForReuse(t) => pc'[t] = "forget"
      /\ GrowRelease(t) => pc[t] = "grow release" /\ pc'[t] = "grow assign" /\ data[t] # Null
  BY <1>1 DEF Control, Numbers, OnlyMoves, NumbersMove, GrowRelease, ReleaseForReuse, Goto
<1>8. Backed(t)'
  <2>1. CASE ReleaseForReuse(t)
    <3>1. data'[t] # Null
      BY <1>1, <2>1 DEF ReleaseForReuse
    <3>. QED
      BY <1>7, <2>1, <3>1 DEF Backed, Holding
  <2>2. CASE GrowRelease(t)
    <3>1. pc[t] = "grow release" /\ pc'[t] = "grow assign" /\ Holding(t) /\ Holding(t)'
      BY <1>1, <1>7, <2>2 DEF Holding
    <3>2. Current(t)' = Current(t)
      BY <1>1, <3>1 DEF Current
    <3>3. \A b : Length(b)' = Length(b)
      BY <1>1 DEF Length
    <3>4. Length(newData[t]) >= size[t]
      BY <1>1, <3>1 DEF Backed
    <3>5. limit[t] <= capacity[t] /\ capacity[t] = Length(Current(t)) /\ Own(t)
      BY <1>1, <3>1 DEF Backed
    <3>6. /\ Length(newData[t])' = Length(newData[t])
          /\ Length(Current(t))' = Length(Current(t))
      BY <1>1, <3>2 DEF Length
    <3>7. Own(t)'
      BY <1>1, <3>2, <3>5, <3>6 DEF Own
    <3>8. data'[t] # Null
      BY <1>1, <3>1 DEF Holding
    <3>. QED
      BY <1>1, <3>1, <3>2, <3>4, <3>5, <3>6, <3>7, <3>8 DEF Backed
  <2>. QED
    BY <2>1, <2>2
<1>. QED
  BY <1>4, <1>6, <1>7, <1>8, Together

LEMMA AssigningRoom ==
  ASSUME IInv, IInv', MemInv, NEW t \in Threads, GrowAssign(t)
  PROVE  MemInv'
<1>. DEFINE x == newData[t]
<1>0. PICK from : /\ from \in Before(size[t]) /\ StoredAt(t, from, size[t])
                   /\ heap' = Collected(Stored(newData[t], from, size[t], t))
  BY DEF GrowAssign
<1>1. /\ Control /\ HeapOK /\ Numbers /\ Backed(t) /\ pc[t] = "grow assign"
      /\ x # Null /\ x # data[t] /\ data[t] # Null /\ from \in Nat
      /\ memcache' = memcache /\ totalCachedSize' = totalCachedSize /\ capacity' = capacity
      /\ data' = [data EXCEPT ![t] = newData[t]]
      /\ newData' = [newData EXCEPT ![t] = Null] /\ size' = [size EXCEPT ![t] = 0]
      /\ pc' = [pc EXCEPT ![t] = "idle"]
  BY <1>0, CacheAssumption DEF IInv, MemInv, Control, OneHand, GrowAssign, Goto, cache, Before
<1>2. /\ x \in InUse(t) /\ Holding(t) /\ Current(t) = x
  BY <1>1 DEF InUse, Holding, Current
<1>3. /\ limit[t] \in Nat /\ size[t] \in Nat /\ Length(x) >= size[t]
      /\ limit[t] <= Length(x) /\ capacity[t] = Length(x)
      /\ Filling(heap, x, Length(x), put[t], t)
  BY <1>1, <1>2 DEF Backed, Numbers, Own, Filling
<1>4. Length(x) \in Nat /\ DOMAIN heap[x] = 0 .. Length(x) - 1 /\ size[t] <= Length(x)
  BY <1>1, <1>2, <1>3, ArrayInHand
<1>5. /\ data'[t] = x /\ newData'[t] = Null /\ pc'[t] = "idle" /\ capacity'[t] = Length(x)
      /\ limit'[t] <= Length(x) /\ put'[t] = put[t] \cup from .. size[t] - 1
      /\ OnlyMoves(t) /\ NumbersMove(t) /\ Numbers'
  <2>. DEFINE raised == Raised(limit[t], size[t])
  <2>1. raised \in Nat /\ raised <= Length(x)
    <3>. HIDE DEF x
    <3>1. limit[t] <= Length(x) /\ size[t] <= Length(x) /\ Length(x) \in Nat
      BY <1>3, <1>4
    <3>. QED
      BY <1>3, <3>1, Raising
  <2>2. put[t] \cup from .. size[t] - 1 \in SUBSET Nat
    <3>1. put[t] \subseteq Nat /\ from \in Nat
      BY <1>1 DEF Numbers
    <3>2. \A n \in Nat : from .. n - 1 \subseteq Nat
      BY <3>1
    <3>. QED
      BY <1>3, <3>1, <3>2
  <2>3. /\ limit' = [limit EXCEPT ![t] = raised]
        /\ put' = [put EXCEPT ![t] = put[t] \cup from .. size[t] - 1]
    BY <1>0 DEF StoredAt
  <2>. HIDE DEF raised
  <2>. QED
    BY <1>1, <1>3, <2>1, <2>2, <2>3 DEF Control, Numbers, OnlyMoves, NumbersMove
<1>6. Reachable' \subseteq Reachable
  BY <1>1, <1>5, NothingNew
<1>. HIDE DEF x
<1>7. HeapKept({x}) /\ NowStored(x, from, size[t], t)
  <2>1. HeapOK /\ x \in InUse(t) /\ x = data'[t]
    BY <1>1, <1>2, <1>5
  <2>2. heap' = Collected(Stored(x, from, size[t], t))
    BY <1>0 DEF x
  <2>. QED
    BY <1>6, <2>1, <2>2, Storing
<1>8. Backed(t)'
  <2>1. Current(t)' = x
    BY <1>5 DEF Current
  <2>2. Length(Current(t))' = Length(x)
    BY <1>7, <2>1 DEF Length, NowStored
  <2>3. Filling(heap', x, Length(x), put[t] \cup from .. size[t] - 1, t)
    BY <1>1, <1>3, <1>4, <1>7, OwnStored
  <2>4. Own(t)'
    BY <1>5, <2>1, <2>2, <2>3 DEF Own, Filling
  <2>5. data'[t] # Null
    BY <1>1, <1>5
  <2>. QED
    BY <1>5, <2>1, <2>2, <2>4, <2>5 DEF Backed
<1>9. QueuesBacked' /\ Accounts'
  BY <1>1, <1>7, QueueStill
<1>. QED
  BY <1>2, <1>5, <1>7, <1>8, <1>9, Together

LEMMA LeavingRoom ==
  ASSUME IInv, IInv', MemInv, NEW t \in Threads, Forget(t) \/ Drop(t)
  PROVE  MemInv'
<1>1. /\ Control /\ HeapOK /\ Numbers
      /\ memcache' = memcache /\ totalCachedSize' = totalCachedSize
      /\ newData' = newData /\ size' = size
      /\ data' = [data EXCEPT ![t] = Null] /\ pc' = [pc EXCEPT ![t] = "idle"]
      /\ capacity' = [capacity EXCEPT ![t] = 0] /\ limit' = [limit EXCEPT ![t] = 0]
      /\ put' = [put EXCEPT ![t] = {}] /\ heap' = Collected(heap)
  BY DEF IInv, MemInv, Control, Forget, Drop, Gone, Goto, cache
<1>2. /\ data'[t] = Null /\ newData'[t] = newData[t] /\ pc'[t] = "idle" /\ put'[t] = {}
      /\ OnlyMoves(t) /\ NumbersMove(t) /\ Numbers'
  BY <1>1 DEF Control, Numbers, OnlyMoves, NumbersMove
<1>3. Reachable' \subseteq Reachable
  BY <1>1, <1>2, NothingNew
<1>4. HeapKept({})
  BY <1>1, <1>3, Collecting
<1>5. Backed(t)'
  BY <1>2 DEF Backed, Holding
<1>6. QueuesBacked' /\ Accounts'
  BY <1>1, <1>4, QueueStill
<1>. QED
  BY <1>2, <1>4, <1>5, <1>6, Together

-----------------------------------------------------------------------------
LEMMA InitRoom == Init => MemInv
<1>. SUFFICES ASSUME Init PROVE MemInv
  OBVIOUS
<1>1. Numbers /\ QueuesBacked
  BY DEF Init, Numbers, QueuesBacked
<1>2. \A t \in Threads : Backed(t)
  BY DEF Init, Backed, Holding
<1>3. Cached = {}
  BY DEF Init, Cached, Range
<1>4. Accounts
  BY <1>3, SumOfNone, FS_EmptySet DEF Init, Accounts
<1>5. HeapOK
  <2>1. DOMAIN heap = {}
    BY DEF Init
  <2>2. Reachable = {}
    BY <1>3 DEF Init, Reachable, Range
  <2>3. heap \in [{} -> Blocks]
    BY DEF Init
  <2>. QED
    BY <2>1, <2>2, <2>3 DEF HeapOK, IsHeap
<1>. QED
  BY <1>1, <1>2, <1>4, <1>5 DEF MemInv

LEMMA StepKeepsRoom == IInv /\ IInv' /\ MemInv /\ [Next]_vars => MemInv'
<1>. SUFFICES ASSUME IInv, IInv', MemInv, [Next]_vars PROVE MemInv'
  OBVIOUS
<1>1. ASSUME NEW t \in Threads, Step(t) PROVE MemInv'
  <2>1. ASSUME NEW n \in Sizes, NEW label \in {"new", "new copy", "new null"}, New(t, n, label)
        PROVE  MemInv'
    <3>1. Asks(t, n, label)
      BY <2>1 DEF New, Asks
    <3>. QED
      BY <2>1, <3>1, AllocatingRoom DEF New
  <2>2. ASSUME NEW n \in Requests, Adopt(t, n) PROVE MemInv'
    BY <2>2, AdoptingRoom, CacheAssumption
  <2>3. ASSUME NEW n \in Requests, Put(t, n) PROVE MemInv'
    <3>1. n \in Nat /\ n \in Sizes
      BY CacheAssumption DEF Sizes
    <3>2. CASE n > capacity[t] /\ AllocBytes(t, n, "grow copy")
      <4>1. Asks(t, n, "grow copy")
        <5>1. capacity[t] \in Nat
          BY DEF MemInv, Numbers
        <5>. QED
          BY <2>3, <3>1, <3>2, <5>1 DEF Put, Asks
      <4>. QED
        BY <3>1, <3>2, <4>1, AllocatingRoom
    <3>3. ASSUME NEW from \in Before(n), n <= capacity[t],
                 heap' = Stored(data[t], from, n, t), StoredAt(t, from, n),
                 UNCHANGED <<cache, data, capacity, frame>>
          PROVE  MemInv'
      <4>1. from \in Nat
        BY CacheAssumption DEF Before
      <4>. QED
        BY <2>3, <3>1, <3>3, <4>1, PuttingRoom DEF Put
    <3>. QED
      BY <2>3, <3>2, <3>3 DEF Put
  <2>4. Requests \subseteq Sizes /\ Unit \in Sizes
    BY DEF Sizes
  <2>. QED
    BY <1>1, <2>1, <2>2, <2>3, <2>4, ConstructingRoom, ClearingRoom, CopyingOverRoom,
       ReleasingRoom, AssigningRoom, LeavingRoom DEF Step
<1>2. CASE UNCHANGED vars
  <2>1. /\ heap' = heap /\ memcache' = memcache /\ totalCachedSize' = totalCachedSize
        /\ data' = data /\ capacity' = capacity /\ limit' = limit
        /\ pc' = pc /\ size' = size /\ newData' = newData /\ put' = put
    BY <1>2 DEF vars, cache, buffer, frame
  <2>2. Numbers' /\ QueuesBacked'
    BY <2>1 DEF MemInv, Numbers, QueuesBacked, Length
  <2>3. HeapOK' /\ Accounts'
    BY <2>1 DEF MemInv, HeapOK, Reachable, Cached, Accounts
  <2>4. \A t \in Threads : Backed(t)'
    BY <2>1 DEF MemInv, Backed, Own, Holding, Current, Length
  <2>. QED
    BY <2>2, <2>3, <2>4 DEF MemInv
<1>. QED
  BY <1>1, <1>2 DEF Next

LEMMA RoomAlways == Spec => [](IInv /\ MemInv)
<1>1. Init => IInv /\ MemInv
  BY InitHolds, InitRoom
<1>2. IInv /\ MemInv /\ [Next]_vars => (IInv /\ MemInv)'
  BY StepKeeps, StepKeepsRoom
<1>. QED
  BY <1>1, <1>2, PTL DEF Spec

-----------------------------------------------------------------------------
(* What a thread refers to leads to an array on the heap, no array is taken *)
(* for one that was collected, and the count of cached bytes never wraps    *)
(* below zero (allocBytes and releaseBytes, DyBuf.java).                    *)
THEOREM TypeCorrect == Spec => []TypeOK
<1>1. ASSUME IInv, MemInv PROVE TypeOK
  <2>1. Control /\ HeapOK /\ Accounts
    BY <1>1 DEF IInv, MemInv
  <2>2. \A a \in DOMAIN heap : Range(heap[a]) \subseteq Threads \cup {Null}
    <3>1. \A b \in Blocks : Range(b) \subseteq Threads \cup {Null}
      BY DEF Blocks, Bytes, Range
    <3>2. \A a \in DOMAIN heap : heap[a] \in Blocks
      BY <2>1 DEF HeapOK, IsHeap
    <3>. QED
      BY <3>1, <3>2
  <2>3. totalCachedSize \in Nat
    BY <2>1, CachedOnHeap, SumIsNumber DEF Accounts
  <2>4. DOMAIN heap \subseteq Arrays /\ Reachable \subseteq DOMAIN heap
    BY <2>1 DEF HeapOK, IsHeap
  <2>5. \A t \in Threads : newData[t] # Null <=> pc[t] \notin {"idle", "forget"}
    BY <2>1 DEF Control
  <2>. QED
    BY <2>2, <2>3, <2>4, <2>5 DEF TypeOK
<1>. QED
  BY <1>1, RoomAlways, PTL

(* An array from the cache is as long as what was asked for, whatever its   *)
(* length was when it was released, and the limit of a buffer has memory    *)
(* behind it at every step of growing (allocBytes, releaseBytes and         *)
(* capacity(int), DyBuf.java).                                              *)
THEOREM RoomEnoughAlways == Spec => []RoomEnough
<1>1. ASSUME IInv, MemInv PROVE RoomEnough
  <2>1. Control /\ QueuesBacked /\ \A t \in Threads : Backed(t)
    BY <1>1 DEF IInv, MemInv
  <2>2. \A c \in Classes : DOMAIN memcache[c] = 1 .. Len(memcache[c])
    <3>1. \A c \in Classes : memcache[c] \in Seq(Arrays)
      BY <2>1 DEF Control, Queues
    <3>. QED
      BY <3>1
  <2>3. \A c \in Classes : \A i \in DOMAIN memcache[c] : Length(memcache[c][i]) >= c
    BY <2>1, <2>2 DEF QueuesBacked
  <2>4. ASSUME NEW t \in Threads
        PROVE  /\ newData[t] # Null => Length(newData[t]) >= size[t]
               /\ Holding(t) => limit[t] <= capacity[t] /\ capacity[t] = Length(Current(t))
    BY <2>1 DEF Backed, Control
  <2>. QED
    BY <2>3, <2>4 DEF RoomEnough
<1>. QED
  BY <1>1, RoomAlways, PTL

(* What a thread put in its buffer stays where it put it until it gives the *)
(* buffer up: no thread overwrites the bytes of another through an array    *)
(* that was cached, reused or grown meanwhile, and growing copies them all  *)
(* (allocBytes, releaseBytes, capacity(int), put, DyBuf.java).              *)
THEOREM OwnBytesAlways == Spec => []OwnBytes
<1>1. ASSUME IInv, MemInv PROVE OwnBytes
  <2>. SUFFICES ASSUME NEW t \in Threads, Holding(t), NEW i \in put[t]
                PROVE  i < capacity[t] /\ heap[Current(t)][i] = t
    BY DEF OwnBytes
  <2>1. /\ capacity[t] = Length(Current(t)) /\ capacity[t] \in Nat
        /\ i \in 0 .. Length(Current(t)) - 1 /\ heap[Current(t)][i] = t
    BY <1>1 DEF MemInv, Backed, Own, Numbers
  <2>. QED
    BY <2>1
<1>. QED
  BY <1>1, RoomAlways, PTL

(* totalCachedSize is the number of bytes in the queues: releaseBytes adds  *)
(* what allocBytes will subtract, also for an array of an odd length.       *)
THEOREM AccountsAlways == Spec => []CacheAccounts
<1>1. ASSUME MemInv PROVE CacheAccounts
  BY <1>1 DEF MemInv, Accounts, SumOfLengths, CacheAccounts, Length
<1>. QED
  BY <1>1, RoomAlways, PTL

=============================================================================
