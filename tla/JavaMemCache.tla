---------------------------- MODULE JavaMemCache ----------------------------
(***************************************************************************)
(* The array cache of java/src/oyo/lol/util/DyBuf.java, the one part of    *)
(* the repository that threads share: static queues of byte arrays, one    *)
(* per size class, from which allocBytes takes and to which releaseBytes   *)
(* gives under one lock.  Every thread has a DyBuf of its own, which it    *)
(* creates, adopts an array with, puts into, clears and gives up; the      *)
(* steps outside the lock interleave.  A synchronized block is one step.   *)
(*                                                                         *)
(* Bytes are modelled by who put them there; nobody clears a reused array. *)
(* Whoever hands an array to new DyBuf(data, true) keeps its hands off it  *)
(* afterwards.                                                             *)
(***************************************************************************)
EXTENDS Naturals, SequencesExt

CONSTANTS
  Threads,
  Arrays,         \* byte[] objects; one nobody reaches is collected
  Unit,           \* CACHE_SIZE_UNIT: 16
  MaxCacheSize,   \* MAX_CACHE_SIZE: 32768
  Requests,       \* bounds: the sizes threads ask for, and
  Starts,         \* the places where their puts begin
  Null

ASSUME CacheAssumption ==
  /\ Unit \in Nat \ {0}
  /\ MaxCacheSize \in Nat
  /\ \E k \in 0 .. MaxCacheSize : MaxCacheSize = Unit * 2 ^ k
  /\ Requests \subseteq Nat
  /\ Requests # {} /\ IsFiniteSet(Requests)
  /\ Starts \subseteq Nat
ASSUME NullAssumption == Null \notin Arrays \cup Threads

VARIABLES
  heap,             \* array -> its bytes, each the thread that put it or Null
  memcache,         \* size class -> queue of arrays
  totalCachedSize,
  data,             \* thread -> _data of its DyBuf, Null without one
  capacity,         \* thread -> _capacity
  limit,            \* thread -> _limit
  pc,               \* thread -> where it is in a call
  size,             \* thread -> what the call asks for
  newData,          \* thread -> the local variable newData, or Null
  put               \* history: thread -> the places in its buffer it has put a byte

buffer == <<data, capacity, limit, put>>
frame == <<pc, size, newData>>
cache == <<memcache, totalCachedSize>>
vars == <<heap, cache, buffer, frame>>

(* Unit * 2^k: the least that is not below n, the greatest not above it.    *)
Powers == {Unit * 2 ^ k : k \in 0 .. Max(Requests) + MaxCacheSize}
Classes == {c \in Powers : c <= MaxCacheSize}
RoundedUp(n) == CHOOSE c \in Powers : c >= n /\ \A d \in Powers : d >= n => c <= d
RoundedDown(n) == CHOOSE c \in Powers : c <= n /\ \A d \in Powers : d <= n => d <= c

Length(a) == Cardinality(DOMAIN heap[a])
Cached == UNION {Range(memcache[c]) : c \in Classes}
Reachable == (Cached \cup Range(data) \cup Range(newData)) \ {Null}

(* A new array a of n bytes; the collector takes what nobody reaches.       *)
Fresh(a, n, byte) ==
  /\ a \in Arrays \ Reachable
  /\ heap' = [x \in Reachable \cup {a} |->
                IF x = a THEN [i \in 0 .. n - 1 |-> byte] ELSE heap[x]]
Collected(h) == Restrict(h, DOMAIN h \cap Reachable')

Init ==
  /\ heap = [a \in {} |-> 0]
  /\ memcache = [c \in Classes |-> <<>>]
  /\ totalCachedSize = 0
  /\ data = [t \in Threads |-> Null]
  /\ capacity = [t \in Threads |-> 0]
  /\ limit = [t \in Threads |-> 0]
  /\ pc = [t \in Threads |-> "idle"]
  /\ size = [t \in Threads |-> 0]
  /\ newData = [t \in Threads |-> Null]
  /\ put = [t \in Threads |-> {}]

Goto(t, label) == pc' = [pc EXCEPT ![t] = label]

-----------------------------------------------------------------------------
(* releaseBytes: into the queue of the class below the length, unless the   *)
(* array is too short or too long.                                          *)
ReleaseClassUp(a) == RoundedUp(Length(a))
ReleaseClass(a) == RoundedDown(Length(a))

ReleaseBytesByClass(a) ==
  IF Length(a) < Unit \/ Length(a) > MaxCacheSize
  THEN UNCHANGED cache
  ELSE /\ memcache' = [memcache EXCEPT ![ReleaseClass(a)] = Append(@, a)]
       /\ totalCachedSize' = totalCachedSize + ReleaseClass(a)
ReleaseBytes(a) ==
  IF Length(a) < Unit \/ Length(a) > MaxCacheSize
  THEN UNCHANGED cache
  ELSE /\ memcache' = [memcache EXCEPT ![ReleaseClass(a)] = Append(@, a)]
       /\ totalCachedSize' = totalCachedSize + Length(a)

(* allocBytes: the head of the queue of the class above the request, or a   *)
(* new array when the queue is empty or there is none.                      *)
PolledKept(c) == memcache
Polled(c) == [memcache EXCEPT ![c] = Tail(@)]

AllocBytes(t, n, then) ==
  LET c == RoundedUp(n)
  IN /\ \/ /\ c \in Classes /\ memcache[c] # <<>>
           /\ newData' = [newData EXCEPT ![t] = Head(memcache[c])]
           /\ memcache' = Polled(c)
           /\ totalCachedSize' = totalCachedSize - Length(Head(memcache[c]))
           /\ UNCHANGED heap
        \/ /\ c \in Classes => memcache[c] = <<>>
           /\ \E a \in Arrays :
                /\ Fresh(a, c, Null)
                /\ newData' = [newData EXCEPT ![t] = a]
           /\ UNCHANGED cache
     /\ size' = [size EXCEPT ![t] = n]
     /\ Goto(t, then)
     /\ UNCHANGED buffer

-----------------------------------------------------------------------------
(* new DyBuf(n), new DyBuf(bytes, false) with n bytes, new DyBuf(null, ..): *)
(* allocBytes, then the fields.                                             *)
New(t, n, how) ==
  /\ pc[t] = "idle" /\ data[t] = Null
  /\ AllocBytes(t, n, how)

(* The bytes from .. to - 1 of an array become those of t. *)
Stored(a, from, to, t) ==
  [heap EXCEPT ![a] = [i \in DOMAIN @ |-> IF i \in from .. to - 1 THEN t ELSE @[i]]]

(* Without bytes to start from the limit is 0, or, after null, the capacity: *)
(* everything a reused array holds is below it.                              *)
Construct(t) ==
  LET n == Length(newData[t])
  IN  /\ pc[t] \in {"new", "new copy", "new null"}
      /\ data' = [data EXCEPT ![t] = newData[t]]
      /\ capacity' = [capacity EXCEPT ![t] = n]
      /\ \/ /\ pc[t] = "new copy"
            /\ heap' = Stored(newData[t], 0, size[t], t)
            /\ limit' = [limit EXCEPT ![t] = size[t]]
            /\ put' = [put EXCEPT ![t] = 0 .. size[t] - 1]
         \/ /\ pc[t] # "new copy"
            /\ limit' = [limit EXCEPT ![t] = IF pc[t] = "new" THEN 0 ELSE n]
            /\ UNCHANGED <<heap, put>>
      /\ newData' = [newData EXCEPT ![t] = Null]
      /\ size' = [size EXCEPT ![t] = 0]
      /\ Goto(t, "idle")
      /\ UNCHANGED cache

(* new DyBuf(bytes, true) takes over an array of the caller's, of any length. *)
Adopt(t, n) ==
  /\ pc[t] = "idle" /\ data[t] = Null
  /\ \E a \in Arrays :
       /\ Fresh(a, n, t)
       /\ data' = [data EXCEPT ![t] = a]
  /\ capacity' = [capacity EXCEPT ![t] = n]
  /\ limit' = [limit EXCEPT ![t] = n]
  /\ put' = [put EXCEPT ![t] = 0 .. n - 1]
  /\ UNCHANGED <<cache, frame>>

(* A put, relative or absolute, of the bytes from .. n - 1: prepareForWrite *)
(* raises a lower limit to n, also over bytes nobody put, and grows the     *)
(* array first when the capacity does not reach.                            *)
Before(n) == {from \in Starts : from < n}
Raised(old, n) == IF n > old THEN n ELSE old
StoredAt(t, from, n) ==
  /\ limit' = [limit EXCEPT ![t] = Raised(@, n)]
  /\ put' = [put EXCEPT ![t] = @ \cup from .. n - 1]
Put(t, n) ==
  /\ pc[t] = "idle" /\ data[t] # Null
  /\ \/ /\ n <= capacity[t]
        /\ \E from \in Before(n) :
             heap' = Stored(data[t], from, n, t) /\ StoredAt(t, from, n)
        /\ UNCHANGED <<cache, data, capacity, frame>>
     \/ /\ n > capacity[t]
        /\ AllocBytes(t, n, "grow copy")

(* clear() raises the limit to the capacity. *)
Clear(t) ==
  /\ pc[t] = "idle" /\ data[t] # Null
  /\ limit' = [limit EXCEPT ![t] = capacity[t]]
  /\ UNCHANGED <<heap, cache, data, capacity, put, frame>>

(* capacity(n): the old bytes that fit are copied, *)
CopiedShort(a, b) == [i \in DOMAIN heap[b] |-> IF i + 1 < Length(a) THEN heap[a][i] ELSE heap[b][i]]
Copied(a, b) == [i \in DOMAIN heap[b] |-> IF i < Length(a) THEN heap[a][i] ELSE heap[b][i]]
GrowCopy(t) ==
  /\ pc[t] = "grow copy"
  /\ heap' = [heap EXCEPT ![newData[t]] = Copied(data[t], newData[t])]
  /\ capacity' = [capacity EXCEPT ![t] = Length(newData[t])]
  /\ Goto(t, "grow release")
  /\ UNCHANGED <<cache, data, limit, put, size, newData>>

(* the old array is given to the cache while _data still refers to it, *)
GrowRelease(t) ==
  /\ pc[t] = "grow release"
  /\ ReleaseBytes(data[t])
  /\ Goto(t, "grow assign")
  /\ UNCHANGED <<heap, buffer, size, newData>>

(* and then _data is assigned; the put that asked for it all goes on.       *)
GrowAssign(t) ==
  /\ pc[t] = "grow assign"
  /\ UNCHANGED <<cache, capacity>>
  /\ data' = [data EXCEPT ![t] = newData[t]]
  /\ newData' = [newData EXCEPT ![t] = Null]
  /\ \E from \in Before(size[t]) :
       heap' = Collected(Stored(newData[t], from, size[t], t)) /\ StoredAt(t, from, size[t])
  /\ size' = [size EXCEPT ![t] = 0]
  /\ Goto(t, "idle")

(* releaseForReuse gives the array to the cache and then forgets it. *)
ReleaseForReuse(t) ==
  /\ pc[t] = "idle" /\ data[t] # Null
  /\ ReleaseBytes(data[t])
  /\ Goto(t, "forget")
  /\ UNCHANGED <<heap, buffer, size, newData>>
Gone(t) ==
  /\ UNCHANGED <<cache, size, newData>>
  /\ data' = [data EXCEPT ![t] = Null]
  /\ heap' = Collected(heap)
  /\ capacity' = [capacity EXCEPT ![t] = 0]
  /\ limit' = [limit EXCEPT ![t] = 0]
  /\ put' = [put EXCEPT ![t] = {}]
Forget(t) ==
  /\ pc[t] = "forget"
  /\ Gone(t)
  /\ Goto(t, "idle")

(* A buffer is dropped without being released: its array is garbage. *)
Drop(t) ==
  /\ pc[t] = "idle" /\ data[t] # Null
  /\ Gone(t)
  /\ UNCHANGED pc

-----------------------------------------------------------------------------
Step(t) ==
  \/ \E n \in Requests :
       New(t, n, "new") \/ New(t, n, "new copy") \/ Adopt(t, n) \/ Put(t, n)
  \/ New(t, Unit, "new null") \/ Clear(t)
  \/ Construct(t)
  \/ GrowCopy(t) \/ GrowRelease(t) \/ GrowAssign(t)
  \/ ReleaseForReuse(t) \/ Forget(t) \/ Drop(t)

Next == \E t \in Threads : Step(t)
Spec == Init /\ [][Next]_vars

-----------------------------------------------------------------------------
(* The array that holds the bytes of the buffer of t, when there is one: in *)
(* the middle of growing it is the new one.                                 *)
Holding(t) == data[t] # Null /\ pc[t] # "forget"
Current(t) == IF pc[t] \in {"grow release", "grow assign"} THEN newData[t] ELSE data[t]

(* The arrays a thread may still touch. *)
InUse(t) ==
  {a \in {data[t], newData[t]} :
     a # Null /\ (a = data[t] => pc[t] \notin {"forget", "grow assign"})}

(* Every reference leads to an array, every queue is of arrays. *)
TypeOK ==
  /\ DOMAIN heap \subseteq Arrays
  /\ Reachable \subseteq DOMAIN heap
  /\ \A a \in DOMAIN heap : Range(heap[a]) \subseteq Threads \cup {Null}
  /\ \A t \in Threads : newData[t] # Null <=> pc[t] \notin {"idle", "forget"}
  /\ totalCachedSize \in Nat

(* No two hands on one array: what a thread may still touch no other thread *)
(* touches and no queue holds, and no queue holds an array twice, although  *)
(* an array is given to the cache before _data is assigned anew.            *)
OneHolder ==
  /\ \A t \in Threads : InUse(t) \cap Cached = {}
  /\ \A t, u \in Threads : t # u => InUse(t) \cap InUse(u) = {}
  /\ \A t \in Threads : newData[t] # Null => newData[t] # data[t]
  /\ \A c, d \in Classes :
       \A i \in DOMAIN memcache[c], j \in DOMAIN memcache[d] :
         memcache[c][i] = memcache[d][j] => c = d /\ i = j

(* Rounding down on release and up on request meet: an array from the cache *)
(* is as long as what was asked for, also one that was adopted at an odd    *)
(* length, and the limit of a buffer has memory behind it.                  *)
RoomEnough ==
  /\ \A c \in Classes : \A i \in DOMAIN memcache[c] : Length(memcache[c][i]) >= c
  /\ \A t \in Threads :
       /\ newData[t] # Null => Length(newData[t]) >= size[t]
       /\ Holding(t) => limit[t] <= capacity[t] /\ capacity[t] = Length(Current(t))

(* What a thread has put in its buffer stays where it put it until it gives *)
(* the buffer up: through its own growth and whatever the other threads     *)
(* take, release and put meanwhile.  The bytes it has not put may be        *)
(* anybody's, also below its limit.                                         *)
OwnBytes ==
  \A t \in Threads : Holding(t) =>
    \A i \in put[t] : i < capacity[t] /\ heap[Current(t)][i] = t

(* totalCachedSize is the number of bytes in the queues. *)
CacheAccounts == totalCachedSize = MapThenSumSet(Length, Cached)

=============================================================================
