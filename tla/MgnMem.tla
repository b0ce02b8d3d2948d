------------------------------- MODULE MgnMem -------------------------------
(***************************************************************************)
(* The managed memory of c/platform/plat_mgn_mem.h: a pool of reference-   *)
(* counted blocks, found by their address, and the owners that share them  *)
(* by retaining and releasing.  The allocator below (plat_mem_allocate)    *)
(* may reuse any address given back to it, and may fail.                   *)
(*                                                                         *)
(* The owners keep the contract of the header comment: an owner releases,  *)
(* autoreleases or reallocates only what it owns.                          *)
(***************************************************************************)
EXTENDS Naturals, FiniteSets

CONSTANTS
  Owners,
  Addresses,
  Values,     \* what the first byte of a block may hold
  Zero,       \* what it holds in fresh memory
  MaxSize,    \* bound: the largest block
  MaxCount    \* bound: the most ownerships of one block

ASSUME ZeroAssumption == Zero \in Values
ASSUME SizeAssumption == MaxSize \in Nat /\ MaxCount \in Nat \ {0}

VARIABLES
  pool,       \* the hash table: address -> [size, count] of its record
  allocated,  \* addresses the allocator has given out
  content,    \* what is stored at each address
  held,       \* how often each owner owns each address
  lost        \* addresses whose record left the pool although they were not freed

vars == <<pool, allocated, content, held, lost>>

Sizes == 1 .. MaxSize
Recorded == DOMAIN pool
NobodyHolds == [o \in Owners |-> [a \in Addresses |-> 0]]

(* The pool with, or without, a record. *)
With(p, a, size, count) ==
  [x \in DOMAIN p \cup {a} |-> IF x = a THEN [size |-> size, count |-> count] ELSE p[x]]
Without(p, gone) == [x \in DOMAIN p \ gone |-> p[x]]

(* The retained count of a goes up, or down where it was not zero. *)
RetainedTwice(a) == [pool EXCEPT ![a].count = @ + 2]
Retained(a) == [pool EXCEPT ![a].count = @ + 1]
Removed(a) == Without(pool, {a})
Dropped(a) == [pool EXCEPT ![a].count = IF @ > 0 THEN @ - 1 ELSE 0]

(* plat_mem_release, plat_mem_copy to a fresh block. *)
NotFreed(gone) == allocated
Freed(gone) == allocated \ gone
NotCopied(a, b) == content
Copied(a, b) == [content EXCEPT ![b] = content[a]]

Takes(o, a) == [held EXCEPT ![o][a] = @ + 1]
GivesUp(o, a) == [held EXCEPT ![o][a] = @ - 1]
Exchanges(o, a, b) == [held EXCEPT ![o][a] = @ - 1, ![o][b] = 1]

Init ==
  /\ pool = [x \in {} |-> 0]
  /\ allocated = {}
  /\ content \in [Addresses -> Values]
  /\ held = NobodyHolds
  /\ lost = {}

-----------------------------------------------------------------------------
(* mgn_mem_ralloc of nothing, or mgn_mem_alloc: a zeroed block with one owner. *)
Alloc(o, n, a) ==
  /\ a \notin allocated
  /\ pool' = With(pool, a, n, 1)
  /\ allocated' = allocated \cup {a}
  /\ content' = [content EXCEPT ![a] = Zero]
  /\ held' = Takes(o, a)
  /\ UNCHANGED lost

(* The owner stores something in its block. *)
Store(o, a, v) ==
  /\ held[o][a] > 0
  /\ content' = [content EXCEPT ![a] = v]
  /\ UNCHANGED <<pool, allocated, held, lost>>

(* mgn_mem_ralloc of an owned block gives back one that is large enough as  *)
(* it is, which is no step.  Otherwise the block of an only owner moves: it *)
(* leaves the pool, is copied to a new address and freed.                   *)
TooSmall(o, a, n) == held[o][a] > 0 /\ n > pool[a].size

GrowOwn(o, a, n, b) ==
  /\ TooSmall(o, a, n) /\ pool[a].count = 1
  /\ b \notin allocated
  /\ pool' = With(Removed(a), b, n, 1)
  /\ allocated' = Freed({a}) \cup {b}
  /\ content' = Copied(a, b)
  /\ held' = Exchanges(o, a, b)
  /\ UNCHANGED lost

(* One of several owners gives up its share and gets a copy of its own. *)
GrowShared(o, a, n, b) ==
  /\ TooSmall(o, a, n) /\ pool[a].count # 1
  /\ b \notin allocated
  /\ pool' = With(Dropped(a), b, n, 1)
  /\ allocated' = allocated \cup {b}
  /\ content' = Copied(a, b)
  /\ held' = Exchanges(o, a, b)
  /\ UNCHANGED lost

(* The allocator fails: null, and the share is given up all the same. *)
GrowSharedFails(o, a, n) ==
  /\ TooSmall(o, a, n) /\ pool[a].count # 1
  /\ pool' = Dropped(a)
  /\ held' = GivesUp(o, a)
  /\ UNCHANGED <<allocated, content, lost>>

(* The allocator fails an only owner: null, and the record has left the     *)
(* pool already, so that no later call finds the block.                     *)
GrowOwnFails(o, a, n) ==
  /\ TooSmall(o, a, n) /\ pool[a].count = 1
  /\ pool' = Removed(a)
  /\ held' = GivesUp(o, a)
  /\ lost' = lost \cup {a}
  /\ UNCHANGED <<allocated, content>>

(* mgn_mem_retain: whoever sees the block may become an owner, also of a    *)
(* block that was autoreleased and is still in the pool.                    *)
Retain(o, a) ==
  /\ a \in Recorded
  /\ pool[a].count < MaxCount
  /\ pool' = Retained(a)
  /\ held' = Takes(o, a)
  /\ UNCHANGED <<allocated, content, lost>>

(* mgn_mem_release frees the block with its last owner. *)
Release(o, a) ==
  /\ held[o][a] > 0
  /\ \/ /\ pool[a].count = 1
        /\ pool' = Removed(a)
        /\ allocated' = Freed({a})
     \/ /\ pool[a].count > 1
        /\ pool' = Dropped(a)
        /\ UNCHANGED allocated
  /\ held' = GivesUp(o, a)
  /\ UNCHANGED <<content, lost>>

(* mgn_mem_autorelease leaves the block in the pool, without an owner. *)
Autorelease(o, a) ==
  /\ held[o][a] > 0
  /\ pool' = Dropped(a)
  /\ held' = GivesUp(o, a)
  /\ UNCHANGED <<allocated, content, lost>>

UnusedOrSingle == {a \in Recorded : pool[a].count <= 1}
Unused == {a \in Recorded : pool[a].count = 0}

(* mgn_mem_release_unused *)
ReleaseUnused ==
  /\ pool' = Without(pool, Unused)
  /\ allocated' = Freed(Unused)
  /\ UNCHANGED <<content, held, lost>>

(* mgn_mem_release_all, the end: no owner uses anything afterwards. *)
ReleaseAll ==
  /\ pool' = Without(pool, Recorded)
  /\ allocated' = Freed(Recorded)
  /\ held' = NobodyHolds
  /\ UNCHANGED <<content, lost>>

-----------------------------------------------------------------------------
Step(o) ==
  \/ \E n \in Sizes, a \in Addresses : Alloc(o, n, a)
  \/ \E a \in Addresses :
       \/ \E v \in Values : Store(o, a, v)
       \/ Retain(o, a) \/ Release(o, a) \/ Autorelease(o, a)
       \/ \E n \in Sizes :
            \/ GrowSharedFails(o, a, n) \/ GrowOwnFails(o, a, n)
            \/ \E b \in Addresses : GrowOwn(o, a, n, b) \/ GrowShared(o, a, n, b)

Next == (\E o \in Owners : Step(o)) \/ ReleaseUnused \/ ReleaseAll

Spec == Init /\ [][Next]_vars

-----------------------------------------------------------------------------
(* Records are of addresses, counts and sizes stay in their bounds, memory   *)
(* given out is memory there is.                                            *)
TypeOK ==
  /\ Recorded \subseteq Addresses
  /\ pool \in [Recorded -> [size : Sizes, count : 0 .. MaxCount]]
  /\ allocated \subseteq Addresses
  /\ content \in [Addresses -> Values]
  /\ held \in [Owners -> [Addresses -> Nat]]
  /\ lost \subseteq Addresses

(* The ownerships of an address, each with its owner and a number. *)
Ownerships(h, a) == UNION {{o} \X (1 .. h[o][a]) : o \in Owners}

(* The retained count of a block is the number of ownerships of it, and     *)
(* nobody owns a block that was freed, whoever retains, grows, releases or  *)
(* autoreleases in between.                                                 *)
CountIsOwnership ==
  \A a \in Addresses :
    /\ IsFiniteSet(Ownerships(held, a))
    /\ Cardinality(Ownerships(held, a)) = IF a \in Recorded THEN pool[a].count ELSE 0

(* Every block the allocator has given out is in the pool, so that          *)
(* mgn_mem_release_all ("Release all memories", plat_mgn_mem.h) finds it,   *)
(* but for those an only owner failed to grow: these are beyond any call.   *)
NothingLost ==
  /\ allocated = Recorded \cup lost
  /\ Recorded \cap lost = {}

(* What one owner or the pool does leaves the blocks of the others alive,   *)
(* where they are, and as long as they were; only an owner stores in them.  *)
OthersKeepTheirBlocks ==
  [][ \A o \in Owners, a \in Addresses :
        (pool' # pool /\ held[o][a] > 0 /\ held'[o] = held[o]) =>
          /\ a \in DOMAIN pool'
          /\ pool'[a].size = pool[a].size
          /\ content'[a] = content[a] ]_vars

(* Growing a block carries its content along, into the copy of one of its   *)
(* owners as well.                                                          *)
ContentFollowsOwner ==
  [][ \A o \in Owners, a, b \in Addresses :
        (held'[o][a] < held[o][a] /\ held'[o][b] > held[o][b]) =>
          content'[b] = content[a] ]_vars

=============================================================================
