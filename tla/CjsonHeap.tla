------------------------------ MODULE CjsonHeap ------------------------------
(***************************************************************************)
(* The JSON objects of c/json/cjson.c as operators on a heap of objects.   *)
(*                                                                         *)
(* An object and the buffer it may have (the characters of a string, the   *)
(* slots of an array, tuple or map) live and die together, so that one     *)
(* entry of the heap stands for both.  Every object is made with a         *)
(* reference count of 1 and nothing ever raises it: cjson_clone copies.    *)
(* Each release is then the last one, and the count is left out.           *)
(*                                                                         *)
(* "wild" says that a null, freed or mistyped object was used, after which *)
(* the program is undefined.  The cases of cjson_release lack their break  *)
(* and look at the freed object again; what they find there is a count     *)
(* that is not 1, as the allocator leaves it, and nothing more is released.*)
(***************************************************************************)
EXTENDS Integers, SequencesExt

CONSTANTS
  Space,      \* how many slots an array or a map starts with and grows by: 16 in the code
  IntRange    \* 2 to the width of an int

ASSUME SpaceAssumption == Space \in Nat \ {0}

NULL == 0

(* enum jstype: the number of a type orders objects of different types. *)
jstype == [nil |-> 0, bool |-> 16, int |-> 32, double |-> 48, string |-> 64,
           array |-> 257, map |-> 258, tuple |-> 259, rt |-> 2304]
Scalars == {"nil", "bool", "int", "double", "string"}

jsobj(type, value) == [type |-> type, value |-> value, kids |-> <<>>, capacity |-> 0]

EmptyHeap == [objs |-> [r \in {} |-> NULL], wild |-> FALSE]
Live(h) == DOMAIN h.objs
Wild(h) == [h EXCEPT !.wild = TRUE]
IsA(h, r, type) == r \in Live(h) /\ h.objs[r].type = type

-----------------------------------------------------------------------------
(* What an object refers to, through one slot or through any number.        *)
Kids(h, r) == IF r \in Live(h) THEN ToSet(h.objs[r].kids) \ {NULL} ELSE {}
Reach(h, r) ==
  LET Within[n \in Nat] ==
        IF n = 0 THEN {r}
        ELSE LET near == Within[n - 1] IN near \cup UNION {Kids(h, x) : x \in near}
  IN  Within[Cardinality(Live(h))]

SlotsOf(h, r) == {r} \X {i \in DOMAIN h.objs[r].kids : h.objs[r].kids[i] # NULL}
At(h, slot) == h.objs[slot[1]].kids[slot[2]]

(* No object is met twice, or again, by what refers to objects from a set.  *)
MetOnce(h, refs, met) ==
  LET slots == UNION {SlotsOf(h, r) : r \in refs}
  IN  \A p \in slots : At(h, p) \notin met /\ \A q \in slots : At(h, p) = At(h, q) => p = q

(* A tree: all it refers to is live and met once, as cjson_release needs    *)
(* it; an intact one has no null in it either, as all other functions do.   *)
IsTree(h, r, parts) == parts \subseteq Live(h) /\ MetOnce(h, parts, {r})
IsIntact(h, r, parts) ==
  IsTree(h, r, parts) /\ \A x \in parts : NULL \notin ToSet(h.objs[x].kids)
Intact(h, r) == LET parts == Reach(h, r) IN IsIntact(h, r, parts)

(* The owners outside of the heap, and the slots in it, own every object    *)
(* exactly once between them, and nothing is out of the reach of owners.    *)
OwnedBy(h, owners) ==
  Live(h) = UNION {Reach(h, r) : r \in owners} /\ MetOnce(h, Live(h), owners)

-----------------------------------------------------------------------------
(* cjson_memory_allocate: addresses for the numbers in s, behind all that   *)
(* are in use.                                                              *)
Fresh(h, s) ==
  LET top == Max(Live(h) \cup {NULL})
  IN  [x \in s |-> top + Cardinality({y \in s : y <= x})]
Added(h, objs) ==
  [h EXCEPT !.objs = [r \in DOMAIN @ \cup DOMAIN objs |->
                        IF r \in DOMAIN @ THEN @[r] ELSE objs[r]]]
Allocate(h, o) ==
  LET r == Fresh(h, {1})[1]
  IN  [heap |-> Added(h, [x \in {r} |-> o]), ref |-> r]

(* Other slots, or more space for them, in the buffer of an object. *)
WithKids(h, r, kids) == [h EXCEPT !.objs[r].kids = kids]
WithSpace(h, r, capacity) == [h EXCEPT !.objs[r].capacity = capacity]

(* cjson_memory_release *)
Free(h, refs) == [h EXCEPT !.objs = [r \in DOMAIN @ \ refs |-> @[r]]]

-----------------------------------------------------------------------------
(* The value of an object without its addresses, some levels deep. *)
Tree(h, r, levels) ==
  LET Value[n \in Nat, x \in Nat] ==
        IF n = 0 \/ x \notin Live(h) THEN [type |-> "null", value |-> NULL, kids |-> <<>>]
        ELSE LET o == h.objs[x]
             IN  [type |-> o.type, value |-> o.value,
                  kids |-> [i \in DOMAIN o.kids |-> Value[n - 1, o.kids[i]]]]
  IN  Value[levels, r]

(* The difference of two ints, as a two's complement machine gives it. *)
IntDiff(a, b) ==
  LET d == (a - b) % IntRange
  IN  IF 2 * d >= IntRange THEN d - IntRange ELSE d

(* cjson_compare, of objects that may be of two heaps, some levels deep.    *)
(* The first difference of two arrays or tuples counts, or that of their    *)
(* sizes; of a pair only the key (cjson_compare_map).                       *)
CompareScalars(a, b) ==
  IF a.type # b.type THEN jstype[a.type] - jstype[b.type] ELSE IntDiff(a.value, b.value)
Compare(h, a, g, b, levels) ==
  LET Keys(f, pairs) == [i \in DOMAIN pairs |-> f.objs[pairs[i]].kids[1]]
      Difference[n \in Nat, x \in Nat, y \in Nat] ==
        LET o == h.objs[x]
            p == g.objs[y]
            left == IF o.type = "map" THEN Keys(h, o.kids) ELSE o.kids
            right == IF o.type = "map" THEN Keys(g, p.kids) ELSE p.kids
            differ == {i \in DOMAIN left \cap DOMAIN right : Difference[n - 1, left[i], right[i]] # 0}
            first == Min(differ)
        IN  IF n = 0 THEN 0
            ELSE IF o.type # p.type \/ o.type \in Scalars THEN CompareScalars(o, p)
            ELSE IF differ = {} THEN Len(left) - Len(right)
            ELSE Difference[n - 1, left[first], right[first]]
  IN  Difference[levels, a, b]

-----------------------------------------------------------------------------
(* cjson_make_nil, _bool, _int, _double, _string *)
MakeScalar(h, type, value) == Allocate(h, jsobj(type, value))

MakeArray(h) == Allocate(h, [jsobj("array", NULL) EXCEPT !.capacity = Space])
MakeMap(h) == Allocate(h, [jsobj("map", NULL) EXCEPT !.capacity = Space])

(* n more nils behind the slots of a tuple. *)
WithNils(h, tuple, n) ==
  LET nils == Fresh(h, 1 .. n)
  IN  WithKids(Added(h, [r \in ToSet(nils) |-> jsobj("nil", 0)]),
               tuple, h.objs[tuple].kids \o nils)

MakeTuple(h, n) ==
  LET a == Allocate(h, jsobj("tuple", NULL))
  IN  [heap |-> WithNils(a.heap, a.ref, n), ref |-> a.ref]

MakeRuntime(h) ==
  LET made == Fresh(h, {1, 2})
      rt == [jsobj("rt", NULL) EXCEPT !.kids = <<made[2]>>]
      code == [jsobj("array", NULL) EXCEPT !.capacity = Space]
  IN  [heap |-> Added(h, [r \in {made[1], made[2]} |-> IF r = made[1] THEN rt ELSE code]),
       ref |-> made[1]]

(* cjson_make *)
Make(h, type) ==
  CASE type \in Scalars -> MakeScalar(h, type, 0)
    [] type = "array" -> MakeArray(h)
    [] type = "tuple" -> MakeTuple(h, 0)
    [] type = "map" -> MakeMap(h)
    [] type = "rt" -> MakeRuntime(h)

(* cjson_clone of an intact tree: all of it anew, in slots as they were.    *)
CloneTree(h, r, parts) ==
  LET copy == Fresh(h, parts)
      Copied(o) == [o EXCEPT !.kids = [i \in DOMAIN @ |-> copy[@[i]]]]
      Of(c) == CHOOSE x \in parts : copy[x] = c
  IN  [heap |-> Added(h, [c \in {copy[x] : x \in parts} |-> Copied(h.objs[Of(c)])]),
       ref |-> copy[r]]

(* Mutant: the copy of a scalar is the scalar. *)
CloneShared(h, r) ==
  IF r = NULL THEN MakeScalar(h, "nil", 0)
  ELSE IF h.objs[r].type \in Scalars THEN [heap |-> h, ref |-> r]
  ELSE CloneTree(h, r, Reach(h, r))

(* Of nothing the copy is a nil.  That of a null pair is one, too, which    *)
(* the copied map takes for a tuple.                                        *)
Clone(h, r) ==
  LET parts == Reach(h, r)
  IN  IF r = NULL THEN MakeScalar(h, "nil", 0)
      ELSE IF ~IsIntact(h, r, parts) THEN [heap |-> Wild(h), ref |-> NULL]
      ELSE CloneTree(h, r, parts)

(* cjson_release: the object with all of its parts; of nothing, nothing. *)
Release(h, r) ==
  LET parts == Reach(h, r)
  IN  IF r = NULL THEN h
      ELSE IF ~IsTree(h, r, parts) THEN Wild(h)
      ELSE Free(h, parts)

-----------------------------------------------------------------------------
(* Mutant: the array grows one call too late. *)
AddObjectFull(h, array, value, late) ==
  LET o == h.objs[array]
      grown == IF Len(o.kids) > o.capacity THEN o.capacity + Space ELSE o.capacity
      c == Clone(h, value)
  IN  WithKids(WithSpace(c.heap, array, grown), array, Append(o.kids, c.ref))

(* cjson_array_add_object.  Whether the size goes up before or after the    *)
(* value is cloned is left to the compiler: it matters to an array that is  *)
(* added to itself, whose copy has a nil for the slot not filled yet.       *)
AddObject(h, array, value, late) ==
  LET o == h.objs[array]
      grown == IF Len(o.kids) + 1 >= o.capacity THEN o.capacity + Space ELSE o.capacity
      room == WithSpace(h, array, grown)
      nil == MakeScalar(room, "nil", 0)
      seen == IF late THEN room ELSE WithKids(nil.heap, array, Append(o.kids, nil.ref))
      c == Clone(seen, value)
      added == WithKids(c.heap, array, Append(o.kids, c.ref))
  IN  IF late THEN added ELSE Free(added, {nil.ref})

(* A tuple with a slot for the index, counted from 0. *)
WithSlot(h, tuple, index) ==
  LET size == Len(h.objs[tuple].kids)
  IN  IF index >= size THEN WithNils(h, tuple, index + 1 - size) ELSE h

(* Mutant: what was in the slot is not released. *)
SetObjectKeepingOld(h, tuple, index, value) ==
  LET room == WithSlot(h, tuple, index)
      c == Clone(room, value)
  IN  WithKids(c.heap, tuple, [room.objs[tuple].kids EXCEPT ![index + 1] = c.ref])

(* cjson_tuple_set_object: the old part is released after the copy is made. *)
SetObject(h, tuple, index, value) ==
  LET room == WithSlot(h, tuple, index)
      slots == room.objs[tuple].kids
      c == Clone(room, value)
  IN  Release(WithKids(c.heap, tuple, [slots EXCEPT ![index + 1] = c.ref]), slots[index + 1])

(* cjson_tuple_get_object *)
GetObject(h, tuple, index) == h.objs[tuple].kids[index + 1]

(* The search of cjson_map_add_pair, in falling order of the keys, between  *)
(* s and e, which is exclusive: one turn of the loop, and the whole of it.  *)
(* What is found is at hit, or to be inserted at s.  To compare with a      *)
(* null, or with a map that holds one, is wild.                             *)
NoHit == -1
TurnAtStart(h, pairs, key, f) ==    \* mutant: a key found counts as found at s
  LET m == (f.s + f.e) \div 2
      pair == pairs[m + 1]
      r == Compare(h, key, h, GetObject(h, pair, 0), Cardinality(Live(h)))
  IN  IF f.s >= f.e \/ f.hit # NoHit THEN f
      ELSE IF ~Intact(h, key) \/ ~Intact(h, pair) THEN [f EXCEPT !.wild = TRUE]
      ELSE IF r > 0 THEN [f EXCEPT !.e = m - 1]
      ELSE IF r < 0 THEN [f EXCEPT !.s = m + 1]
      ELSE [f EXCEPT !.hit = f.s]

Turn(h, pairs, key, f) ==
  LET m == (f.s + f.e) \div 2
      pair == pairs[m + 1]
      r == Compare(h, key, h, GetObject(h, pair, 0), Cardinality(Live(h)))
  IN  IF f.s >= f.e \/ f.hit # NoHit THEN f
      ELSE IF ~Intact(h, key) \/ ~Intact(h, pair) THEN [f EXCEPT !.wild = TRUE]
      ELSE IF r > 0 THEN [f EXCEPT !.e = m - 1]
      ELSE IF r < 0 THEN [f EXCEPT !.s = m + 1]
      ELSE [f EXCEPT !.hit = m]
Search(h, pairs, key) ==
  LET After[n \in Nat] ==
        IF n = 0 THEN [s |-> 0, e |-> Len(pairs), hit |-> NoHit, wild |-> FALSE]
        ELSE Turn(h, pairs, key, After[n - 1])
  IN  After[Len(pairs)]

(* Key and value of a new pair. *)
Filled(h, pair, key, value) == SetObject(SetObject(h, pair, 0, key), pair, 1, value)

(* A full map moves to more space: of the s pairs before the new one only   *)
(* s - 1 are copied, and a null stays where the last one should be.         *)
MovedBefore(pairs, s) ==
  IF s > 0 THEN Append(SubSeq(pairs, 1, s - 1), NULL) ELSE <<>>

(* cjson_map_add_pair.  The new pair is in its slot before it is filled,    *)
(* with the old size until it is, so that a value the map is part of is     *)
(* copied as the map then looks; a full map is moved after that.  Nothing   *)
(* looks at the slot of a replaced pair from its release to the new pair.   *)
ReplacePair(h, map, i, key, value) ==
  LET pairs == h.objs[map].kids
      t == MakeTuple(Release(WithKids(h, map, [pairs EXCEPT ![i] = NULL]), pairs[i]), 2)
  IN  Filled(WithKids(t.heap, map, [pairs EXCEPT ![i] = t.ref]), t.ref, key, value)

InsertPair(h, map, s, key, value) ==
  LET pairs == h.objs[map].kids
      size == Len(pairs)
      t == MakeTuple(h, 2)
      FilledIn(p) == Filled(WithKids(t.heap, map, p), t.ref, key, value)
      inserted == InsertAt(pairs, s + 1, t.ref)
      moved == MovedBefore(pairs, s) \o SubSeq(inserted, s + 1, size + 1)
  IN  IF size + 1 <= h.objs[map].capacity
      THEN WithKids(FilledIn(SubSeq(inserted, 1, size)), map, inserted)
      ELSE WithKids(WithSpace(FilledIn(pairs), map, h.objs[map].capacity + Space), map, moved)

AddPair(h, map, key, value) ==
  LET f == Search(h, h.objs[map].kids, key)
  IN  IF f.wild THEN Wild(h)
      ELSE IF f.hit # NoHit THEN ReplacePair(h, map, f.hit + 1, key, value)
      ELSE InsertPair(h, map, f.s, key, value)

(* The pairs of a map that are nowhere in a later heap, because it moved. *)
LeftBehind(h, g, map) ==
  IF g.wild \/ g.objs[map].capacity = h.objs[map].capacity THEN {}
  ELSE Kids(h, map) \ Kids(g, map)

(* cjson_map_add_tuple *)
AddTuple(h, map, pair) == AddPair(h, map, GetObject(h, pair, 0), GetObject(h, pair, 1))

(* cjson_runtime_add_code_segment *)
AddCodeSegment(h, rt, segment, late) == AddObject(h, h.objs[rt].kids[1], segment, late)

=============================================================================
