-------------------------------- MODULE Cjson --------------------------------
(***************************************************************************)
(* A client of c/json/cjson.c that holds some objects and calls the public *)
(* functions of cjson.h on them: on what it made itself, and on what       *)
(* cjson_tuple_get_object hands out from the inside of a tuple.            *)
(***************************************************************************)
EXTENDS CjsonHeap

CONSTANTS
  Slots,        \* the pointers the client may hold
  Clients,      \* what it makes, types, and the bound on live objects, most
  Values,       \* the values of its ints and strings
  MaxIndex,     \* bound: the last index of a tuple it sets
  MaxDepth      \* bound: the most levels of objects in objects

ASSUME ClientsAssumption ==
  MaxIndex \in Nat /\ \A c \in Clients : c.types \subseteq DOMAIN jstype

VARIABLES
  heap,
  client,       \* which of the Clients this is
  root,         \* what each pointer of the client refers to
  lost          \* history: pairs a growing map left behind

vars == <<heap, client, root, lost>>

Init ==
  /\ heap = EmptyHeap
  /\ root = [s \in Slots |-> NULL]
  /\ client \in Clients
  /\ lost = {}

Roots == {root[s] : s \in Slots} \ {NULL}
Inside(r) == IF heap.objs[r].type = "tuple" THEN ToSet(heap.objs[r].kids) ELSE {}
Handles == Roots \cup UNION {Inside(r) : r \in Roots}
HandlesTo(type) == {r \in Handles : heap.objs[r].type = type}

(* The new heap, within the bounds; nothing is said of what a wild one holds. *)
TooDeep(h) ==
  LET Level[n \in Nat] ==
        IF n = 0 THEN Live(h) ELSE UNION {Kids(h, r) : r \in Level[n - 1]}
  IN  Level[MaxDepth] # {}
Become(h) ==
  /\ ~heap.wild
  /\ Cardinality(Live(h)) <= client.most
  /\ h.wild \/ ~TooDeep(h)
  /\ heap' = IF h.wild THEN Wild(heap) ELSE h
Hold(s, made) ==
  /\ Become(made.heap)
  /\ root' = IF made.heap.wild THEN root ELSE [root EXCEPT ![s] = made.ref]
  /\ UNCHANGED <<client, lost>>
Change(h) == Become(h) /\ UNCHANGED <<client, root, lost>>

-----------------------------------------------------------------------------
Create(s, type) == root[s] = NULL /\ Hold(s, Make(heap, type))

CreateValue(s, type, v) == root[s] = NULL /\ Hold(s, MakeScalar(heap, type, v))

Copy(s, r) == root[s] = NULL /\ Hold(s, Clone(heap, r))

Drop(s) ==
  /\ root[s] # NULL
  /\ Become(Release(heap, root[s]))
  /\ root' = [root EXCEPT ![s] = NULL]
  /\ UNCHANGED <<client, lost>>

ArrayAdd(a, v, late) == Change(AddObject(heap, a, v, late))

TupleSet(t, i, v) == Change(SetObject(heap, t, i, v))

RuntimeAdd(r, v, late) == Change(AddCodeSegment(heap, r, v, late))

MapPut(m, h) ==
  /\ Become(h)
  /\ lost' = lost \cup LeftBehind(heap, h, m)
  /\ UNCHANGED <<client, root>>

MapAddPair(m, k, v) == MapPut(m, AddPair(heap, m, k, v))

MapAddTuple(m, t) ==
  /\ Len(heap.objs[t].kids) = 2
  /\ MapPut(m, AddTuple(heap, m, t))

Next ==
  \/ \E s \in Slots :
       \/ \E type \in client.types : Create(s, type)
       \/ \E type \in client.types \cap {"int", "string"}, v \in Values : CreateValue(s, type, v)
       \/ \E r \in Handles : Copy(s, r)
       \/ Drop(s)
  \/ \E v \in Handles :
       \/ \E late \in BOOLEAN :
            \/ \E a \in HandlesTo("array") : ArrayAdd(a, v, late)
            \/ \E r \in HandlesTo("rt") : RuntimeAdd(r, v, late)
       \/ \E t \in HandlesTo("tuple"), i \in 0 .. MaxIndex : TupleSet(t, i, v)
       \/ \E m \in HandlesTo("map"), k \in Handles : MapAddPair(m, k, v)
  \/ \E m \in HandlesTo("map"), t \in HandlesTo("tuple") : MapAddTuple(m, t)

Spec == Init /\ [][Next]_vars

-----------------------------------------------------------------------------
(* The shape of every object: only arrays, tuples, maps and runtimes have   *)
(* parts, arrays and maps never more than they have space for, pairs are    *)
(* tuples of two; the client's pointers refer to live objects.              *)
WellFormed(o) ==
  /\ o.type \in Scalars => o.kids = <<>>
  /\ o.type \in {"array", "map"} => Len(o.kids) <= o.capacity
  /\ o.type = "rt" => Len(o.kids) = 1 /\ IsA(heap, o.kids[1], "array")
  /\ o.type = "map" => \A k \in ToSet(o.kids) \ {NULL} :
                         IsA(heap, k, "tuple") /\ Len(heap.objs[k].kids) = 2
TypeOK ==
  /\ heap.wild \in BOOLEAN
  /\ \A r \in Live(heap) : heap.objs[r].type \in DOMAIN jstype /\ WellFormed(heap.objs[r])
  /\ Roots \subseteq Live(heap)

(* Ownership (cjson_release frees what cjson_clone, cjson_tuple_set_object, *)
(* cjson_array_add_object and cjson_map_add_pair copied in): every live     *)
(* object has exactly one owner, a pointer of the client or one slot of one *)
(* object, and every slot refers to a live object.  The only exception is a *)
(* pair that a growing map left behind, and the null left in its place: no  *)
(* use of a null, freed or mistyped object comes from anything else.        *)
OneOwner ==
  IF heap.wild THEN lost # {}
  ELSE /\ OwnedBy(heap, Roots \cup lost)
       /\ Roots \cap lost = {}
       /\ \A s, t \in Slots : root[s] = root[t] /\ root[s] # NULL => s = t
       /\ \A r \in Live(heap) :
            NULL \in ToSet(heap.objs[r].kids) => heap.objs[r].type = "map" /\ lost # {}

(* The copies are deep: one call changes what is in the reach of at most    *)
(* one of the client's pointers, whatever was copied from where before.     *)
Owned(h, r) == [x \in Live(h) \cap Reach(h, r) |-> h.objs[x]]
Changed(s) ==
  \/ root'[s] # root[s]
  \/ root[s] # NULL /\ Owned(heap', root[s]) # Owned(heap, root[s])
Independent == [][Cardinality({s \in Slots : Changed(s)}) <= 1]_vars

(* An addition to a map changes the entries of one key and keeps those of   *)
(* all others, in the words of cjson_compare (the map that moves aside).    *)
Stands(h, r) == Tree(h, r, MaxDepth)
Entries(h, m) == ToSet(h.objs[m].kids)
Others(h, m, g, key) ==
  {Stands(h, e) : e \in {p \in Entries(h, m) :
                          Compare(h, GetObject(h, p, 0), g, key, MaxDepth) # 0}}
OneKeyChanges ==
  [][\A m \in HandlesTo("map") :
       (/\ m \in Roots
        /\ \E s \in Slots : root'[s] = m
        /\ ~heap'.wild
        /\ NULL \notin Entries(heap, m) \cup Entries(heap', m)
        /\ Stands(heap', m) # Stands(heap, m))
       => \E e \in Entries(heap', m) :
            LET key == GetObject(heap', e, 0)
            IN  Others(heap', m, heap', key) = Others(heap, m, heap', key)]_vars

-----------------------------------------------------------------------------
(* For TLC: heaps that differ in their addresses only are the same, and so  *)
(* are the client's pointers.                                               *)
Shape(r) ==
  LET Of[n \in Nat, x \in Nat] ==
        IF n = 0 \/ x \notin Live(heap) THEN NULL
        ELSE LET o == heap.objs[x]
             IN  [o EXCEPT !.kids = [i \in DOMAIN o.kids |-> <<Of[n - 1, o.kids[i]]>>]]
  IN  Of[MaxDepth, r]
UpToAddresses ==
  <<client, [s \in Slots |-> <<Shape(root[s])>>], {Shape(r) : r \in lost},
    Cardinality(Live(heap)), heap.wild>>
AnyPointer == Permutations(Slots)

-----------------------------------------------------------------------------
(* A client that fills two maps with new pairs, to compare them. *)
PairOfNew(m, k) ==
  LET key == MakeScalar(heap, "int", k)
  IN  Release(AddPair(key.heap, m, key.ref, key.ref), key.ref)
TwoMaps ==
  LET a == MakeMap(EmptyHeap)
      b == MakeMap(a.heap)
  IN  /\ heap = b.heap
      /\ root \in {f \in [Slots -> {a.ref, b.ref}] : IsInjective(f)}
      /\ client \in Clients
      /\ lost = {}
FillNext ==
  \E s \in Slots, k \in Values :
    Change(PairOfNew(root[s], k))
FillSpec == TwoMaps /\ [][FillNext]_vars

(* "if two map have the same keys in all pairs, they are the same."         *)
(* (cjson.h, at cjson_compare_map)                                          *)
KeysOf(m) == {heap.objs[GetObject(heap, e, 0)].value : e \in Entries(heap, m)}
SameKeysSameMap ==
  \A m, n \in Roots :
    KeysOf(m) = KeysOf(n) => Compare(heap, m, heap, n, MaxDepth) = 0

=============================================================================
