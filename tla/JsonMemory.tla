----------------------------- MODULE JsonMemory -----------------------------
(***************************************************************************)
(* ArduinoJson's memory: the pools that variants and extensions get their  *)
(* slots from, the list of freed slots, and the pool of shared strings.    *)
(* A heap is a record, an operation a function of it; the allocator        *)
(* refuses the requests of a call whose numbers are in "bad".              *)
(***************************************************************************)
EXTENDS Integers, Sequences, FiniteSets

CONSTANTS
  NullSlot,        \* NULL_SLOT, the largest slot id
  PoolCapacity,    \* ARDUINOJSON_POOL_CAPACITY
  InitialPools,    \* ARDUINOJSON_INITIAL_POOL_COUNT
  Texts,           \* the strings that are stored in the string pool
  TinyTexts,       \* those short enough to be stored in the variant
  NoText           \* none of them

MaxPools == NullSlot \div PoolCapacity + 1

ASSUME PoolAssumption ==
  /\ {NullSlot, PoolCapacity, InitialPools} \subseteq Nat \ {0}
  /\ NullSlot % PoolCapacity = PoolCapacity - 1
  /\ \E n \in 0..MaxPools : MaxPools = InitialPools * 2^n
ASSUME TextAssumption == Texts \cap TinyTexts = {} /\ NoText \notin Texts \cup TinyTexts

\* A document's root is not in a pool.
Root == NullSlot + 1
Slots == 0..(NullSlot - 1)
Links == 0..NullSlot
Ids == Slots \cup {Root}

\* A slot's content: a variant, an extension, or nothing.  "head" is the first
\* slot of a collection, or the extension of a wide number.
Collections == {"Array", "Object"}
VariantTypes == Collections \cup {"Null", "Inline", "TinyString", "OwnedString", "RawString", "Wide"}
Cells == [type : VariantTypes \cup {"Extension", "Vacant"}, head : Links, tail : Links,
          text : Texts \cup TinyTexts \cup {NoText}, next : Links]
NullVariant == [type |-> "Null", head |-> NullSlot, tail |-> NullSlot,
                text |-> NoText, next |-> NullSlot]
Extension == [NullVariant EXCEPT !.type = "Extension"]
Vacant == [NullVariant EXCEPT !.type = "Vacant"]

EmptyHeap ==
  [pools |-> <<>>,                 \* pools_: size and usage of each
   capacity |-> InitialPools,      \* capacity_
   preallocated |-> TRUE,          \* pools_ = preallocatedPools_
   free |-> <<>>,                  \* freeList_
   cell |-> [id \in Ids |-> IF id = Root THEN NullVariant ELSE Vacant],
   refs |-> [t \in Texts |-> 0],   \* the references of a string; 0: not there
   overflowed |-> FALSE,
   lost |-> {},                    \* slots given out that nothing refers to
   bad |-> {}, tries |-> 0]        \* the allocator in this call

Malloc(h) == [h EXCEPT !.tries = @ + 1]
Granted(h) == h.tries \notin h.bad

-----------------------------------------------------------------------------
(***************************************************************************)
(* Slots.  An operation that may fail returns the heap and the slot's id,  *)
(* or NullSlot.                                                            *)
(***************************************************************************)
LastPool(h) == h.pools[Len(h.pools)]

HasRoom(h) == h.pools # <<>> /\ LastPool(h).used < LastPool(h).size

\* SlotId wraps.
allocFromLastPool(h) ==
  [heap |-> [h EXCEPT !.pools[Len(h.pools)].used = @ + 1],
   id |-> ((Len(h.pools) - 1) * PoolCapacity + LastPool(h).used) % (NullSlot + 1)]

increaseCapacity(h) ==
  IF h.capacity = MaxPools THEN h
  ELSE IF Granted(Malloc(h)) THEN [Malloc(h) EXCEPT !.capacity = 2 * @, !.preallocated = FALSE]
  ELSE Malloc(h)

\* A pool whose memory was refused is counted all the same; it has size 0.
CreatePool(h) ==
  LET size == IF Len(h.pools) + 1 = MaxPools THEN PoolCapacity - 1 ELSE PoolCapacity
  IN [Malloc(h) EXCEPT !.pools =
        Append(@, [size |-> IF Granted(Malloc(h)) THEN size ELSE 0, used |-> 0])]

\* Variant: the pool is added to a list that is full.
PoolAdded_Full(h) == CreatePool(h)

PoolAdded(h) == IF Len(h.pools) = h.capacity THEN h ELSE CreatePool(h)
addPool(h) == PoolAdded(IF Len(h.pools) = h.capacity THEN increaseCapacity(h) ELSE h)

FromPool(h) == IF HasRoom(h) THEN allocFromLastPool(h) ELSE [heap |-> h, id |-> NullSlot]

\* Variant: the slot stays in the list.
allocSlot_StaysFree(h) ==
  IF h.free # <<>> THEN [heap |-> h, id |-> h.free[1]]
  ELSE FromPool(IF HasRoom(h) THEN h ELSE addPool(h))

allocSlot(h) ==
  IF h.free # <<>> THEN [heap |-> [h EXCEPT !.free = Tail(@)], id |-> h.free[1]]
  ELSE FromPool(IF HasRoom(h) THEN h ELSE addPool(h))

\* What comes of an allocation r: nothing more when it has failed.
IfGiven(r, use(_, _)) == IF r.id = NullSlot THEN r ELSE use(r.heap, r.id)

Filled(r, content) ==
  IF r.id = NullSlot THEN [r EXCEPT !.heap.overflowed = TRUE]
  ELSE [r EXCEPT !.heap.cell[r.id] = content]
allocVariant(h) == Filled(allocSlot(h), NullVariant)
allocExtension(h) == Filled(allocSlot(h), Extension)

freeSlot(h, id) == [h EXCEPT !.free = <<id>> \o @, !.cell[id] = Vacant]

\* The last pool's memory is cut to what is used, unless the allocator refuses.
shrinkToFit(h) ==
  LET g == Malloc(h)
      cut == IF Granted(g) THEN [g EXCEPT !.pools[Len(h.pools)].size = LastPool(h).used] ELSE g
  IN IF h.pools = <<>> THEN h
     ELSE IF h.preallocated THEN cut
     ELSE [cut EXCEPT !.capacity = Len(h.pools)]

-----------------------------------------------------------------------------
(***************************************************************************)
(* Strings: one node for equal strings, with a count of its references.    *)
(***************************************************************************)
saveString(h, text) ==
  LET g == Malloc(h)
  IN IF h.refs[text] > 0 THEN [heap |-> [h EXCEPT !.refs[text] = @ + 1], ok |-> TRUE]
     ELSE IF Granted(g) THEN [heap |-> [g EXCEPT !.refs[text] = 1], ok |-> TRUE]
     ELSE [heap |-> [g EXCEPT !.overflowed = TRUE], ok |-> FALSE]

\* StringBuilder and StringBuffer bring a node of their own, and cutting it to
\* its length is assumed not to fail.
commitString(h, text) == [h EXCEPT !.refs[text] = @ + 1]

\* ResourceManager::clear() with the root's reset().
clearAll(h) == [EmptyHeap EXCEPT !.bad = h.bad, !.tries = h.tries]

-----------------------------------------------------------------------------
Pools == [size : 0..PoolCapacity, used : 0..PoolCapacity]
Heaps ==
  [pools : Seq(Pools), capacity : Nat, preallocated : BOOLEAN, free : Seq(Slots),
   cell : [Ids -> Cells], refs : [Texts -> Int], overflowed : BOOLEAN,
   lost : SUBSET Slots, bad : SUBSET Nat, tries : Nat]

HeapTypeOK(h) ==
  /\ h \in Heaps
  /\ \A n \in DOMAIN h.pools : h.pools[n].used <= h.pools[n].size
  /\ Len(h.pools) <= h.capacity
  /\ \A t \in Texts : h.refs[t] >= 0

\* The ids of the slots that the pools have given out since they were cleared.
Given(h) == {id \in Slots : \E n \in DOMAIN h.pools :
               id \in ((n - 1) * PoolCapacity)..((n - 1) * PoolCapacity + h.pools[n].used - 1)}
=============================================================================
