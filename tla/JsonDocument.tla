---------------------------- MODULE JsonDocument ----------------------------
(***************************************************************************)
(* A JsonDocument and the calls on it, made through the document or a      *)
(* reference to one of its variants.  The allocator refuses any of the     *)
(* requests of a call.                                                     *)
(***************************************************************************)
EXTENDS JsonTree

CONSTANTS
  Values,          \* the values that are set and added: trees
  MaxIndex,        \* bound: the largest index used
  MaxRefused,      \* bound: refusals among the first requests of a call
  MaxWork          \* bound: work since the document was empty; a call is
                   \* 2, a reading 3

VARIABLES
  heap,            \* resources_ and data_
  work,            \* what has been done so far
  reader           \* the deserializer (JsonReader); no call is made meanwhile

ASSUME ValueAssumption == Values \subseteq Trees

docVars == <<heap, work, reader>>

NoReader == [at |-> "idle"]
DocInit == heap = EmptyHeap /\ work = 0 /\ reader = NoReader

\* What the allocator will refuse in a call, and the heap that the call leaves.
Refusals == SUBSET (1..MaxRefused)
RefusalOfFirst == {{}, {1}}
Refusing(bad) == [heap EXCEPT !.bad = bad]
Leaves(h) == heap' = [h EXCEPT !.bad = {}, !.tries = 0]

\* All pools have numbers for which SlotId is wide enough; the model follows
\* the document only while they have.
PoolsNumbered == Len(heap.pools) <= MaxPools

\* A call begins.
Counts(n) == reader.at = "idle" /\ PoolsNumbered /\ work + n <= MaxWork /\ work' = work + n
CallStarts == Counts(2) /\ UNCHANGED reader

\* The variants a program has references to: keys are not among them.
KeySlots(h) ==
  UNION {LET s == Children(h, c) IN {s[i] : i \in {j \in DOMAIN s : j % 2 = 1}} :
           c \in {v \in Variants(h) : h.cell[v].type = "Object"}}
References ==
  IF reader.at = "idle" THEN Variants(heap) \ KeySlots(heap) ELSE {}
IsNull(h, v) == h.cell[v].type = "Null"

-----------------------------------------------------------------------------
\* JsonDocument::clear(): all references are gone.
ClearDocument ==
  reader.at = "idle" /\ heap' = EmptyHeap /\ work' = 0 /\ UNCHANGED reader

\* JsonDocument::set(), to<T>(): the document is cleared first.
SetDocument(bad, value) ==
  CallStarts /\ Leaves(Copy(clearAll(Refusing(bad)), Root, value))

ClearVariant(v) == CallStarts /\ Leaves(Clear(heap, v))
ToArray(v) == CallStarts /\ Leaves(toArray(heap, v))
ToObject(v) == CallStarts /\ Leaves(toObject(heap, v))
SetVariant(bad, v, value) == CallStarts /\ Leaves(Copy(Refusing(bad), v, value))

\* An operation of arrays (objects) makes one of a null; others it refuses.
AsCollection(h, v, type) == IF IsNull(h, v) THEN Typed(h, v, type) ELSE h

\* add(value), and add<JsonVariant>() followed by nothing.
AddValue(bad, v, value) ==
  /\ CallStarts
  /\ LET h == AsCollection(Refusing(bad), v, "Array")
     IN Leaves(IF h.cell[v].type = "Array" THEN addValue(h, v, value).heap ELSE h)

AddElement(bad, v) ==
  /\ CallStarts
  /\ LET h == AsCollection(Refusing(bad), v, "Array")
     IN Leaves(IF h.cell[v].type = "Array" THEN addElement(h, v).heap ELSE h)

\* ref[index] = value and ref[key] = value: the proxies' getOrCreateData(),
\* then set().
SetFound(r, value) == Leaves(IF r.id = NullSlot THEN r.heap ELSE Copy(r.heap, r.id, value))

SetElement(bad, v, index, value) ==
  /\ CallStarts
  /\ LET h == AsCollection(Refusing(bad), v, "Array")
     IN SetFound(IF h.cell[v].type = "Array" THEN getOrAddElement(h, v, index)
                 ELSE [heap |-> h, id |-> NullSlot], value)

SetMember(bad, v, key, value) ==
  /\ CallStarts
  /\ LET h == AsCollection(Refusing(bad), v, "Object")
     IN SetFound(IF h.cell[v].type = "Object" THEN getOrAddMember(h, v, key)
                 ELSE [heap |-> h, id |-> NullSlot], value)

RemoveElement(v, index) ==
  /\ CallStarts
  /\ heap.cell[v].type = "Array" /\ index < Len(Elements(heap, v))
  /\ Leaves(removeOne(heap, v, Elements(heap, v)[index + 1]))

RemoveMember(v, key) ==
  /\ CallStarts
  /\ heap.cell[v].type = "Object" /\ findKey(heap, v, key) # NullSlot
  /\ Leaves(removePair(heap, v, findKey(heap, v, key)))

ShrinkToFit(bad) == CallStarts /\ Leaves(shrinkToFit(Refusing(bad)))

DocNext ==
  \/ ClearDocument
  \/ \E bad \in RefusalOfFirst : ShrinkToFit(bad)
  \/ \E bad \in Refusals, value \in Values : SetDocument(bad, value)
  \/ \E v \in References :
       \/ ClearVariant(v) \/ ToArray(v) \/ ToObject(v)
       \/ \E index \in 0..MaxIndex : RemoveElement(v, index)
       \/ \E key \in Texts \cup TinyTexts : RemoveMember(v, key)
       \/ \E bad \in Refusals :
            \/ AddElement(bad, v)
            \/ \E value \in Values :
                 \/ SetVariant(bad, v, value) \/ AddValue(bad, v, value)
                 \/ \E index \in 0..MaxIndex : SetElement(bad, v, index, value)
                 \/ \E key \in Texts \cup TinyTexts : SetMember(bad, v, key, value)

-----------------------------------------------------------------------------
\* Pools hold what they have room for, in ids that exist (MemoryPool.hpp).
TypeOK == HeapTypeOK(heap)

\* No slot is used twice and none forgotten: every slot that the pools have
\* given out is in the document once, or in the list of free slots once, or
\* lost for want of memory; after any calls, refusals and failed readings
\* (CollectionImpl.hpp, MemoryPoolList.hpp).  A chain ends at its tail.
SlotsOnce ==
  PoolsNumbered =>
    LET used == Under(heap, Root) \o heap.free
    IN /\ IsInjective(used)
       /\ ToSet(used) \cap heap.lost = {}
       /\ ToSet(used) \cup heap.lost = Given(heap)
       /\ heap.lost # {} => heap.overflowed
       /\ \A c \in Variants(heap) : heap.cell[c].type \in Collections =>
            heap.cell[c].tail = IF Children(heap, c) = <<>> THEN NullSlot
                                ELSE Children(heap, c)[Len(Children(heap, c))]

\* A shared string counts the variants that refer to it, so that it is freed
\* with the last of them and not before (StringPool.hpp:81).
StringsCounted ==
  PoolsNumbered => \A t \in Texts : heap.refs[t] = Cardinality(Holders(heap, Variants(heap), t))
=============================================================================
