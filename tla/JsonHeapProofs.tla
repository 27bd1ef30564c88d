--------------------------- MODULE JsonHeapProofs ---------------------------
(***************************************************************************)
(* What the operations of a JSON document do to its memory: the heap of slots*)
(* and strings, the chains that clear() and the iterators walk along, and the*)
(* tree that the links between the slots make.                             *)
(***************************************************************************)
EXTENDS JsonReader, DataLemmas, FiniteSetTheorems

\* The variants that hold a string of the pool.
Strings(h, t) == Holders(h, Ids, t)

\* A heap in order: pools hold what they have room for, the last of them one slot
\* less, a string has at least the references that variants hold, and slots are
\* lost only when memory was refused.
Counted(h) ==
  /\ \A n \in DOMAIN h.pools : /\ h.pools[n].used <= h.pools[n].size
                               /\ n = MaxPools => h.pools[n].size < PoolCapacity
  /\ Len(h.pools) <= h.capacity
  /\ \A t \in Texts : h.refs[t] >= Cardinality(Strings(h, t))
  /\ h.lost # {} => h.overflowed
HeapOK(h) == h \in Heaps /\ Counted(h)

\* What every operation does to a heap, and what several do after each other.
Grows(h, k) == k \in Heaps /\ Len(h.pools) <= Len(k.pools) /\ (Counted(h) => Counted(k))

-----------------------------------------------------------------------------
(***************************************************************************)
(* A heap in order, and what each operation keeps of it.                   *)
(***************************************************************************)

\* What PoolAssumption says about the numbers of slots.
LEMMA Constants ==
  /\ NullSlot \in Nat /\ NullSlot > 0 /\ PoolCapacity \in Nat /\ PoolCapacity > 0
  /\ InitialPools \in Nat /\ NullSlot \notin Slots /\ Root \notin Slots
  /\ Root # NullSlot /\ Slots \subseteq Links /\ NullSlot \in Links /\ Root \notin Links
  /\ Links = Slots \cup {NullSlot} /\ Ids = Slots \cup {Root}
  /\ \A n \in Nat : n < NullSlot <=> n \in Slots
BY PoolAssumption DEF Slots, Links, Root, Ids

\* The contents that a slot starts with.
LEMMA CellTypes ==
  /\ NullVariant \in Cells /\ Extension \in Cells /\ Vacant \in Cells
  /\ NullVariant.type = "Null" /\ NullVariant.head = NullSlot /\ NullVariant.tail = NullSlot
  /\ NullVariant.next = NullSlot /\ Vacant.type = "Vacant" /\ Extension.type = "Extension"
  /\ Extension.head = NullSlot /\ Extension.tail = NullSlot /\ Extension.next = NullSlot
BY Constants DEF NullVariant, Extension, Vacant, Cells, VariantTypes

\* The types of a heap's parts.
LEMMA HeapParts ==
  ASSUME NEW h \in Heaps
  PROVE  /\ h.pools \in Seq(Pools) /\ h.capacity \in Nat /\ h.preallocated \in BOOLEAN
         /\ h.free \in Seq(Slots) /\ h.cell \in [Ids -> Cells] /\ h.refs \in [Texts -> Int]
         /\ h.overflowed \in BOOLEAN /\ h.lost \in SUBSET Slots /\ h.bad \in SUBSET Nat
         /\ h.tries \in Nat
BY DEF Heaps

\* The types of what a cell holds.
LEMMA CellParts ==
  ASSUME NEW h \in Heaps, NEW v \in Ids
  PROVE  /\ h.cell[v] \in Cells /\ h.cell[v].head \in Links /\ h.cell[v].tail \in Links
         /\ h.cell[v].next \in Links /\ Below(h, v) \in Links
         /\ h.cell[v].type \in VariantTypes \cup {"Extension", "Vacant"}
         /\ h.cell[v].text \in Texts \cup TinyTexts \cup {NoText}
BY Constants DEF Heaps, Cells, Below

\* A string has finitely many holders.
LEMMA HoldersFinite ==
  ASSUME NEW h, NEW t
  PROVE  IsFiniteSet(Ids) /\ IsFiniteSet(Strings(h, t)) /\ Cardinality(Strings(h, t)) \in Nat
<1>1. IsFiniteSet(0..(NullSlot - 1))
  BY Constants, FS_Interval
<1>2. IsFiniteSet(Ids)
  BY <1>1, FS_AddElement DEF Ids, Slots
<1>3. Strings(h, t) \subseteq Ids
  BY DEF Strings, Holders
<1> QED BY <1>2, <1>3, FS_Subset, FS_CardinalityType

\* A cell that is overwritten with something that is no string takes a string
\* away, if anything.
LEMMA FewerStrings ==
  ASSUME NEW h, NEW k, NEW t,
         \A x \in Ids : k.cell[x] = h.cell[x] \/ k.cell[x].type \notin InPool
  PROVE  /\ Strings(k, t) \subseteq Strings(h, t)
         /\ Cardinality(Strings(k, t)) <= Cardinality(Strings(h, t))
<1>1. Strings(k, t) \subseteq Strings(h, t)
  BY DEF Strings, Holders
<1> QED BY <1>1, HoldersFinite, FS_Subset

\* The holders of a string depend on the cells only.
LEMMA SameStrings ==
  ASSUME NEW h, NEW k, NEW t, k.cell = h.cell
  PROVE  Strings(k, t) = Strings(h, t)
BY DEF Strings, Holders

\* One operation after the other.
LEMMA GrowsOn ==
  ASSUME NEW h \in Heaps, NEW k, NEW m, Grows(h, k), Grows(k, m)
  PROVE  Grows(h, m)
<1>1. h.pools \in Seq(Pools) /\ k.pools \in Seq(Pools) /\ m.pools \in Seq(Pools)
  BY HeapParts DEF Grows
<1>2. Len(h.pools) \in Nat /\ Len(k.pools) \in Nat /\ Len(m.pools) \in Nat
  BY <1>1
<1> QED BY <1>2 DEF Grows

\* Nothing is done.
LEMMA GrowsNot == ASSUME NEW h \in Heaps PROVE Grows(h, h)
<1>1. Len(h.pools) \in Nat
  BY HeapParts
<1> QED BY <1>1 DEF Grows

\* What keeps the pools, the cells and the references keeps a heap in order.
LEMMA SameHeap ==
  ASSUME NEW h \in Heaps, NEW k \in Heaps,
         k.pools = h.pools, k.capacity = h.capacity, k.refs = h.refs, k.cell = h.cell,
         k.lost = h.lost, h.overflowed => k.overflowed
  PROVE  Grows(h, k)
<1>1. Len(h.pools) \in Nat
  BY HeapParts
<1> QED BY <1>1, SameStrings DEF Counted, Grows

\* A request for memory changes nothing but the number of requests.
LEMMA MallocOK ==
  ASSUME NEW h \in Heaps
  PROVE  /\ Malloc(h) \in Heaps /\ Grows(h, Malloc(h))
         /\ Malloc(h).pools = h.pools /\ Malloc(h).free = h.free
         /\ Malloc(h).cell = h.cell /\ Malloc(h).refs = h.refs /\ Malloc(h).lost = h.lost
         /\ Malloc(h).capacity = h.capacity /\ Malloc(h).preallocated = h.preallocated
         /\ Malloc(h).overflowed = h.overflowed
<1>1. Malloc(h) \in Heaps
  BY DEF Heaps, Malloc
<1>2. /\ Malloc(h).pools = h.pools /\ Malloc(h).free = h.free
      /\ Malloc(h).cell = h.cell /\ Malloc(h).refs = h.refs /\ Malloc(h).lost = h.lost
      /\ Malloc(h).capacity = h.capacity /\ Malloc(h).preallocated = h.preallocated
      /\ Malloc(h).overflowed = h.overflowed
  BY DEF Heaps, Malloc
<1> QED BY <1>1, <1>2, SameHeap

-----------------------------------------------------------------------------
(***************************************************************************)
(* Pools and slots: what an allocation does.                               *)
(***************************************************************************)

\* The heap with other pools.
LEMMA OtherPools ==
  ASSUME NEW h \in Heaps, NEW k \in Heaps, NEW p \in Seq(Pools),
         k.pools = p, Len(h.pools) <= Len(p), k.refs = h.refs, k.cell = h.cell,
         k.lost = h.lost, h.overflowed => k.overflowed,
         Counted(h) =>
           /\ Len(p) <= k.capacity
           /\ \A n \in DOMAIN p : p[n].used <= p[n].size /\ (n = MaxPools => p[n].size < PoolCapacity)
  PROVE  Grows(h, k)
BY SameStrings DEF Counted, Grows

\* All but the pools.
SameBut(h, k) ==
  /\ k.free = h.free /\ k.cell = h.cell /\ k.refs = h.refs /\ k.lost = h.lost
  /\ h.overflowed => k.overflowed

\* A pool is added, and it is empty.
LEMMA CreatePoolOK ==
  ASSUME NEW h \in Heaps, Len(h.pools) # h.capacity
  PROVE  LET k == CreatePool(h)
         IN /\ Grows(h, k) /\ SameBut(h, k) /\ Len(k.pools) = Len(h.pools) + 1
            /\ \A n \in DOMAIN h.pools : k.pools[n] = h.pools[n]
            /\ k.pools[Len(h.pools) + 1].used = 0
<1> DEFINE size == IF Len(h.pools) + 1 = MaxPools THEN PoolCapacity - 1 ELSE PoolCapacity
           pool == [size |-> IF Granted(Malloc(h)) THEN size ELSE 0, used |-> 0]
           p == Append(h.pools, pool)
           k == CreatePool(h)
           m == Malloc(h)
<1>1. /\ m \in Heaps /\ m.pools = h.pools /\ SameBut(h, m) /\ m.capacity = h.capacity
  BY MallocOK DEF SameBut
<1>2. pool \in Pools /\ pool.used <= pool.size /\ pool.used = 0
      /\ (Len(h.pools) + 1 = MaxPools => pool.size < PoolCapacity)
  BY Constants DEF Pools
<1>3. h.pools \in Seq(Pools) /\ Len(h.pools) \in Nat /\ h.capacity \in Nat
  BY HeapParts
<1>4. /\ p \in Seq(Pools) /\ Len(p) = Len(h.pools) + 1 /\ p[Len(h.pools) + 1] = pool
      /\ \A n \in DOMAIN h.pools : p[n] = h.pools[n]
      /\ DOMAIN p = 1..(Len(h.pools) + 1) /\ DOMAIN h.pools = 1..Len(h.pools)
  <2> HIDE DEF pool
  <2> QED BY <1>2, <1>3
<1>5. k = [m EXCEPT !.pools = p]
  BY <1>1 DEF CreatePool
<1>6. k \in Heaps /\ k.pools = p /\ SameBut(m, k) /\ k.capacity = m.capacity
  <2> HIDE DEF p, m
  <2> QED BY <1>1, <1>4, <1>5 DEF Heaps, SameBut
<1>7. ASSUME Counted(h), NEW n \in DOMAIN p
      PROVE  p[n].used <= p[n].size /\ (n = MaxPools => p[n].size < PoolCapacity)
  <2>1. CASE n = Len(h.pools) + 1
    <3> HIDE DEF pool, p
    <3> QED BY <1>2, <1>4, <2>1
  <2>2. CASE n # Len(h.pools) + 1
    <3>1. n \in DOMAIN h.pools
      <4> HIDE DEF p, pool
      <4> QED BY <1>3, <1>4, <1>7, <2>2
    <3> HIDE DEF p, pool
    <3> QED BY <1>4, <1>7, <3>1 DEF Counted
  <2> QED BY <2>1, <2>2
<1>8. Counted(h) => Len(p) <= k.capacity
  <2> HIDE DEF p, k, m
  <2> QED BY <1>1, <1>3, <1>4, <1>6 DEF Counted
<1>9. Grows(h, k)
  <2> HIDE DEF p, k, m
  <2>1. Len(h.pools) <= Len(p) BY <1>3, <1>4
  <2>2. /\ k.refs = h.refs /\ k.cell = h.cell /\ k.lost = h.lost
        /\ h.overflowed => k.overflowed
    BY <1>1, <1>6 DEF SameBut
  <2> QED BY <1>4, <1>6, <1>7, <1>8, <2>1, <2>2, OtherPools
<1> HIDE DEF p, k, m
<1> QED BY <1>1, <1>2, <1>4, <1>6, <1>9 DEF SameBut, k

\* Same pools, and what is not the pools'.
SamePools(h, k) == k.pools = h.pools /\ SameBut(h, k)

\* The list of pools gets longer, or does not.
LEMMA increaseCapacityOK ==
  ASSUME NEW h \in Heaps
  PROVE  Grows(h, increaseCapacity(h)) /\ SamePools(h, increaseCapacity(h))
<1> DEFINE m == Malloc(h)
           k == [m EXCEPT !.capacity = 2 * @, !.preallocated = FALSE]
<1>1. m \in Heaps /\ Grows(h, m) /\ SamePools(h, m) /\ m.capacity = h.capacity
  BY MallocOK DEF SamePools, SameBut
<1>2. m.capacity \in Nat /\ h.pools \in Seq(Pools)
  BY <1>1, HeapParts
<1>3. k \in Heaps /\ SamePools(m, k) /\ k.capacity = 2 * m.capacity
  <2> HIDE DEF m
  <2> DEFINE c == 2 * m.capacity
  <2>1. c \in Nat
    BY <1>2
  <2> HIDE DEF c
  <2>2. k = [m EXCEPT !.capacity = c, !.preallocated = FALSE]
    BY DEF c
  <2>3. k \in Heaps /\ SamePools(m, k) /\ k.capacity = c
    <3> HIDE DEF k
    <3> QED BY <1>1, <2>1, <2>2 DEF Heaps, SamePools, SameBut
  <2> QED BY <2>3 DEF c
<1>4. Grows(m, k)
  <2> HIDE DEF m, k
  <2>1. Len(m.pools) \in Nat
    BY <1>1, <1>2 DEF SamePools
  <2>2. \A t : Strings(k, t) = Strings(m, t)
    BY <1>3, SameStrings DEF SamePools, SameBut
  <2> QED BY <1>1, <1>2, <1>3, <2>1, <2>2 DEF Grows, Counted, SamePools, SameBut
<1>5. Grows(h, k) /\ SamePools(h, k)
  <2> HIDE DEF m, k
  <2> QED BY <1>1, <1>3, <1>4, GrowsOn DEF SamePools, SameBut
<1> HIDE DEF m, k
<1>6. increaseCapacity(h) \in {h, m, k}
  BY DEF increaseCapacity, m, k
<1> QED BY <1>1, <1>5, <1>6, GrowsNot DEF SamePools, SameBut

\* The pools have become more, by one that is empty; or not.
Extends(h, k) ==
  /\ SameBut(h, k)
  /\ \/ k.pools = h.pools
     \/ /\ Len(k.pools) = Len(h.pools) + 1 /\ k.pools[Len(h.pools) + 1].used = 0
        /\ \A n \in DOMAIN h.pools : k.pools[n] = h.pools[n]

\* addPool() adds an empty pool, or nothing.
LEMMA addPoolOK ==
  ASSUME NEW h \in Heaps
  PROVE  Grows(h, addPool(h)) /\ Extends(h, addPool(h))
<1> DEFINE g == IF Len(h.pools) = h.capacity THEN increaseCapacity(h) ELSE h
<1>1. Grows(h, g) /\ SamePools(h, g) /\ g \in Heaps
  BY increaseCapacityOK, GrowsNot DEF SamePools, SameBut, Grows
<1> HIDE DEF g
<1>2. Grows(g, PoolAdded(g)) /\ Extends(g, PoolAdded(g))
  BY <1>1, CreatePoolOK, GrowsNot DEF PoolAdded, Extends, SameBut
<1>3. addPool(h) = PoolAdded(g)
  BY DEF addPool, g
<1> QED BY <1>1, <1>2, <1>3, GrowsOn DEF Extends, SamePools, SameBut

\* One more slot of the last pool is used.
Used(h, k) ==
  /\ h.pools # <<>> /\ SameBut(h, k) /\ Len(k.pools) = Len(h.pools)
  /\ LastPool(h).used < LastPool(h).size /\ k.pools[Len(h.pools)].used = LastPool(h).used + 1
  /\ \A n \in DOMAIN h.pools : n # Len(h.pools) => k.pools[n] = h.pools[n]
\* The number of the next slot of the last pool, before it is cut to an id.
Number(h) == (Len(h.pools) - 1) * PoolCapacity + LastPool(h).used

\* allocFromLastPool() uses one more slot.
LEMMA allocFromLastPoolOK ==
  ASSUME NEW h \in Heaps, HasRoom(h)
  PROVE  LET r == allocFromLastPool(h)
         IN Grows(h, r.heap) /\ Used(h, r.heap) /\ r.id = Number(h) % (NullSlot + 1) /\ r.id \in Links
<1> DEFINE n == Len(h.pools)
           pool == [h.pools[n] EXCEPT !.used = @ + 1]
           p == [h.pools EXCEPT ![n] = pool]
           k == [h EXCEPT !.pools = p]
           r == allocFromLastPool(h)
<1>1. h.pools \in Seq(Pools) /\ h.pools # <<>> /\ LastPool(h).used < LastPool(h).size
  BY HeapParts DEF HasRoom
<1>2. n \in Nat /\ n \in DOMAIN h.pools /\ DOMAIN h.pools = 1..n /\ h.pools[n] \in Pools
  BY <1>1
<1>3. pool \in Pools /\ pool.used = LastPool(h).used + 1 /\ pool.size = LastPool(h).size
  <2>1. h.pools[n].used \in 0..PoolCapacity /\ h.pools[n].size \in 0..PoolCapacity
    BY <1>2 DEF Pools
  <2>2. h.pools[n].used + 1 \in 0..PoolCapacity
    BY <1>1, <2>1, Constants DEF LastPool
  <2> QED BY <1>2, <2>1, <2>2 DEF Pools, LastPool
<1>4. /\ p \in Seq(Pools) /\ Len(p) = n /\ p[n] = pool /\ DOMAIN p = 1..n
      /\ \A i \in 1..n : i # n => p[i] = h.pools[i]
  <2> HIDE DEF pool
  <2> QED BY <1>1, <1>2, <1>3
<1>5. r.heap = k /\ r.id = Number(h) % (NullSlot + 1)
  BY DEF allocFromLastPool, Number
<1>6. k \in Heaps /\ k.pools = p /\ SameBut(h, k) /\ k.capacity = h.capacity
  <2> HIDE DEF p
  <2> QED BY <1>4 DEF Heaps, SameBut
<1>7. Grows(h, k)
  <2>1. ASSUME Counted(h), NEW i \in DOMAIN p
        PROVE  p[i].used <= p[i].size /\ (i = MaxPools => p[i].size < PoolCapacity)
    <3>1. h.pools[i].used <= h.pools[i].size /\ (i = MaxPools => h.pools[i].size < PoolCapacity)
      <4> HIDE DEF p
      <4> QED BY <2>1, <1>2, <1>4 DEF Counted
    <3>2. CASE i = n
      <4> HIDE DEF p, pool
      <4>1. h.pools[i].used \in Nat /\ h.pools[i].size \in Nat
        BY <3>2, <1>2 DEF Pools
      <4> QED BY <3>1, <3>2, <4>1, <1>1, <1>3, <1>4 DEF LastPool
    <3>3. CASE i # n
      <4> HIDE DEF p, pool
      <4> QED BY <3>1, <3>3, <1>4
    <3> QED BY <3>2, <3>3
  <2>2. Counted(h) => Len(p) <= k.capacity
    <3> HIDE DEF p, k
    <3> QED BY <1>4, <1>6 DEF Counted
  <2> HIDE DEF p, k
  <2>3. Len(h.pools) <= Len(p) BY <1>2, <1>4
  <2> QED BY <1>4, <1>6, <2>1, <2>2, <2>3, OtherPools DEF SameBut
<1>8. Number(h) \in Int
  <2>1. LastPool(h).used \in Nat
    BY <1>2 DEF LastPool, Pools
  <2> QED BY <1>2, <2>1, Constants DEF Number
<1>9. r.id \in Links
  <2> HIDE DEF r
  <2> QED BY <1>5, <1>8, Constants DEF Links
<1> HIDE DEF p, k, r
<1>10. Used(h, k)
  BY <1>1, <1>3, <1>4, <1>6, <1>2 DEF Used
<1> QED BY <1>5, <1>7, <1>9, <1>10 DEF r

\* A slot comes from the list of free slots, or else from the last pool.
Taken(h, r) ==
  IF h.free # <<>>
  THEN /\ r.id = h.free[1] /\ r.heap.free = Tail(h.free) /\ r.heap.pools = h.pools
       /\ r.heap.cell = h.cell /\ r.heap.refs = h.refs /\ r.heap.lost = h.lost
  ELSE \E g \in Heaps :
         /\ Grows(h, g) /\ Extends(h, g)
         /\ \/ r.id = NullSlot /\ r.heap = g
            \/ Used(g, r.heap) /\ r.id = Number(g) % (NullSlot + 1)

\* What allocSlot() gives.
LEMMA allocSlotOK ==
  ASSUME NEW h \in Heaps
  PROVE  LET r == allocSlot(h)
         IN Grows(h, r.heap) /\ r.id \in Links /\ Taken(h, r)
<1> DEFINE r == allocSlot(h)
<1>1. CASE h.free # <<>>
  <2> DEFINE f == Tail(h.free)
             k == [h EXCEPT !.free = f]
  <2>1. f \in Seq(Slots) /\ h.free[1] \in Slots
    BY <1>1, HeapParts
  <2>2. r = [heap |-> k, id |-> h.free[1]]
    BY <1>1 DEF allocSlot
  <2> HIDE DEF f
  <2>3. k \in Heaps /\ k.free = f /\ k.pools = h.pools /\ k.cell = h.cell /\ k.refs = h.refs
        /\ k.lost = h.lost /\ k.capacity = h.capacity /\ k.overflowed = h.overflowed
    BY <2>1 DEF Heaps
  <2> HIDE DEF k, r
  <2>4. Grows(h, k)
    BY <2>3, SameHeap
  <2> QED BY <1>1, <2>1, <2>2, <2>3, <2>4, Constants DEF Taken, f, r
<1>2. CASE h.free = <<>>
  <2> DEFINE g == IF HasRoom(h) THEN h ELSE addPool(h)
  <2>1. Grows(h, g) /\ Extends(h, g) /\ g \in Heaps
    BY addPoolOK, GrowsNot DEF Grows, Extends, SameBut
  <2>2. r = FromPool(g)
    BY <1>2 DEF allocSlot
  <2> HIDE DEF g
  <2>3. CASE HasRoom(g)
    <3>1. r = allocFromLastPool(g)
      BY <2>2, <2>3 DEF FromPool
    <3>2. Grows(g, r.heap) /\ Used(g, r.heap) /\ r.id = Number(g) % (NullSlot + 1) /\ r.id \in Links
      <4> HIDE DEF r
      <4> QED BY <2>1, <2>3, <3>1, allocFromLastPoolOK
    <3> HIDE DEF r
    <3>3. Grows(h, r.heap)
      BY <2>1, <3>2, GrowsOn
    <3> QED BY <1>2, <2>1, <3>2, <3>3 DEF Taken, r
  <2>4. CASE ~HasRoom(g)
    <3>1. r = [heap |-> g, id |-> NullSlot]
      BY <2>2, <2>4 DEF FromPool
    <3> HIDE DEF r
    <3>2. r.heap = g /\ r.id = NullSlot
      BY <3>1
    <3> QED BY <1>2, <2>1, <3>2, Constants DEF Taken, r
  <2> QED BY <2>3, <2>4
<1> QED BY <1>1, <1>2

\* What is written to a cell that holds no string afterwards.
LEMMA CellWritten ==
  ASSUME NEW h \in Heaps, NEW v \in Ids, NEW c \in Cells, c.type \notin InPool
  PROVE  LET k == [h EXCEPT !.cell[v] = c]
         IN /\ Grows(h, k) /\ k.pools = h.pools /\ k.free = h.free /\ k.refs = h.refs
            /\ k.lost = h.lost /\ k.capacity = h.capacity /\ k.cell = [h.cell EXCEPT ![v] = c]
            /\ k.overflowed = h.overflowed
<1> DEFINE d == [h.cell EXCEPT ![v] = c]
           k == [h EXCEPT !.cell = d]
<1>1. h.cell \in [Ids -> Cells]
  BY HeapParts
<1>2. d \in [Ids -> Cells] /\ \A x \in Ids : d[x] = h.cell[x] \/ d[x].type \notin InPool
  BY <1>1
<1> HIDE DEF d
<1>3. k \in Heaps /\ k.pools = h.pools /\ k.free = h.free /\ k.refs = h.refs
      /\ k.lost = h.lost /\ k.capacity = h.capacity /\ k.cell = d /\ k.overflowed = h.overflowed
  BY <1>2 DEF Heaps
<1> HIDE DEF k
<1>4. \A t : Cardinality(Strings(k, t)) <= Cardinality(Strings(h, t))
             /\ Cardinality(Strings(k, t)) \in Nat /\ Cardinality(Strings(h, t)) \in Nat
  BY <1>2, <1>3, FewerStrings, HoldersFinite
<1>5. Len(h.pools) \in Nat /\ \A t \in Texts : h.refs[t] \in Int
  BY HeapParts
<1>6. Grows(h, k)
  BY <1>3, <1>4, <1>5 DEF Grows, Counted
<1> QED BY <1>3, <1>6 DEF k, d

\* A request has failed.
LEMMA Overflow ==
  ASSUME NEW h \in Heaps
  PROVE  LET k == [h EXCEPT !.overflowed = TRUE]
         IN Grows(h, k) /\ SamePools(h, k) /\ k.overflowed
<1> DEFINE k == [h EXCEPT !.overflowed = TRUE]
<1>1. k \in Heaps /\ k.pools = h.pools /\ k.free = h.free /\ k.refs = h.refs
      /\ k.lost = h.lost /\ k.capacity = h.capacity /\ k.cell = h.cell /\ k.overflowed = TRUE
  BY DEF Heaps
<1> HIDE DEF k
<1> QED BY <1>1, SameHeap DEF SamePools, SameBut, k

\* A slot with its first content.
LEMMA FilledOK ==
  ASSUME NEW h \in Heaps, NEW c \in Cells, c.type \notin InPool
  PROVE  LET r == allocSlot(h)
             f == Filled(r, c)
         IN /\ Grows(h, f.heap) /\ f.id \in Links /\ f.id = r.id /\ f.heap.pools = r.heap.pools
            /\ f.heap.free = r.heap.free /\ f.heap.refs = r.heap.refs /\ f.heap.lost = r.heap.lost
            /\ f.heap.cell = IF f.id = NullSlot THEN r.heap.cell ELSE [r.heap.cell EXCEPT ![f.id] = c]
            /\ (f.id = NullSlot => f.heap.overflowed) /\ (r.heap.overflowed => f.heap.overflowed)
<1> DEFINE r == allocSlot(h)
           f == Filled(r, c)
<1>1. Grows(h, r.heap) /\ r.id \in Links /\ r.heap \in Heaps
  BY allocSlotOK DEF Grows
<1>0. r = [heap |-> r.heap, id |-> r.id]
  BY DEF allocSlot, FromPool, allocFromLastPool
<1> HIDE DEF r
<1>2. CASE r.id = NullSlot
  <2> DEFINE k == [r.heap EXCEPT !.overflowed = TRUE]
  <2>1. f.heap = k /\ f.id = r.id
    BY <1>0, <1>2 DEF Filled
  <2> HIDE DEF f, k
  <2>2. Grows(r.heap, k) /\ SamePools(r.heap, k) /\ k.overflowed
    BY <1>1, Overflow DEF k
  <2> QED BY <1>1, <1>2, <2>1, <2>2, GrowsOn DEF r, f, SamePools, SameBut
<1>3. CASE r.id # NullSlot
  <2> DEFINE k == [r.heap EXCEPT !.cell[r.id] = c]
  <2>1. f.heap = k /\ f.id = r.id
    BY <1>0, <1>3 DEF Filled
  <2>2. r.id \in Ids
    BY <1>1, <1>3, Constants
  <2> HIDE DEF f
  <2>3. Grows(r.heap, k) /\ k.pools = r.heap.pools /\ k.free = r.heap.free /\ k.refs = r.heap.refs
        /\ k.lost = r.heap.lost /\ k.cell = [r.heap.cell EXCEPT ![r.id] = c]
        /\ k.overflowed = r.heap.overflowed
    BY <1>1, <2>2, CellWritten
  <2> HIDE DEF k
  <2> QED BY <1>1, <1>3, <2>1, <2>3, GrowsOn DEF r, f
<1> QED BY <1>2, <1>3

-----------------------------------------------------------------------------
(***************************************************************************)
(* Chains and what hangs from them, as the model's recursive functions     *)
(* give them: first that there are such functions.                         *)
(***************************************************************************)
\* Steps from one value of V to the next, and a line of values made by them.
IsSteps(op, n, V) == op \in [1..n -> [V -> V]]
IsLine(f, n, V, c, op) ==
  f \in [0..n -> V] /\ f[0] = c /\ \A i \in 1..n : f[i] = op[i][f[i - 1]]

\* A line can be continued to any length.
LEMMA Carries ==
  ASSUME NEW n \in Nat, NEW V, NEW c \in V, NEW op, IsSteps(op, n, V)
  PROVE  \E f : IsLine(f, n, V, c, op)
<1> DEFINE m == 0
<1>1. m \in Int /\ n \in Int /\ IsCarry(op, m, n, V)
  BY DEF IsCarry, IsSteps
<1> HIDE DEF m
<1>2. PICK f : IsCarried(f, m, n, V, c, op)
  BY ONLY <1>1, c \in V, CarriedExists, Zenon
<1>3. f \in [0..n -> V] /\ \A i \in 0..n : f[i] = IF i = 0 THEN c ELSE op[i][f[i - 1]]
  BY <1>2 DEF IsCarried, m
<1> QED BY <1>3 DEF IsLine

\* A function whose first value is in V, as each next one is, is into V.
LEMMA StaysIn ==
  ASSUME NEW n \in Nat, NEW V, NEW f, f = [i \in 0..n |-> f[i]], f[0] \in V,
         \A i \in 1..n : f[i - 1] \in V => f[i] \in V
  PROVE  f \in [0..n -> V]
<1> DEFINE T == {i \in Nat : i <= n => f[i] \in V}
<1>1. 0 \in T
  OBVIOUS
<1>2. ASSUME NEW i \in Nat, i \in T PROVE i + 1 \in T
  <2> SUFFICES ASSUME i + 1 <= n PROVE f[i + 1] \in V
    OBVIOUS
  <2>1. i + 1 \in 1..n /\ (i + 1) - 1 = i /\ f[i] \in V
    BY <1>2
  <2> QED BY <2>1
<1>3. \A i \in Nat : i \in T
  <2> HIDE DEF T
  <2> QED BY <1>1, <1>2, Induction
<1>4. \A i \in 0..n : f[i] \in V
  BY <1>3
<1> QED BY <1>4

\* A chain with one slot more, if there is one.
Longer(h, first, s) ==
  LET id == IF s = <<>> THEN first ELSE h.cell[s[Len(s)]].next
  IN IF id = NullSlot THEN s ELSE Append(s, id)

LEMMA LongerOK ==
  ASSUME NEW h \in Heaps, NEW first \in Links, NEW s \in Seq(Slots)
  PROVE  Longer(h, first, s) \in Seq(Slots)
<1> DEFINE id == IF s = <<>> THEN first ELSE h.cell[s[Len(s)]].next
<1>1. id \in Links
  <2>1. CASE s = <<>>
    BY <2>1
  <2>2. CASE s # <<>>
    <3>1. s[Len(s)] \in Ids
      BY <2>2, Constants
    <3> QED BY <2>2, <3>1, CellParts
  <2> QED BY <2>1, <2>2
<1>2. Longer(h, first, s) = IF id = NullSlot THEN s ELSE Append(s, id)
  BY DEF Longer
<1> HIDE DEF id
<1> QED BY <1>1, <1>2, Constants

\* The chain from a slot on, by its lengths.
IsChain(u, h, first) ==
  u \in [0..NullSlot -> Seq(Slots)] /\ u[0] = <<>>
  /\ \A n \in 1..NullSlot : u[n] = Longer(h, first, u[n - 1])

\* The model's chain is such a function's last value.
LEMMA ChainIs ==
  ASSUME NEW h \in Heaps, NEW first \in Links
  PROVE  \E u : IsChain(u, h, first) /\ Chain(h, first) = u[NullSlot]
<1> DEFINE Solves(u) == u = [n \in 0..NullSlot |-> IF n = 0 THEN <<>> ELSE Longer(h, first, u[n - 1])]
           upTo == CHOOSE u : Solves(u)
           V == Seq(Slots)
           op == [n \in 1..NullSlot |-> [s \in V |-> Longer(h, first, s)]]
<1>1. Chain(h, first) = upTo[NullSlot]
  <2>1. \A u : Solves(u) <=> u = [n \in 0..NullSlot |->
           LET s == u[n - 1]
               id == IF s = <<>> THEN first ELSE h.cell[s[Len(s)]].next
           IN IF n = 0 THEN <<>> ELSE IF id = NullSlot THEN s ELSE Append(s, id)]
    BY DEF Longer
  <2> QED BY <2>1 DEF Chain, Longer
<1>2. op \in [1..NullSlot -> [V -> V]] /\ <<>> \in V /\ NullSlot \in Nat
  BY LongerOK, Constants
<1>3. PICK u \in [0..NullSlot -> V] : u[0] = <<>> /\ \A i \in 1..NullSlot : u[i] = op[i][u[i - 1]]
  <2> DEFINE c == <<>>
  <2>1. c \in V
    BY <1>2
  <2> HIDE DEF op, V, c
  <2>2. IsSteps(op, NullSlot, V) /\ NullSlot \in Nat
    BY <1>2 DEF IsSteps
  <2>3. \E u : IsLine(u, NullSlot, V, c, op)
    BY ONLY <2>1, <2>2, Carries, Zenon
  <2> QED BY <2>3 DEF c, IsLine
<1>4. Solves(u)
  <2>1. ASSUME NEW n \in 0..NullSlot PROVE u[n] = IF n = 0 THEN <<>> ELSE Longer(h, first, u[n - 1])
    <3>1. CASE n = 0
      BY <1>3, <3>1
    <3>2. CASE n # 0
      <4>1. n \in 1..NullSlot /\ n - 1 \in 0..NullSlot
        BY <3>2, Constants
      <4> QED BY <1>3, <3>2, <4>1
    <3> QED BY <3>1, <3>2
  <2>2. u = [n \in 0..NullSlot |-> u[n]]
    BY <1>3
  <2> QED BY <2>1, <2>2
<1>5. Solves(upTo)
  BY <1>4
<1> HIDE DEF upTo
<1>6. /\ upTo = [n \in 0..NullSlot |-> upTo[n]] /\ upTo[0] = <<>>
      /\ \A n \in 1..NullSlot : upTo[n] = Longer(h, first, upTo[n - 1])
  <2>1. \A n \in 0..NullSlot : upTo[n] = IF n = 0 THEN <<>> ELSE Longer(h, first, upTo[n - 1])
    BY <1>5
  <2>2. 0 \in 0..NullSlot /\ \A n \in 1..NullSlot : n \in 0..NullSlot /\ n # 0
    BY Constants
  <2>3. upTo = [n \in 0..NullSlot |-> upTo[n]]
    BY <1>5
  <2> QED BY <2>1, <2>2, <2>3
<1>7. upTo[0] \in V
  BY <1>2, <1>6
<1>8. ASSUME NEW n \in 1..NullSlot, upTo[n - 1] \in V PROVE upTo[n] \in V
  BY <1>6, <1>8, LongerOK
<1>9. upTo \in [0..NullSlot -> V]
  <2> HIDE DEF V
  <2> QED BY <1>2, <1>6, <1>7, <1>8, StaysIn
<1>11. IsChain(upTo, h, first)
  BY <1>6, <1>9 DEF IsChain
<1> QED BY <1>1, <1>11

\* What is walked over from each slot on, and one step further.
Walks == [Links -> Seq(Slots)]
NoWalk == [id \in Links |-> <<>>]
\* From a slot on: what follows it, itself, and what is below it.
Further(h, w) ==
  [id \in Links |-> IF id = NullSlot THEN <<>>
                    ELSE w[h.cell[id].next] \o <<id>> \o w[Below(h, id)]]

LEMMA FurtherOK ==
  ASSUME NEW h \in Heaps, NEW w \in Walks
  PROVE  Further(h, w) \in Walks
<1>1. ASSUME NEW id \in Links, id # NullSlot
      PROVE  w[h.cell[id].next] \o <<id>> \o w[Below(h, id)] \in Seq(Slots)
  <2>1. id \in Slots /\ id \in Ids
    BY <1>1, Constants
  <2>2. h.cell[id].next \in Links /\ Below(h, id) \in Links
    BY <2>1, CellParts
  <2>3. w[h.cell[id].next] \in Seq(Slots) /\ w[Below(h, id)] \in Seq(Slots)
    BY <2>2 DEF Walks
  <2> QED BY <2>1, <2>3
<1>2. ASSUME NEW id \in Links
      PROVE  (IF id = NullSlot THEN <<>>
              ELSE w[h.cell[id].next] \o <<id>> \o w[Below(h, id)]) \in Seq(Slots)
  BY <1>1
<1> QED BY <1>2 DEF Further, Walks

\* The walks, by the number of steps.
IsWalk(w, h) ==
  w \in [0..NullSlot -> Walks] /\ w[0] = NoWalk
  /\ \A n \in 1..NullSlot : w[n] = Further(h, w[n - 1])

\* The model's walk is such a function's last value.
LEMMA WalkIs ==
  ASSUME NEW h \in Heaps
  PROVE  \E w : IsWalk(w, h) /\ Walk(h) = w[NullSlot]
<1> DEFINE Stage(w, n) == [id \in Links |->
                            IF n = 0 \/ id = NullSlot THEN <<>>
                            ELSE w[n - 1][h.cell[id].next] \o <<id>> \o w[n - 1][Below(h, id)]]
           Solves(w) == w = [n \in 0..NullSlot |-> Stage(w, n)]
           from == CHOOSE w : Solves(w)
           V == Walks
           c == NoWalk
           op == [n \in 1..NullSlot |-> [w \in V |-> Further(h, w)]]
<1>1. Walk(h) = from[NullSlot]
  BY DEF Walk
<1>0. \A w : Stage(w, 0) = c /\ \A n \in 1..NullSlot : Stage(w, n) = Further(h, w[n - 1])
  <2>1. \A w : Stage(w, 0) = c
    BY DEF NoWalk
  <2>2. ASSUME NEW w, NEW n \in 1..NullSlot PROVE Stage(w, n) = Further(h, w[n - 1])
    <3>1. n # 0
      BY Constants
    <3> QED BY <3>1 DEF Further
  <2> QED BY <2>1, <2>2
<1> HIDE DEF Stage
<1>2. op \in [1..NullSlot -> [V -> V]] /\ NullSlot \in Nat
  BY FurtherOK, Constants
<1>3. c \in V
  BY DEF NoWalk, Walks
<1>4. PICK w : w \in [0..NullSlot -> V] /\ w[0] = c /\ \A i \in 1..NullSlot : w[i] = op[i][w[i - 1]]
  <2> HIDE DEF op, V, c
  <2>1. IsSteps(op, NullSlot, V) /\ NullSlot \in Nat
    BY <1>2 DEF IsSteps
  <2>2. \E u : IsLine(u, NullSlot, V, c, op)
    BY ONLY <1>3, <2>1, Carries, Zenon
  <2> QED BY <2>2 DEF IsLine
<1>5. Solves(w)
  <2>1. ASSUME NEW n \in 0..NullSlot PROVE w[n] = Stage(w, n)
    <3>1. CASE n = 0
      BY <1>0, <1>4, <3>1
    <3>2. CASE n # 0
      <4>1. n \in 1..NullSlot /\ n - 1 \in 0..NullSlot
        BY <3>2, Constants
      <4>2. w[n - 1] \in V
        BY <1>4, <4>1
      <4>3. w[n] = Further(h, w[n - 1])
        <5> HIDE DEF V, c
        <5> QED BY <1>4, <4>1, <4>2
      <4> QED BY <1>0, <4>1, <4>3
    <3> QED BY <3>1, <3>2
  <2>2. w = [n \in 0..NullSlot |-> w[n]]
    BY <1>4
  <2> QED BY <2>1, <2>2
<1>6. Solves(from)
  BY <1>5
<1> HIDE DEF from
<1>7. from = [n \in 0..NullSlot |-> from[n]] /\ \A n \in 0..NullSlot : from[n] = Stage(from, n)
  BY <1>6
<1>8. from[0] = c /\ \A n \in 1..NullSlot : from[n] = Further(h, from[n - 1])
  <2>1. 0 \in 0..NullSlot /\ \A n \in 1..NullSlot : n \in 0..NullSlot
    BY Constants
  <2> QED BY <1>0, <1>7, <2>1
<1>9. from \in [0..NullSlot -> V]
  <2>1. from[0] \in V
    BY <1>3, <1>8
  <2>2. ASSUME NEW n \in 1..NullSlot, from[n - 1] \in V PROVE from[n] \in V
    BY <1>8, <2>2, FurtherOK
  <2> HIDE DEF V, c
  <2> QED BY <1>2, <1>7, <2>1, <2>2, StaysIn
<1> QED BY <1>1, <1>8, <1>9 DEF IsWalk

\* What the walk and the chains give are slots.
LEMMA UnderTypes ==
  ASSUME NEW h \in Heaps, NEW v \in Ids
  PROVE  /\ Walk(h) \in Walks /\ Under(h, v) \in Seq(Slots) /\ ToSet(Under(h, v)) \subseteq Slots
         /\ Children(h, v) \in Seq(Slots)
<1>1. Walk(h) \in Walks
  <2>1. PICK w : IsWalk(w, h) /\ Walk(h) = w[NullSlot]
    BY WalkIs
  <2> QED BY <2>1, Constants DEF IsWalk
<1>2. Under(h, v) \in Seq(Slots)
  BY <1>1, CellParts DEF Under, Walks
<1>3. \A first \in Links : Chain(h, first) \in Seq(Slots)
  <2> TAKE first \in Links
  <2>1. PICK u : IsChain(u, h, first) /\ Chain(h, first) = u[NullSlot]
    BY ChainIs
  <2> QED BY <2>1, Constants DEF IsChain
<1>4. Children(h, v) \in Seq(Slots)
  BY <1>3, CellParts DEF Children
<1>5. ToSet(Under(h, v)) \subseteq Slots
  <2> DEFINE u == Under(h, v)
  <2>1. u \in Seq(Slots)
    BY <1>2
  <2> HIDE DEF u
  <2>2. ToSet(u) \subseteq Slots
    BY <2>1 DEF ToSet
  <2> QED BY <2>2 DEF u
<1> QED BY <1>1, <1>2, <1>4, <1>5

-----------------------------------------------------------------------------
(***************************************************************************)
(* Clearing, and writing to a variant.                                     *)
(***************************************************************************)
\* The cells after clear(): the variant is null, what was below it vacant.
Emptied(h, v, F) ==
  [id \in Ids |-> IF id = v THEN [NullVariant EXCEPT !.next = h.cell[id].next]
                  ELSE IF id \in F THEN Vacant ELSE h.cell[id]]

\* clear() frees what is below the variant and gives back its strings'
\* references.
LEMMA ClearOK ==
  ASSUME NEW h \in Heaps, NEW v \in Ids
  PROVE  LET k == Clear(h, v)
             F == ToSet(Under(h, v))
         IN /\ Grows(h, k) /\ k.pools = h.pools /\ k.lost = h.lost /\ k.overflowed = h.overflowed
            /\ k.free = Under(h, v) \o h.free /\ k.cell = Emptied(h, v, F)
            /\ \A t \in Texts : /\ Strings(k, t) \subseteq Strings(h, t)
                                /\ k.refs[t] - Cardinality(Strings(k, t))
                                     = h.refs[t] - Cardinality(Strings(h, t))
<1> DEFINE k == Clear(h, v)
           u == Under(h, v)
           F == ToSet(u)
           gone(t) == Holders(h, F \cup {v}, t)
           d == Emptied(h, v, F)
           r == [t \in Texts |-> h.refs[t] - Cardinality(gone(t))]
           f == u \o h.free
<1>1. /\ h.cell \in [Ids -> Cells] /\ h.refs \in [Texts -> Int] /\ h.free \in Seq(Slots)
      /\ h.pools \in Seq(Pools)
  BY HeapParts
<1>2. u \in Seq(Slots) /\ F \subseteq Ids
  BY UnderTypes, Constants
<1>3. k = [h EXCEPT !.free = f, !.cell = d, !.refs = r]
  BY <1>1 DEF Clear, Emptied
<1> HIDE DEF u, F
<1>4. d \in [Ids -> Cells]
  <2>1. ASSUME NEW id \in Ids
        PROVE  [NullVariant EXCEPT !.next = h.cell[id].next] \in Cells /\ Vacant \in Cells
               /\ h.cell[id] \in Cells
    <3>1. NullVariant \in Cells /\ h.cell[id].next \in Links
      BY CellTypes, CellParts
    <3> QED BY <3>1, CellTypes, CellParts DEF Cells
  <2> QED BY <2>1 DEF Emptied
<1>5. ASSUME NEW t \in Texts
      PROVE  /\ IsFiniteSet(gone(t)) /\ Cardinality(gone(t)) \in Nat
             /\ Cardinality(Strings(h, t)) \in Nat
             /\ Cardinality(Strings(h, t) \ gone(t)) = Cardinality(Strings(h, t)) - Cardinality(gone(t))
  <2>1. gone(t) \subseteq Strings(h, t)
    BY <1>2 DEF Strings, Holders
  <2>2. IsFiniteSet(Strings(h, t)) /\ Cardinality(Strings(h, t)) \in Nat
    BY HoldersFinite
  <2> HIDE DEF gone
  <2>3. IsFiniteSet(gone(t)) /\ Cardinality(gone(t)) \in Nat
    BY <2>1, <2>2, FS_Subset, FS_CardinalityType
  <2>4. Strings(h, t) \cap gone(t) = gone(t)
    BY <2>1
  <2> QED BY <2>2, <2>3, <2>4, FS_Difference
<1>6. r \in [Texts -> Int] /\ \A t \in Texts : r[t] = h.refs[t] - Cardinality(gone(t))
  <2>1. ASSUME NEW t \in Texts PROVE h.refs[t] - Cardinality(gone(t)) \in Int
    <3>1. Cardinality(gone(t)) \in Nat /\ h.refs[t] \in Int
      BY <1>1, <1>5
    <3> HIDE DEF gone
    <3> QED BY <3>1
  <2> QED BY <2>1
<1>7. f \in Seq(Slots)
  BY <1>1, <1>2
<1> HIDE DEF f, r, d
<1>8. /\ k \in Heaps /\ k.free = f /\ k.cell = d /\ k.refs = r /\ k.pools = h.pools
      /\ k.capacity = h.capacity /\ k.lost = h.lost /\ k.overflowed = h.overflowed
  <2> HIDE DEF k
  <2> QED BY <1>3, <1>4, <1>6, <1>7 DEF Heaps
<1> HIDE DEF k
<1>9. ASSUME NEW t PROVE Strings(k, t) = Strings(h, t) \ gone(t)
  <2>1. ASSUME NEW id \in Ids
        PROVE  d[id].type \in InPool /\ d[id].text = t
               <=> id \notin F /\ id # v /\ h.cell[id].type \in InPool /\ h.cell[id].text = t
    <3>1. d[id] = IF id = v THEN [NullVariant EXCEPT !.next = h.cell[id].next]
                  ELSE IF id \in F THEN Vacant ELSE h.cell[id]
      BY DEF d, Emptied
    <3>2. [NullVariant EXCEPT !.next = h.cell[id].next].type = "Null" /\ Vacant.type = "Vacant"
      BY DEF NullVariant, Vacant
    <3>3. "Null" \notin InPool /\ "Vacant" \notin InPool
      BY DEF InPool
    <3> QED BY <3>1, <3>2, <3>3
  <2> QED BY <1>2, <1>8, <2>1 DEF Strings, Holders
<1>10. \A t \in Texts : /\ Strings(k, t) \subseteq Strings(h, t)
                        /\ Cardinality(Strings(k, t)) \in Nat /\ k.refs[t] \in Int
                        /\ Cardinality(Strings(h, t)) \in Nat /\ h.refs[t] \in Int
                        /\ k.refs[t] - Cardinality(Strings(k, t))
                             = h.refs[t] - Cardinality(Strings(h, t))
  <2> TAKE t \in Texts
  <2>1. Strings(k, t) = Strings(h, t) \ gone(t)
    BY <1>9
  <2>2. k.refs[t] = h.refs[t] - Cardinality(gone(t)) /\ h.refs[t] \in Int /\ k.refs[t] \in Int
    BY <1>1, <1>6, <1>8
  <2>3. Cardinality(gone(t)) \in Nat /\ Cardinality(Strings(h, t)) \in Nat
        /\ Cardinality(Strings(h, t) \ gone(t)) = Cardinality(Strings(h, t)) - Cardinality(gone(t))
    BY <1>5
  <2> HIDE DEF gone
  <2>4. Cardinality(Strings(k, t)) \in Nat
    BY HoldersFinite
  <2> QED BY <2>1, <2>2, <2>3, <2>4
<1>11. Grows(h, k)
  <2>1. Len(h.pools) \in Nat
    BY <1>1
  <2> QED BY <1>8, <1>10, <2>1 DEF Grows, Counted
<1> QED BY <1>8, <1>10, <1>11 DEF k, u, F, d, f

\* The references of a string have become as many more as there are holders.
Balanced(h, k) ==
  \A t \in Texts : k.refs[t] - Cardinality(Strings(k, t)) = h.refs[t] - Cardinality(Strings(h, t))

\* Balances add up.
LEMMA BalancedOn ==
  ASSUME NEW h, NEW k, NEW m, Balanced(h, k), Balanced(k, m)
  PROVE  Balanced(h, m)
BY DEF Balanced

\* No string has got or lost a holder.
LEMMA SameBalance ==
  ASSUME NEW h \in Heaps, NEW k, k.refs = h.refs,
         \A x \in Ids : k.cell[x] = h.cell[x]
                        \/ (k.cell[x].type \notin InPool /\ h.cell[x].type \notin InPool)
  PROVE  Balanced(h, k)
<1>1. \A t : Strings(k, t) = Strings(h, t)
  BY DEF Strings, Holders
<1> QED BY <1>1 DEF Balanced

\* Content is written to a slot; that of a string counts as a reference.
Writes(h, k, v, c) ==
  /\ k \in Heaps /\ k.pools = h.pools /\ k.capacity = h.capacity /\ k.free = h.free
  /\ k.lost = h.lost /\ k.cell = [h.cell EXCEPT ![v] = c] /\ (h.overflowed => k.overflowed)
  /\ Counted(h) => k.refs = IF c.type \in InPool THEN [h.refs EXCEPT ![c.text] = @ + 1] ELSE h.refs

\* What may be written to a variant.
Content(c) == c \in Cells /\ (c.type \in InPool => c.text \in Texts)

\* Writing to a variant keeps a heap in order.
LEMMA WritesOK ==
  ASSUME NEW h \in Heaps, NEW v \in Ids, NEW c, Content(c), NEW k, Writes(h, k, v, c)
  PROVE  /\ Grows(h, k)
         /\ Counted(h) /\ h.cell[v].type \notin InPool => Balanced(h, k)
<1>1. /\ Len(h.pools) \in Nat /\ h.refs \in [Texts -> Int] /\ h.cell \in [Ids -> Cells]
      /\ k.refs \in [Texts -> Int]
  BY HeapParts DEF Writes
<1>2. \A x \in Ids : k.cell[x] = IF x = v THEN c ELSE h.cell[x]
  BY <1>1 DEF Writes
<1>3. ASSUME Counted(h), NEW t \in Texts
      PROVE  /\ k.refs[t] >= Cardinality(Strings(k, t))
             /\ h.cell[v].type \notin InPool =>
                  k.refs[t] - Cardinality(Strings(k, t)) = h.refs[t] - Cardinality(Strings(h, t))
  <2> DEFINE S == Strings(h, t)
  <2>1. IsFiniteSet(S) /\ Cardinality(S) \in Nat /\ Cardinality(Strings(k, t)) \in Nat
    BY HoldersFinite
  <2>2. h.refs[t] \in Int /\ k.refs[t] \in Int /\ h.refs[t] >= Cardinality(S)
    BY <1>1, <1>3 DEF Counted
  <2>3. CASE c.type \in InPool /\ c.text = t
    <3>1. Strings(k, t) = S \cup {v}
      BY <1>2, <2>3 DEF Strings, Holders
    <3>2. k.refs[t] = h.refs[t] + 1
      BY <1>1, <1>3, <2>3 DEF Writes
    <3>3. v \in S => h.cell[v].type \in InPool
      BY DEF Strings, Holders
    <3> HIDE DEF S
    <3>4. Cardinality(S \cup {v}) = IF v \in S THEN Cardinality(S) ELSE Cardinality(S) + 1
      BY <2>1, FS_AddElement
    <3> QED BY <2>1, <2>2, <3>1, <3>2, <3>3, <3>4 DEF S
  <2>4. CASE ~(c.type \in InPool /\ c.text = t)
    <3>1. Strings(k, t) = S \ {v}
      BY <1>2, <2>4 DEF Strings, Holders
    <3>2. k.refs[t] = h.refs[t]
      BY <1>1, <1>3, <2>4 DEF Writes, Content
    <3>3. v \in S => h.cell[v].type \in InPool
      BY DEF Strings, Holders
    <3> HIDE DEF S
    <3>4. Cardinality(S \ {v}) = IF v \in S THEN Cardinality(S) - 1 ELSE Cardinality(S)
      BY <2>1, FS_RemoveElement
    <3> QED BY <2>1, <2>2, <3>1, <3>2, <3>3, <3>4 DEF S
  <2> QED BY <2>3, <2>4
<1>4. /\ k \in Heaps /\ k.pools = h.pools /\ k.capacity = h.capacity
      /\ k.lost = h.lost /\ (h.overflowed => k.overflowed)
  BY DEF Writes
<1>5. Grows(h, k)
  BY <1>1, <1>3, <1>4 DEF Grows, Counted
<1> QED BY <1>3, <1>5 DEF Balanced

\* A variant of another type, or with other content that is no string.
LEMMA CellWrites ==
  ASSUME NEW h \in Heaps, NEW v \in Ids, NEW c \in Cells, c.type \notin InPool
  PROVE  Writes(h, [h EXCEPT !.cell[v] = c], v, c)
BY CellWritten DEF Writes, Grows

\* A variant of another type.
LEMMA TypedOK ==
  ASSUME NEW h \in Heaps, NEW v \in Ids, NEW type \in VariantTypes \ InPool
  PROVE  LET c == [h.cell[v] EXCEPT !.type = type]
         IN Content(c) /\ c.type = type /\ Writes(h, Typed(h, v, type), v, c)
<1> DEFINE c == [h.cell[v] EXCEPT !.type = type]
<1>1. c \in Cells /\ c.type = type
  BY CellParts DEF Cells
<1>2. Typed(h, v, type) = [h EXCEPT !.cell[v] = c]
  BY HeapParts DEF Typed
<1>3. Content(c) /\ Writes(h, Typed(h, v, type), v, c)
  <2> HIDE DEF c
  <2> QED BY <1>1, <1>2, CellWrites DEF Content
<1> QED BY <1>1, <1>3

-----------------------------------------------------------------------------
(***************************************************************************)
(* Strings, and numbers that need an extension.                            *)
(***************************************************************************)

\* saveString() adds a reference, or none when memory is refused.
LEMMA saveStringOK ==
  ASSUME NEW h \in Heaps, NEW text \in Texts
  PROVE  LET r == saveString(h, text)
         IN /\ r = [heap |-> r.heap, ok |-> r.ok] /\ r.ok \in BOOLEAN /\ r.heap \in Heaps
            /\ r.heap.pools = h.pools /\ r.heap.capacity = h.capacity /\ r.heap.free = h.free
            /\ r.heap.cell = h.cell /\ r.heap.lost = h.lost
            /\ h.overflowed => r.heap.overflowed
            /\ ~r.ok => r.heap.refs = h.refs /\ r.heap.overflowed
            /\ Counted(h) /\ r.ok => r.heap.refs = [h.refs EXCEPT ![text] = @ + 1]
<1> DEFINE r == saveString(h, text)
           g == Malloc(h)
           more == [h.refs EXCEPT ![text] = h.refs[text] + 1]
           one == [h.refs EXCEPT ![text] = 1]
<1>1. /\ g \in Heaps /\ g.pools = h.pools /\ g.capacity = h.capacity /\ g.free = h.free
      /\ g.cell = h.cell /\ g.lost = h.lost /\ g.refs = h.refs /\ g.overflowed = h.overflowed
  BY MallocOK
<1>2. h.refs \in [Texts -> Int] /\ h.refs[text] \in Int
  BY HeapParts
<1>3. more \in [Texts -> Int] /\ one \in [Texts -> Int]
  <2>1. h.refs[text] + 1 \in Int /\ 1 \in Int
    BY <1>2
  <2> QED BY <1>2, <2>1
<1>4. Counted(h) /\ ~(h.refs[text] > 0) => one = more
  <2> SUFFICES ASSUME Counted(h), ~(h.refs[text] > 0) PROVE one = more
    OBVIOUS
  <2>1. h.refs[text] >= Cardinality(Strings(h, text)) /\ Cardinality(Strings(h, text)) \in Nat
    BY HoldersFinite DEF Counted
  <2>2. h.refs[text] + 1 = 1
    BY <1>2, <2>1
  <2> QED BY <2>2
<1>5. CASE h.refs[text] > 0
  <2>1. r = [heap |-> [h EXCEPT !.refs = more], ok |-> TRUE]
    BY <1>5 DEF saveString
  <2> HIDE DEF r, more
  <2>2. /\ r.heap \in Heaps /\ r.heap.refs = more /\ r.ok = TRUE
        /\ r.heap.pools = h.pools /\ r.heap.capacity = h.capacity /\ r.heap.free = h.free
        /\ r.heap.cell = h.cell /\ r.heap.lost = h.lost /\ r.heap.overflowed = h.overflowed
    BY <1>3, <2>1 DEF Heaps
  <2> QED BY <2>1, <2>2 DEF r, more
<1>6. CASE ~(h.refs[text] > 0) /\ Granted(g)
  <2>1. r = [heap |-> [g EXCEPT !.refs = one], ok |-> TRUE]
    BY <1>1, <1>6 DEF saveString
  <2> HIDE DEF r, more, one, g
  <2>2. /\ r.heap \in Heaps /\ r.heap.refs = one /\ r.ok = TRUE
        /\ r.heap.pools = g.pools /\ r.heap.capacity = g.capacity /\ r.heap.free = g.free
        /\ r.heap.cell = g.cell /\ r.heap.lost = g.lost /\ r.heap.overflowed = g.overflowed
    BY <1>1, <1>3, <2>1 DEF Heaps
  <2> QED BY <1>1, <1>4, <1>6, <2>1, <2>2 DEF r, more
<1>7. CASE ~(h.refs[text] > 0) /\ ~Granted(g)
  <2>1. r = [heap |-> [g EXCEPT !.overflowed = TRUE], ok |-> FALSE]
    BY <1>7 DEF saveString
  <2> HIDE DEF r, g
  <2>2. /\ r.heap \in Heaps /\ r.heap.refs = g.refs /\ r.ok = FALSE
        /\ r.heap.pools = g.pools /\ r.heap.capacity = g.capacity /\ r.heap.free = g.free
        /\ r.heap.cell = g.cell /\ r.heap.lost = g.lost /\ r.heap.overflowed = TRUE
    BY <1>1, <2>1 DEF Heaps
  <2> QED BY <1>1, <2>1, <2>2 DEF r
<1> QED BY <1>5, <1>6, <1>7

\* A variant as a string.
AsString(x, type, text) == [x EXCEPT !.type = type, !.text = text]

\* A setter of a string writes it, or leaves all as it was.
StringSet(h, r, v, type, text) ==
  /\ r = [heap |-> r.heap, ok |-> r.ok] /\ r.ok \in BOOLEAN
  /\ IF r.ok THEN Writes(h, r.heap, v, [h.cell[v] EXCEPT !.type = type, !.text = text])
     ELSE Grows(h, r.heap) /\ SamePools(h, r.heap) /\ r.heap.overflowed

\* A string is saved and then written to its variant.
LEMMA StoredOK ==
  ASSUME NEW h \in Heaps, NEW v \in Ids, NEW text \in Texts, NEW type \in InPool
  PROVE  /\ Content([h.cell[v] EXCEPT !.type = type, !.text = text])
         /\ StringSet(h, Stored(saveString(h, text), v, type, text), v, type, text)
<1> DEFINE r == saveString(h, text)
           c == [h.cell[v] EXCEPT !.type = type, !.text = text]
           s == Stored(r, v, type, text)
<1>1. /\ r = [heap |-> r.heap, ok |-> r.ok] /\ r.ok \in BOOLEAN /\ r.heap \in Heaps
      /\ r.heap.pools = h.pools /\ r.heap.capacity = h.capacity /\ r.heap.free = h.free
      /\ r.heap.cell = h.cell /\ r.heap.lost = h.lost
      /\ h.overflowed => r.heap.overflowed
      /\ ~r.ok => r.heap.refs = h.refs /\ r.heap.overflowed
      /\ Counted(h) /\ r.ok => r.heap.refs = [h.refs EXCEPT ![text] = @ + 1]
  BY saveStringOK
<1>2. h.cell \in [Ids -> Cells] /\ h.cell[v] \in Cells
  BY HeapParts
<1>3. c \in Cells /\ c.type = type /\ c.text = text
  <2>1. type \in VariantTypes
    BY DEF InPool, VariantTypes
  <2> QED BY <1>2, <2>1 DEF Cells
<1> HIDE DEF r
<1>4. CASE r.ok
  <2> DEFINE d == [h.cell EXCEPT ![v] = c]
             k == [r.heap EXCEPT !.cell = d]
  <2>1. d \in [Ids -> Cells]
    BY <1>2, <1>3
  <2>2. s = [heap |-> k, ok |-> r.ok]
    <3>1. s = [r EXCEPT !.heap.cell[v].type = type, !.heap.cell[v].text = text]
      BY <1>4 DEF Stored
    <3>2. r = [heap |-> r.heap, ok |-> r.ok] /\ r.heap \in Heaps /\ r.heap.cell = h.cell
      BY <1>1
    <3> DEFINE y == [r.heap EXCEPT !.cell[v].type = type]
               q == [r EXCEPT !.heap.cell[v].type = type]
    <3>3. q = [heap |-> y, ok |-> r.ok]
      <4> HIDE DEF k
      <4> QED BY <3>2
    <3>4. [y EXCEPT !.cell[v].text = text] = k
      BY <1>2, <3>2
    <3>5. [q EXCEPT !.heap.cell[v].text = text] = [heap |-> [y EXCEPT !.cell[v].text = text], ok |-> r.ok]
      <4> HIDE DEF q, y, k
      <4> QED BY <3>3
    <3>6. s = [q EXCEPT !.heap.cell[v].text = text]
      BY <3>1
    <3> QED BY <3>4, <3>5, <3>6
  <2> HIDE DEF d, c, s
  <2>3. k \in Heaps /\ k.cell = d /\ k.pools = h.pools /\ k.capacity = h.capacity /\ k.free = h.free
        /\ k.lost = h.lost /\ k.refs = r.heap.refs /\ k.overflowed = r.heap.overflowed
    BY <1>1, <2>1 DEF Heaps
  <2> HIDE DEF k
  <2>4. Writes(h, k, v, c)
    BY <1>1, <1>3, <1>4, <2>3 DEF Writes, d
  <2>5. s.heap = k /\ s.ok = r.ok /\ s = [heap |-> s.heap, ok |-> s.ok]
    BY <2>2
  <2>6. StringSet(h, s, v, type, text)
    BY <1>1, <1>4, <2>4, <2>5 DEF StringSet, c
  <2> QED BY <1>3, <2>6 DEF Content, c, s, r
<1>5. CASE ~r.ok
  <2>1. s = r
    BY <1>5 DEF Stored
  <2>2. Grows(h, r.heap) /\ SamePools(h, r.heap) /\ r.heap.overflowed
    BY <1>1, <1>5, SameHeap DEF SamePools, SameBut
  <2> HIDE DEF c, s
  <2> QED BY <1>1, <1>3, <1>5, <2>1, <2>2 DEF Content, StringSet, c, s, r
<1> QED BY <1>4, <1>5

\* A short string is kept in the variant, another one in the pool.
LEMMA setStringOK ==
  ASSUME NEW h \in Heaps, NEW v \in Ids, NEW text \in Texts \cup TinyTexts
  PROVE  LET type == IF text \in TinyTexts THEN "TinyString" ELSE "OwnedString"
         IN /\ Content([h.cell[v] EXCEPT !.type = type, !.text = text])
            /\ StringSet(h, setString(h, v, text), v, type, text)
<1>1. CASE text \notin TinyTexts
  <2>1. text \in Texts /\ "OwnedString" \in InPool
    BY <1>1 DEF InPool
  <2>2. setString(h, v, text) = Stored(saveString(h, text), v, "OwnedString", text)
    BY <1>1 DEF setString
  <2> QED BY <1>1, <2>1, <2>2, StoredOK
<1>2. CASE text \in TinyTexts
  <2> DEFINE c == [h.cell[v] EXCEPT !.type = "TinyString", !.text = text]
             d == [h.cell EXCEPT ![v] = c]
             k == [h EXCEPT !.cell = d]
             r == setString(h, v, text)
  <2>1. h.cell \in [Ids -> Cells] /\ h.cell[v] \in Cells
    BY HeapParts
  <2>2. c \in Cells /\ c.type = "TinyString" /\ "TinyString" \notin InPool
    BY <1>2, <2>1 DEF Cells, VariantTypes, InPool
  <2>3. r = [heap |-> k, ok |-> TRUE]
    BY <1>2, <2>1 DEF setString, Stored
  <2> HIDE DEF c
  <2>4. Writes(h, k, v, c)
    BY <2>2, CellWrites
  <2> HIDE DEF k, r
  <2>5. r.heap = k /\ r.ok = TRUE /\ r = [heap |-> r.heap, ok |-> r.ok]
    BY <2>3
  <2> QED BY <1>2, <2>2, <2>4, <2>5 DEF Content, StringSet, c, r
<1> QED BY <1>1, <1>2

\* A raw string is always kept in the pool.
LEMMA setRawStringOK ==
  ASSUME NEW h \in Heaps, NEW v \in Ids, NEW text \in Texts
  PROVE  /\ Content([h.cell[v] EXCEPT !.type = "RawString", !.text = text])
         /\ StringSet(h, setRawString(h, v, text), v, "RawString", text)
BY StoredOK DEF setRawString, InPool

\* Setting a string keeps a heap in order.
LEMMA StringSetGrows ==
  ASSUME NEW h \in Heaps, NEW v \in Ids, NEW type, NEW text, NEW r,
         Content([h.cell[v] EXCEPT !.type = type, !.text = text]), StringSet(h, r, v, type, text)
  PROVE  Grows(h, r.heap)
<1> DEFINE c == [h.cell[v] EXCEPT !.type = type, !.text = text]
<1>1. Content(c) /\ (r.ok => Writes(h, r.heap, v, c)) /\ (~r.ok => Grows(h, r.heap))
  BY DEF StringSet
<1> HIDE DEF c
<1> QED BY <1>1, WritesOK

\* A number that needs an extension.
WideSet(h, r, v) ==
  LET a == allocExtension(h)
  IN /\ r = [heap |-> r.heap, ok |-> r.ok] /\ r.ok = (a.id # NullSlot)
     /\ IF r.ok THEN Writes(a.heap, r.heap, v, [a.heap.cell[v] EXCEPT !.type = "Wide", !.head = a.id])
        ELSE r.heap = a.heap

\* setWide() asks for an extension and writes its number, or nothing.
LEMMA setWideOK ==
  ASSUME NEW h \in Heaps, NEW v \in Ids
  PROVE  LET a == allocExtension(h)
             r == setWide(h, v)
         IN /\ Grows(h, r.heap) /\ WideSet(h, r, v)
            /\ r.ok => Content([a.heap.cell[v] EXCEPT !.type = "Wide", !.head = a.id])
<1> DEFINE a == allocExtension(h)
           r == setWide(h, v)
           c == [a.heap.cell[v] EXCEPT !.type = "Wide", !.head = a.id]
           d == [a.heap.cell EXCEPT ![v] = c]
           k == [a.heap EXCEPT !.cell = d]
<1>1. Grows(h, a.heap) /\ a.id \in Links /\ a.heap \in Heaps
  BY FilledOK, CellTypes DEF allocExtension, Grows, InPool
<1>2. r = Extended(a, v)
  BY DEF setWide
<1> HIDE DEF a, r
<1>3. CASE a.id = NullSlot
  <2>1. r.heap = a.heap /\ r.ok = FALSE /\ r = [heap |-> r.heap, ok |-> r.ok]
    BY <1>2, <1>3 DEF Extended
  <2> QED BY <1>1, <1>3, <2>1 DEF WideSet, a, r
<1>4. CASE a.id # NullSlot
  <2>1. a.heap.cell \in [Ids -> Cells] /\ a.heap.cell[v] \in Cells
    BY <1>1, HeapParts
  <2>2. c \in Cells /\ c.type = "Wide" /\ "Wide" \notin InPool
    BY <1>1, <2>1 DEF Cells, VariantTypes, InPool
  <2>3. r = [heap |-> k, ok |-> TRUE]
    BY <1>2, <1>4, <2>1 DEF Extended
  <2>4. Writes(a.heap, k, v, c)
    <3> HIDE DEF c
    <3> QED BY <1>1, <2>2, CellWrites
  <2> HIDE DEF c, d, k
  <2>5. r.heap = k /\ r.ok = TRUE /\ r = [heap |-> r.heap, ok |-> r.ok]
    BY <2>3
  <2>6. Content(c)
    BY <2>2 DEF Content
  <2>7. Grows(h, k)
    BY <1>1, <2>4, <2>6, WritesOK, GrowsOn
  <2> QED BY <1>4, <2>4, <2>5, <2>6, <2>7 DEF WideSet, a, r, c
<1> QED BY <1>3, <1>4

-----------------------------------------------------------------------------
(***************************************************************************)
(* Values.                                                                 *)
(***************************************************************************)
\* Values that hold those of S.
Nested(S) ==
  S \cup [type : {"Array"}, text : {NoText}, items : Items({NoText}, S)]
    \cup [type : {"Object"}, text : {NoText}, items : Items(Texts \cup TinyTexts, S)]

\* The values by their nesting.
LEMMA TreesAre ==
  /\ TreesOf[0] = Scalars
  /\ \A n \in 1..MaxNesting : TreesOf[n] = Nested(TreesOf[n - 1])
<1> DEFINE Solves(f, k) == f = [n \in 0..k |-> IF n = 0 THEN Scalars ELSE Nested(f[n - 1])]
           T == {k \in Nat : \E f : Solves(f, k)}
<1>1. 0 \in T
  <2>1. Solves([n \in 0..0 |-> Scalars], 0)
    OBVIOUS
  <2> HIDE DEF Solves
  <2> QED BY <2>1
<1>2. ASSUME NEW k \in Nat, k \in T PROVE k + 1 \in T
  <2>1. PICK f : Solves(f, k)
    BY <1>2
  <2> DEFINE g == [n \in 0..(k + 1) |-> IF n = 0 THEN Scalars ELSE Nested(f[n - 1])]
  <2>2. ASSUME NEW n \in 0..k PROVE g[n] = f[n]
    BY <2>1
  <2>3. ASSUME NEW n \in 0..(k + 1), n # 0 PROVE n - 1 \in 0..k
    BY <2>3
  <2>4. \A n \in 0..(k + 1) : g[n] = IF n = 0 THEN Scalars ELSE Nested(g[n - 1])
    <3> TAKE n \in 0..(k + 1)
    <3>1. CASE n = 0
      BY <3>1
    <3>2. CASE n # 0
      <4>1. g[n - 1] = f[n - 1]
        BY <2>2, <2>3, <3>2
      <4> QED BY <3>2, <4>1
    <3> QED BY <3>1, <3>2
  <2>5. Solves(g, k + 1)
    <3>1. g = [n \in 0..(k + 1) |-> g[n]]
      OBVIOUS
    <3> HIDE DEF g
    <3> QED BY <2>4, <3>1
  <2> HIDE DEF g, Solves
  <2> QED BY <2>5
<1>3. \E f : Solves(f, MaxNesting)
  <2>1. \A k \in Nat : k \in T
    <3> HIDE DEF T
    <3> QED BY <1>1, <1>2, Induction
  <2> QED BY <2>1, NestingAssumption
<1> DEFINE F == CHOOSE f : Solves(f, MaxNesting)
<1>4. Solves(F, MaxNesting)
  BY <1>3
<1>5. TreesOf = F
  BY DEF TreesOf, Nested
<1> HIDE DEF F
<1>6. \A n \in 0..MaxNesting : F[n] = IF n = 0 THEN Scalars ELSE Nested(F[n - 1])
  BY <1>4
<1>7. 0 \in 0..MaxNesting /\ \A n \in 1..MaxNesting : n \in 0..MaxNesting /\ n # 0
  BY NestingAssumption
<1> QED BY <1>5, <1>6, <1>7

\* What a value is made of, whatever its nesting.
Fits(tree, S) ==
  /\ tree.type \in Collections \cup {"Null", "Inline", "Wide", "String", "Raw"}
  /\ tree.type = "String" => tree.text \in Texts \cup TinyTexts
  /\ tree.type = "Raw" => tree.text \in Texts
  /\ tree.type = "Array" => tree.items \in Items({NoText}, S)
  /\ tree.type = "Object" => tree.items \in Items(Texts \cup TinyTexts, S)
\* A value, made of values.
TreeOK(tree) == tree \in Trees /\ Fits(tree, Trees)

\* What a collection holds are values again, for every nesting.
LEMMA TreesOK == \A tree \in Trees : TreeOK(tree)
<1> DEFINE T == {n \in Nat : n <= MaxNesting => \A tree \in TreesOf[n] : Fits(tree, TreesOf[n])}
<1>1. ASSUME NEW S, NEW tree \in Scalars PROVE Fits(tree, S)
  BY DEF Scalars, Leaf, Fits
<1>2. 0 \in T
  BY <1>1, TreesAre
<1>3. ASSUME NEW S, NEW R, S \subseteq R, NEW keys PROVE Items(keys, S) \subseteq Items(keys, R)
  <2>1. [key : keys, value : S] \subseteq [key : keys, value : R]
    BY <1>3
  <2> DEFINE A == [key : keys, value : S]
             B == [key : keys, value : R]
  <2> HIDE DEF A, B
  <2>2. Seq(A) \subseteq Seq(B)
    <3>1. A \subseteq B
      BY <2>1 DEF A, B
    <3> QED BY <3>1
  <2> QED BY <2>2 DEF Items, A, B
<1>4. ASSUME NEW n \in Nat, n \in T PROVE n + 1 \in T
  <2> SUFFICES ASSUME n + 1 <= MaxNesting, NEW tree \in TreesOf[n + 1] PROVE Fits(tree, TreesOf[n + 1])
    OBVIOUS
  <2> DEFINE S == TreesOf[n]
             R == TreesOf[n + 1]
  <2>1. n + 1 \in 1..MaxNesting /\ (n + 1) - 1 = n /\ n <= MaxNesting
    BY NestingAssumption
  <2>2. R = Nested(S) /\ \A t \in S : Fits(t, S)
    <3>1. R = Nested(S)
      BY <2>1, TreesAre
    <3>2. \A t \in S : Fits(t, S)
      BY <1>4, <2>1
    <3> QED BY <3>1, <3>2
  <2>3. tree \in R
    OBVIOUS
  <2> HIDE DEF S, R
  <2>4. S \subseteq R
    BY <2>2 DEF Nested
  <2>5. Fits(tree, R)
    <3>1. CASE tree \in S
      <4>1. Fits(tree, S)
        BY <2>2, <3>1
      <4>2. \A keys : Items(keys, S) \subseteq Items(keys, R)
        BY <1>3, <2>4
      <4> QED BY <4>1, <4>2 DEF Fits
    <3>2. CASE tree \in [type : {"Array"}, text : {NoText}, items : Items({NoText}, S)]
      <4>1. tree.type = "Array" /\ tree.items \in Items({NoText}, S)
        BY <3>2
      <4>2. tree.items \in Items({NoText}, R)
        BY <4>1, <1>3, <2>4
      <4> QED BY <4>1, <4>2 DEF Collections, Fits
    <3>3. CASE tree \in [type : {"Object"}, text : {NoText}, items : Items(Texts \cup TinyTexts, S)]
      <4>1. tree.type = "Object" /\ tree.items \in Items(Texts \cup TinyTexts, S)
        BY <3>3
      <4>2. tree.items \in Items(Texts \cup TinyTexts, R)
        BY <4>1, <1>3, <2>4
      <4> QED BY <4>1, <4>2 DEF Collections, Fits
    <3> QED BY <2>2, <2>3, <3>1, <3>2, <3>3 DEF Nested
  <2> QED BY <2>5 DEF R
<1>5. MaxNesting \in T
  <2>1. \A n \in Nat : n \in T
    <3> HIDE DEF T
    <3> QED BY <1>2, <1>4, Induction
  <2> QED BY <2>1, NestingAssumption
<1>6. \A tree \in Trees : Fits(tree, Trees)
  BY <1>5, NestingAssumption DEF Trees
<1> QED BY <1>6 DEF TreeOK, Trees

LEMMA LeavesAreTrees == Scalars \subseteq Trees
<1> DEFINE T == {n \in Nat : n <= MaxNesting => Scalars \subseteq TreesOf[n]}
<1>1. 0 \in T
  BY TreesAre
<1>2. ASSUME NEW n \in Nat, n \in T PROVE n + 1 \in T
  <2> SUFFICES ASSUME n + 1 <= MaxNesting PROVE Scalars \subseteq TreesOf[n + 1]
    OBVIOUS
  <2>1. n + 1 \in 1..MaxNesting /\ (n + 1) - 1 = n /\ n <= MaxNesting
    BY NestingAssumption
  <2>2. TreesOf[n + 1] = Nested(TreesOf[n]) /\ Scalars \subseteq TreesOf[n]
    BY <1>2, <2>1, TreesAre
  <2> QED BY <2>2 DEF Nested
<1>3. \A n \in Nat : n \in T
  <2> HIDE DEF T
  <2> QED BY <1>1, <1>2, Induction
<1> QED BY <1>3, NestingAssumption DEF Trees

LEMMA TypedGrows ==
  ASSUME NEW h \in Heaps, NEW v \in Ids, NEW type \in VariantTypes \ InPool
  PROVE  Grows(h, Typed(h, v, type))
<1> DEFINE c == [h.cell[v] EXCEPT !.type = type]
<1>1. Content(c) /\ Writes(h, Typed(h, v, type), v, c)
  BY TypedOK
<1> HIDE DEF c
<1> QED BY <1>1, WritesOK

\* Whatever is set keeps a heap in order.
LEMMA SetClearedGrows ==
  ASSUME NEW h \in Heaps, NEW v \in Ids, NEW value, TreeOK(value)
  PROVE  Grows(h, SetCleared(h, v, value).heap)
<1>1. CASE value.type = "Wide"
  <2>1. SetCleared(h, v, value) = setWide(h, v)
    BY <1>1 DEF SetCleared
  <2> QED BY <2>1, setWideOK
<1>2. CASE value.type = "String"
  <2>1. SetCleared(h, v, value) = setString(h, v, value.text) /\ value.text \in Texts \cup TinyTexts
    BY <1>2 DEF SetCleared, TreeOK, Fits
  <2> QED BY <2>1, setStringOK, StringSetGrows
<1>3. CASE value.type = "Raw"
  <2>1. SetCleared(h, v, value) = setRawString(h, v, value.text) /\ value.text \in Texts
    BY <1>3 DEF SetCleared, TreeOK, Fits
  <2> QED BY <2>1, setRawStringOK, StringSetGrows
<1>4. CASE value.type \notin {"Wide", "String", "Raw"}
  <2>1. SetCleared(h, v, value).heap = Typed(h, v, value.type)
    BY <1>4 DEF SetCleared
  <2>2. value.type \in VariantTypes \ InPool
    BY <1>4 DEF TreeOK, Fits, VariantTypes, InPool, Collections
  <2> QED BY <2>1, <2>2, TypedGrows
<1> QED BY <1>1, <1>2, <1>3, <1>4

LEMMA SetHeap ==
  ASSUME NEW h, NEW v, NEW value
  PROVE  Set(h, v, value).heap = SetCleared(Clear(h, v), v, value).heap
BY DEF Set, Answer, SetCleared, setWide, Extended, setString, setRawString, Stored, saveString

LEMMA SetGrows ==
  ASSUME NEW h \in Heaps, NEW v \in Ids, NEW value, TreeOK(value)
  PROVE  Grows(h, Set(h, v, value).heap)
<1>1. Clear(h, v) \in Heaps /\ Grows(h, Clear(h, v))
  BY ClearOK DEF Grows
<1>2. Grows(Clear(h, v), SetCleared(Clear(h, v), v, value).heap)
  BY <1>1, SetClearedGrows
<1> QED BY <1>1, <1>2, SetHeap, GrowsOn

-----------------------------------------------------------------------------
(***************************************************************************)
(* Collections.                                                            *)
(***************************************************************************)
\* Other links between the same contents.
Relinked(h, k) ==
  /\ Grows(h, k) /\ Balanced(h, k) /\ k.pools = h.pools /\ k.free = h.free /\ k.refs = h.refs
  /\ k.lost = h.lost /\ k.overflowed = h.overflowed

\* Links are changed, contents are not.
LEMMA Relinks ==
  ASSUME NEW h \in Heaps, NEW d \in [Ids -> Cells],
         \A x \in Ids : d[x].type = h.cell[x].type /\ d[x].text = h.cell[x].text
  PROVE  Relinked(h, [h EXCEPT !.cell = d]) /\ [h EXCEPT !.cell = d].cell = d
<1> DEFINE k == [h EXCEPT !.cell = d]
<1>1. k \in Heaps /\ k.pools = h.pools /\ k.free = h.free /\ k.refs = h.refs
      /\ k.lost = h.lost /\ k.capacity = h.capacity /\ k.cell = d /\ k.overflowed = h.overflowed
  BY DEF Heaps
<1> HIDE DEF k
<1>2. \A t : Strings(k, t) = Strings(h, t)
  BY <1>1 DEF Strings, Holders
<1>3. Len(h.pools) \in Nat
  BY HeapParts
<1> QED BY <1>1, <1>2, <1>3 DEF Relinked, Balanced, Grows, Counted, k

\* The cells after a chain has got one more slot, or two that are linked already.
LinkCells(cell, c, first, last) ==
  IF cell[c].tail # NullSlot
  THEN LET d == [cell EXCEPT ![cell[c].tail] = [@ EXCEPT !.next = first]]
       IN [d EXCEPT ![c] = [@ EXCEPT !.tail = last]]
  ELSE [cell EXCEPT ![c] = [@ EXCEPT !.head = first, !.tail = last]]

\* What Link() does to the cells.
LEMMA LinkOK ==
  ASSUME NEW h \in Heaps, NEW c \in Ids, NEW first \in Links, NEW last \in Links
  PROVE  LET k == Link(h, c, first, last)
         IN Relinked(h, k) /\ k.cell = LinkCells(h.cell, c, first, last)
<1> DEFINE t == h.cell[c].tail
           d == LinkCells(h.cell, c, first, last)
<1>1. h.cell \in [Ids -> Cells] /\ t \in Links /\ (t # NullSlot => t \in Ids)
  BY HeapParts, CellParts, Constants
<1>2. \A x \in Cells : /\ [x EXCEPT !.next = first] \in Cells
                       /\ [x EXCEPT !.tail = last] \in Cells
                       /\ [x EXCEPT !.head = first, !.tail = last] \in Cells
  BY DEF Cells
<1>3. d \in [Ids -> Cells] /\ \A x \in Ids : d[x].type = h.cell[x].type /\ d[x].text = h.cell[x].text
  <2>1. CASE t # NullSlot
    <3> DEFINE e == [h.cell EXCEPT ![t] = [@ EXCEPT !.next = first]]
               f == [e EXCEPT ![c] = [@ EXCEPT !.tail = last]]
    <3>1. e \in [Ids -> Cells] /\ \A x \in Ids : e[x].type = h.cell[x].type /\ e[x].text = h.cell[x].text
      <4>1. h.cell[t] \in Cells
        BY <1>1, <2>1
      <4> QED BY <1>1, <1>2, <2>1, <4>1 DEF Cells
    <3> HIDE DEF e
    <3>2. f \in [Ids -> Cells] /\ \A x \in Ids : f[x].type = e[x].type /\ f[x].text = e[x].text
      <4>1. e[c] \in Cells
        BY <3>1
      <4> QED BY <1>2, <3>1, <4>1 DEF Cells
    <3>3. d = f
      BY <2>1 DEF LinkCells, e
    <3> QED BY <3>1, <3>2, <3>3
  <2>2. CASE t = NullSlot
    <3>1. d = [h.cell EXCEPT ![c] = [@ EXCEPT !.head = first, !.tail = last]]
      BY <2>2 DEF LinkCells
    <3> DEFINE e == [h.cell[c] EXCEPT !.head = first, !.tail = last]
    <3>2. e \in Cells /\ e.type = h.cell[c].type /\ e.text = h.cell[c].text
      <4>1. h.cell[c] \in Cells
        BY <1>1
      <4> QED BY <4>1 DEF Cells
    <3>3. d = [h.cell EXCEPT ![c] = e]
      BY <3>1
    <3> HIDE DEF e, d
    <3> QED BY <1>1, <3>2, <3>3
  <2> QED BY <2>1, <2>2
<1>4. Link(h, c, first, last) = [h EXCEPT !.cell = d]
  BY <1>1 DEF Link, LinkCells
<1> HIDE DEF d
<1> QED BY <1>3, <1>4, Relinks DEF d

\* One change of the links after the other.
LEMMA RelinkedOn ==
  ASSUME NEW h \in Heaps, NEW k, NEW m, Relinked(h, k), Relinked(k, m)
  PROVE  Relinked(h, m)
BY GrowsOn, BalancedOn DEF Relinked

\* appendOne() links one slot.
LEMMA appendOneOK ==
  ASSUME NEW h \in Heaps, NEW c \in Ids, NEW id \in Slots
  PROVE  LET k == appendOne(h, c, id)
         IN Relinked(h, k) /\ k.cell = LinkCells(h.cell, c, id, id)
BY LinkOK, Constants DEF appendOne

\* The cells after a key and its value are linked.
PairCells(cell, c, key, value) ==
  LinkCells([cell EXCEPT ![key] = [@ EXCEPT !.next = value]], c, key, value)

\* appendPair() links two slots.
LEMMA appendPairOK ==
  ASSUME NEW h \in Heaps, NEW c \in Ids, NEW key \in Slots, NEW value \in Slots
  PROVE  LET k == appendPair(h, c, key, value)
         IN Relinked(h, k) /\ k.cell = PairCells(h.cell, c, key, value)
<1> DEFINE d == [h.cell EXCEPT ![key] = [@ EXCEPT !.next = value]]
           g == [h EXCEPT !.cell = d]
<1>1. h.cell \in [Ids -> Cells] /\ key \in Ids /\ h.cell[key] \in Cells /\ value \in Links /\ key \in Links
  BY HeapParts, Constants
<1>2. d \in [Ids -> Cells] /\ \A x \in Ids : d[x].type = h.cell[x].type /\ d[x].text = h.cell[x].text
  BY <1>1 DEF Cells
<1>3. appendPair(h, c, key, value) = Link(g, c, key, value)
  BY <1>1 DEF appendPair
<1> HIDE DEF d
<1>4. Relinked(h, g) /\ g.cell = d
  BY <1>2, Relinks
<1> HIDE DEF g
<1>5. g \in Heaps
  BY <1>4 DEF Relinked, Grows
<1>6. Relinked(g, Link(g, c, key, value)) /\ Link(g, c, key, value).cell = LinkCells(g.cell, c, key, value)
  BY <1>1, <1>5, LinkOK
<1> QED BY <1>3, <1>4, <1>6, RelinkedOn DEF PairCells, d

\* freeSlot() puts a slot in front of the free ones.
LEMMA freeSlotOK ==
  ASSUME NEW h \in Heaps, NEW id \in Slots
  PROVE  LET k == freeSlot(h, id)
         IN /\ Grows(h, k) /\ k.pools = h.pools /\ k.refs = h.refs /\ k.lost = h.lost
            /\ k.free = <<id>> \o h.free /\ k.cell = [h.cell EXCEPT ![id] = Vacant]
            /\ h.cell[id].type \notin InPool => Balanced(h, k)
<1> DEFINE d == [h.cell EXCEPT ![id] = Vacant]
           f == <<id>> \o h.free
           g == [h EXCEPT !.cell = d]
           k == [h EXCEPT !.free = f, !.cell = d]
<1>1. h.cell \in [Ids -> Cells] /\ h.free \in Seq(Slots) /\ id \in Ids
  BY HeapParts, Constants
<1>2. d \in [Ids -> Cells] /\ f \in Seq(Slots)
  BY <1>1, CellTypes
<1>3. Vacant \in Cells /\ Vacant.type \notin InPool
  BY CellTypes DEF InPool
<1>4. Writes(h, g, id, Vacant) /\ Content(Vacant)
  BY <1>1, <1>3, CellWrites DEF Content
<1> HIDE DEF d, f
<1>5. g \in Heaps /\ g.cell = d /\ g.pools = h.pools /\ g.refs = h.refs /\ g.lost = h.lost
      /\ g.capacity = h.capacity /\ g.overflowed = h.overflowed
  BY <1>2 DEF Heaps
<1>6. k \in Heaps /\ k.cell = d /\ k.pools = h.pools /\ k.refs = h.refs /\ k.lost = h.lost
      /\ k.capacity = h.capacity /\ k.free = f /\ k.overflowed = h.overflowed
  BY <1>2 DEF Heaps
<1>7. freeSlot(h, id) = k
  BY DEF freeSlot, f, d
<1> HIDE DEF g, k
<1>8. Grows(h, g)
  BY <1>1, <1>4, WritesOK
<1>9. Grows(h, k)
  BY <1>5, <1>6, <1>8, SameHeap, GrowsOn
<1>10. h.cell[id].type \notin InPool => Balanced(h, k)
  <2> SUFFICES ASSUME h.cell[id].type \notin InPool PROVE Balanced(h, k)
    OBVIOUS
  <2>1. \A x \in Ids : k.cell[x] = h.cell[x]
                       \/ (k.cell[x].type \notin InPool /\ h.cell[x].type \notin InPool)
    BY <1>1, <1>3, <1>6 DEF d
  <2> QED BY <1>6, <2>1, SameBalance
<1> QED BY <1>6, <1>7, <1>9, <1>10 DEF d, f

LEMMA freeVariantGrows ==
  ASSUME NEW h \in Heaps, NEW id \in Slots
  PROVE  Grows(h, freeVariant(h, id))
<1>1. id \in Ids
  BY Constants
<1>2. Grows(h, Clear(h, id)) /\ Clear(h, id) \in Heaps
  BY <1>1, ClearOK DEF Grows
<1>3. Grows(Clear(h, id), freeSlot(Clear(h, id), id))
  BY <1>2, freeSlotOK
<1> QED BY <1>2, <1>3, GrowsOn DEF freeVariant

\* The results of operations that give an id, or NullSlot.
Results == [heap : Heaps, id : Links \cup Ids]

LEMMA allocVariantGrows ==
  ASSUME NEW h \in Heaps
  PROVE  LET r == allocVariant(h)
         IN /\ r \in Results /\ Grows(h, r.heap) /\ r.id \in Links /\ (r.id # NullSlot => r.id \in Slots)
            /\ r.id = NullSlot => r.heap.overflowed
<1> DEFINE r == allocVariant(h)
<1>1. Grows(h, r.heap) /\ r.id \in Links /\ (r.id = NullSlot => r.heap.overflowed)
  BY FilledOK, CellTypes DEF allocVariant, InPool
<1>2. r = [heap |-> r.heap, id |-> r.id]
  BY DEF allocVariant, Filled, allocSlot, FromPool, allocFromLastPool
<1> HIDE DEF r
<1>3. r \in Results /\ (r.id # NullSlot => r.id \in Slots)
  BY <1>1, <1>2, Constants DEF Results, Grows
<1> QED BY <1>1, <1>3 DEF r

\* addElement() asks for a slot and links it.
LEMMA addElementGrows ==
  ASSUME NEW h \in Heaps, NEW c \in Ids
  PROVE  LET r == addElement(h, c)
         IN r \in Results /\ Grows(h, r.heap) /\ r.id \in Links /\ r.id = allocVariant(h).id
            /\ (r.id # NullSlot => r.heap = appendOne(allocVariant(h).heap, c, r.id))
            /\ (r.id = NullSlot => r.heap = allocVariant(h).heap)
<1> DEFINE a == allocVariant(h)
           r == addElement(h, c)
           k == appendOne(a.heap, c, a.id)
<1>1. a \in Results /\ Grows(h, a.heap) /\ a.id \in Links /\ (a.id # NullSlot => a.id \in Slots)
  BY allocVariantGrows
<1>2. r = IF a.id = NullSlot THEN a ELSE [heap |-> k, id |-> a.id]
  BY DEF addElement, IfGiven
<1> HIDE DEF a, r, k
<1>3. CASE a.id = NullSlot
  BY <1>1, <1>2, <1>3 DEF r, a
<1>4. CASE a.id # NullSlot
  <2>1. a.heap \in Heaps
    BY <1>1 DEF Grows
  <2>2. Grows(a.heap, k) /\ k \in Heaps
    BY <1>1, <1>4, <2>1, appendOneOK DEF k, Relinked, Grows
  <2>3. r.heap = k /\ r.id = a.id /\ r \in Results
    BY <1>1, <1>2, <1>4, <2>2 DEF Results
  <2>4. Grows(h, k)
    BY <1>1, <2>2, GrowsOn
  <2> QED BY <1>1, <1>4, <2>3, <2>4 DEF r, a, k
<1> QED BY <1>3, <1>4

\* Elements are added one after the other.
IsAdded(a, h, c, n) ==
  /\ a \in [0..n -> Results] /\ a[0] = [heap |-> h, id |-> c]
  /\ \A k \in 1..n : a[k] = IF a[k - 1].id = NullSlot THEN a[k - 1] ELSE addElement(a[k - 1].heap, c)

\* The model's additions are such a function's last value.
LEMMA AddElementsIs ==
  ASSUME NEW h \in Heaps, NEW c \in Ids, NEW n \in Nat
  PROVE  \E a : IsAdded(a, h, c, n) /\ AddElements(h, c, n) = a[n]
<1> DEFINE Next1(r) == IF r.id = NullSlot THEN r ELSE addElement(r.heap, c)
           Solves(a) == a = [k \in 0..n |-> IF k = 0 THEN [heap |-> h, id |-> c] ELSE Next1(a[k - 1])]
           added == CHOOSE a : Solves(a)
           first == [heap |-> h, id |-> c]
           V == Results
           op == [k \in 1..n |-> [r \in V |-> Next1(r)]]
<1>1. AddElements(h, c, n) = added[n]
  BY DEF AddElements, IfGiven
<1>2. \A r \in V : Next1(r) \in V
  BY addElementGrows DEF Results
<1>3. first \in V
  BY Constants DEF Results
<1> HIDE DEF Next1
<1>4. op \in [1..n -> [V -> V]]
  BY <1>2
<1>5. PICK a : a \in [0..n -> V] /\ a[0] = first /\ \A i \in 1..n : a[i] = op[i][a[i - 1]]
  <2> HIDE DEF op, V, first
  <2>1. IsSteps(op, n, V)
    BY <1>4 DEF IsSteps
  <2>2. \E a : IsLine(a, n, V, first, op)
    BY ONLY <1>3, <2>1, n \in Nat, Carries, Zenon
  <2> QED BY <2>2 DEF IsLine
<1>6. Solves(a)
  <2>1. ASSUME NEW k \in 0..n PROVE a[k] = IF k = 0 THEN first ELSE Next1(a[k - 1])
    <3>1. CASE k = 0
      BY <1>5, <3>1
    <3>2. CASE k # 0
      <4>1. k \in 1..n /\ k - 1 \in 0..n
        BY <3>2
      <4>2. a[k - 1] \in V
        BY <1>5, <4>1
      <4>3. a[k] = Next1(a[k - 1])
        <5> HIDE DEF V, first
        <5> QED BY <1>5, <4>1, <4>2
      <4> QED BY <3>2, <4>3
    <3> QED BY <3>1, <3>2
  <2>2. a = [k \in 0..n |-> a[k]]
    BY <1>5
  <2> HIDE DEF first
  <2>3. a = [k \in 0..n |-> IF k = 0 THEN first ELSE Next1(a[k - 1])]
    BY <2>1, <2>2
  <2> QED BY <2>3 DEF first
<1>7. Solves(added)
  BY <1>6
<1> HIDE DEF added
<1>8. added = [k \in 0..n |-> added[k]] /\ added[0] = first /\ \A k \in 1..n : added[k] = Next1(added[k - 1])
  <2>1. \A k \in 0..n : added[k] = IF k = 0 THEN first ELSE Next1(added[k - 1])
    BY <1>7
  <2>2. 0 \in 0..n /\ \A k \in 1..n : k \in 0..n /\ k # 0
    OBVIOUS
  <2>3. added = [k \in 0..n |-> added[k]]
    BY <1>7
  <2> HIDE DEF first
  <2> QED BY <2>1, <2>2, <2>3
<1>9. added \in [0..n -> V]
  <2>1. added[0] \in V
    BY <1>3, <1>8
  <2>2. ASSUME NEW k \in 1..n, added[k - 1] \in V PROVE added[k] \in V
    BY <1>2, <1>8, <2>2
  <2> HIDE DEF V
  <2> QED BY <1>8, <2>1, <2>2, StaysIn
<1> QED BY <1>1, <1>8, <1>9 DEF IsAdded, Next1

\* Any number of additions keeps a heap in order.
LEMMA AddElementsGrows ==
  ASSUME NEW h \in Heaps, NEW c \in Ids, NEW n \in Nat, NEW a, IsAdded(a, h, c, n)
  PROVE  \A k \in 0..n : /\ a[k] \in Results /\ Grows(h, a[k].heap) /\ Grows(a[k].heap, a[n].heap)
                         /\ k # 0 => a[k].id \in Links
<1> DEFINE Next1(r) == IF r.id = NullSlot THEN r ELSE addElement(r.heap, c)
<1>1. ASSUME NEW r \in Results
      PROVE  Next1(r) \in Results /\ Grows(r.heap, Next1(r).heap) /\ Next1(r).id \in Links
  <2>1. r.heap \in Heaps
    BY DEF Results
  <2>2. CASE r.id = NullSlot
    BY <2>1, <2>2, GrowsNot, Constants
  <2>3. CASE r.id # NullSlot
    BY <2>1, <2>3, addElementGrows
  <2> QED BY <2>2, <2>3
<1>2. a \in [0..n -> Results] /\ a[0] = [heap |-> h, id |-> c] /\ \A k \in 1..n : a[k] = Next1(a[k - 1])
  BY DEF IsAdded
<1> HIDE DEF Next1
<1>3. \A k \in 1..n : a[k - 1] \in Results /\ Grows(a[k - 1].heap, a[k].heap) /\ a[k].id \in Links
  <2> TAKE k \in 1..n
  <2>1. k - 1 \in 0..n
    OBVIOUS
  <2>2. a[k - 1] \in Results /\ a[k] = Next1(a[k - 1])
    BY <1>2, <2>1
  <2> QED BY <1>1, <2>2
<1>4. \A k \in 0..n : a[k] \in Results /\ a[k].heap \in Heaps
  BY <1>2 DEF Results
<1> DEFINE S == {k \in 0..n : Grows(h, a[k].heap)}
<1>5. \A k \in 0..n : k \in S
  <2>1. 0 \in S
    BY <1>2, GrowsNot
  <2>2. ASSUME NEW k \in 0..(n - 1), k \in S PROVE k + 1 \in S
    <3>1. k + 1 \in 1..n /\ (k + 1) - 1 = k /\ k + 1 \in 0..n
      OBVIOUS
    <3>2. Grows(a[k].heap, a[k + 1].heap)
      BY <1>3, <3>1
    <3> QED BY <2>2, <3>1, <3>2, GrowsOn
  <2>3. 0 \in Int /\ n \in Int
    OBVIOUS
  <2> HIDE DEF S
  <2> QED BY <2>1, <2>2, <2>3, InductionFrom
<1> DEFINE R == {i \in 0..n : Grows(a[n - i].heap, a[n].heap)}
<1>6. \A i \in 0..n : i \in R
  <2>1. 0 \in R
    BY <1>4, GrowsNot
  <2>2. ASSUME NEW i \in 0..(n - 1), i \in R PROVE i + 1 \in R
    <3>1. n - i \in 1..n /\ n - (i + 1) = (n - i) - 1 /\ n - (i + 1) \in 0..n /\ i + 1 \in 0..n /\ n - i \in 0..n
      OBVIOUS
    <3>2. Grows(a[n - (i + 1)].heap, a[n - i].heap)
      BY <1>3, <3>1
    <3>3. Grows(a[n - i].heap, a[n].heap)
      BY <2>2
    <3>4. Grows(a[n - (i + 1)].heap, a[n].heap)
      BY <1>4, <3>1, <3>2, <3>3, GrowsOn
    <3> QED BY <3>1, <3>4
  <2>3. 0 \in Int /\ n \in Int
    OBVIOUS
  <2> HIDE DEF R
  <2> QED BY <2>1, <2>2, <2>3, InductionFrom
<1>7. ASSUME NEW k \in 0..n PROVE Grows(a[k].heap, a[n].heap)
  <2>1. n - k \in 0..n /\ n - (n - k) = k
    OBVIOUS
  <2> QED BY <1>6, <2>1
<1>8. ASSUME NEW k \in 0..n, k # 0 PROVE a[k].id \in Links
  <2>1. k \in 1..n
    BY <1>8
  <2> QED BY <1>3, <2>1
<1> QED BY <1>4, <1>5, <1>7, <1>8

LEMMA getOrAddElementGrows ==
  ASSUME NEW h \in Heaps, NEW c \in Ids, NEW index \in Nat
  PROVE  LET r == getOrAddElement(h, c, index) IN r \in Results /\ Grows(h, r.heap) /\ r.id \in Links
<1> DEFINE s == Elements(h, c)
           r == getOrAddElement(h, c, index)
<1>1. s \in Seq(Slots) /\ Len(s) \in Nat
  BY UnderTypes DEF Elements
<1>2. CASE index < Len(s)
  <2>1. r = [heap |-> h, id |-> s[index + 1]]
    BY <1>2 DEF getOrAddElement
  <2>2. s[index + 1] \in Slots
    <3> HIDE DEF s
    <3> QED BY <1>1, <1>2
  <2> HIDE DEF s
  <2> QED BY <2>1, <2>2, Constants, GrowsNot DEF Results
<1>3. CASE ~(index < Len(s))
  <2> DEFINE n == index + 1 - Len(s)
  <2>1. n \in Nat /\ n # 0 /\ n \in 0..n
    BY <1>1, <1>3
  <2>2. r = AddElements(h, c, n)
    BY <1>3 DEF getOrAddElement
  <2> HIDE DEF n
  <2>3. PICK a : IsAdded(a, h, c, n) /\ AddElements(h, c, n) = a[n]
    BY <2>1, AddElementsIs
  <2> QED BY <2>1, <2>2, <2>3, AddElementsGrows
<1> QED BY <1>2, <1>3

-----------------------------------------------------------------------------
(***************************************************************************)
(* Members: a key and its value are two slots of the chain.                *)
(***************************************************************************)

\* A copy that failed is freed, another one is linked.
LEMMA LinkedGrows ==
  ASSUME NEW r, r.heap \in Heaps, NEW c \in Ids, NEW id \in Slots
  PROVE  Linked(r, c, id) \in Results /\ Grows(r.heap, Linked(r, c, id).heap) /\ Linked(r, c, id).id \in Links
<1>1. CASE r.ok
  <2>1. Linked(r, c, id) = [heap |-> appendOne(r.heap, c, id), id |-> id]
    BY <1>1 DEF Linked
  <2>2. Grows(r.heap, appendOne(r.heap, c, id))
    BY appendOneOK DEF Relinked
  <2> QED BY <2>1, <2>2, Constants DEF Results, Grows
<1>2. CASE ~r.ok
  <2>1. Linked(r, c, id) = [heap |-> freeVariant(r.heap, id), id |-> NullSlot]
    BY <1>2 DEF Linked
  <2>2. Grows(r.heap, freeVariant(r.heap, id))
    BY freeVariantGrows
  <2> QED BY <2>1, <2>2, Constants DEF Results, Grows
<1> QED BY <1>1, <1>2

\* Slots that nothing refers to any more.
Losing(h, ids) == [h EXCEPT !.lost = @ \cup ids]

LEMMA LosingOK ==
  ASSUME NEW h \in Heaps, NEW ids \in SUBSET Slots, h.overflowed
  PROVE  LET k == Losing(h, ids)
         IN /\ Grows(h, k) /\ Balanced(h, k) /\ k.pools = h.pools /\ k.free = h.free /\ k.refs = h.refs
            /\ k.cell = h.cell /\ k.lost = h.lost \cup ids /\ k.overflowed
<1> DEFINE m == h.lost \cup ids
           k == Losing(h, ids)
<1>1. m \in SUBSET Slots
  BY HeapParts
<1>2. k = [h EXCEPT !.lost = m]
  BY DEF Losing
<1> HIDE DEF m, k
<1>3. k \in Heaps /\ k.pools = h.pools /\ k.free = h.free /\ k.refs = h.refs
      /\ k.capacity = h.capacity /\ k.cell = h.cell /\ k.lost = m /\ k.overflowed = h.overflowed
  BY <1>1, <1>2 DEF Heaps
<1>4. Len(h.pools) \in Nat
  BY HeapParts
<1>5. Grows(h, k) /\ Balanced(h, k)
  BY <1>3, <1>4, SameStrings, SameBalance DEF Grows, Counted
<1> QED BY <1>3, <1>5 DEF m, k

\* A new member: two slots and the key's string, or nothing that is linked.
MemberAdded(h, c, text, r) ==
  LET a == allocVariant(h)
      b == allocVariant(a.heap)
      s == setString(b.heap, a.id, text)
  IN IF a.id = NullSlot THEN r = a
     ELSE IF b.id = NullSlot THEN r = [heap |-> Losing(b.heap, {a.id}), id |-> NullSlot]
     ELSE IF ~s.ok THEN r = [heap |-> Losing(Losing(s.heap, {a.id, b.id}), {a.id}), id |-> NullSlot]
     ELSE r = [heap |-> appendPair(s.heap, c, a.id, b.id), id |-> b.id]

\* addMember() case by case.
LEMMA addMemberIs ==
  ASSUME NEW h \in Heaps, NEW c, NEW text \in Texts \cup TinyTexts
  PROVE  MemberAdded(h, c, text, addMember(h, c, text))
<1> DEFINE a == allocVariant(h)
           b == allocVariant(a.heap)
           s == setString(b.heap, a.id, text)
<1>1. a \in Results /\ a.heap \in Heaps /\ (a.id # NullSlot => a.id \in Slots)
  BY allocVariantGrows DEF Grows
<1>2. b \in Results /\ b.heap \in Heaps /\ (b.id # NullSlot => b.id \in Slots)
  BY <1>1, allocVariantGrows DEF Grows
<1>3. b = [heap |-> b.heap, id |-> b.id]
  BY <1>2 DEF Results
<1>4. addMember(h, c, text) =
        IF a.id = NullSlot THEN a
        ELSE Lose(IF b.id = NullSlot THEN b
                  ELSE LET l == Lose(Named(s, b.id), {a.id, b.id})
                       IN IF l.id = NullSlot THEN l
                          ELSE [heap |-> appendPair(l.heap, c, a.id, l.id), id |-> l.id], {a.id})
  BY DEF addMember, IfGiven
<1> HIDE DEF a, b, s
<1>5. CASE a.id = NullSlot
  BY <1>4, <1>5 DEF MemberAdded, a
<1>6. CASE a.id # NullSlot /\ b.id = NullSlot
  <2>1. addMember(h, c, text) = [heap |-> Losing(b.heap, {a.id}), id |-> NullSlot]
    BY <1>3, <1>4, <1>6 DEF Lose, Losing
  <2> QED BY <1>6, <2>1 DEF MemberAdded, a, b
<1>7. CASE a.id # NullSlot /\ b.id # NullSlot /\ ~s.ok
  <2> DEFINE l == Lose(Named(s, b.id), {a.id, b.id})
  <2>1. l = [heap |-> Losing(s.heap, {a.id, b.id}), id |-> NullSlot]
    BY <1>7 DEF Lose, Losing, Named
  <2>2. addMember(h, c, text) = Lose(l, {a.id})
    BY <1>4, <1>7, <2>1
  <2>3. Lose(l, {a.id}) = [heap |-> Losing(l.heap, {a.id}), id |-> NullSlot]
    <3> HIDE DEF l
    <3> QED BY <2>1 DEF Lose, Losing
  <2> QED BY <1>7, <2>1, <2>2, <2>3 DEF MemberAdded, a, b, s
<1>8. CASE a.id # NullSlot /\ b.id # NullSlot /\ s.ok
  <2> DEFINE l == Lose(Named(s, b.id), {a.id, b.id})
  <2>1. l = [heap |-> s.heap, id |-> b.id]
    BY <1>8 DEF Lose, Named
  <2> DEFINE q == [heap |-> appendPair(s.heap, c, a.id, b.id), id |-> b.id]
  <2>2. addMember(h, c, text) = q
    <3>1. l.id # NullSlot /\ [heap |-> appendPair(l.heap, c, a.id, l.id), id |-> l.id] = q
      BY <1>8, <2>1
    <3>2. addMember(h, c, text) = Lose(q, {a.id})
      <4> HIDE DEF q
      <4> QED  BY <1>4, <1>8, <3>1
    <3>3. q.id # NullSlot
      BY <1>8
    <3> HIDE DEF q
    <3> QED  BY <3>2, <3>3 DEF Lose
  <2> QED BY <1>8, <2>2 DEF MemberAdded, a, b, s
<1> QED BY <1>5, <1>6, <1>7, <1>8

\* What a call that ends with this result leaves is in order.
Sane(h, r) == r \in Results /\ Grows(h, r.heap) /\ r.id \in Links

\* It keeps a heap in order, up to each of its returns.
LEMMA addMemberGrows ==
  ASSUME NEW h \in Heaps, NEW c \in Ids, NEW text \in Texts \cup TinyTexts
  PROVE  /\ Sane(h, addMember(h, c, text))
         /\ LET a == allocVariant(h)
                b == allocVariant(a.heap)
                s == setString(b.heap, a.id, text)
            IN a.id # NullSlot =>
                 /\ Grows(b.heap, addMember(h, c, text).heap)
                 /\ b.id # NullSlot => Grows(s.heap, addMember(h, c, text).heap)
<1> DEFINE a == allocVariant(h)
           b == allocVariant(a.heap)
           s == setString(b.heap, a.id, text)
           r == addMember(h, c, text)
<1>1. a \in Results /\ Grows(h, a.heap) /\ a.heap \in Heaps /\ a.id \in Links /\ (a.id # NullSlot => a.id \in Slots)
  BY allocVariantGrows DEF Grows
<1>2. b \in Results /\ Grows(a.heap, b.heap) /\ b.heap \in Heaps /\ b.id \in Links /\ (b.id # NullSlot => b.id \in Slots)
      /\ (b.id = NullSlot => b.heap.overflowed)
  BY <1>1, allocVariantGrows DEF Grows
<1>3. a.id # NullSlot => Grows(b.heap, s.heap) /\ s.heap \in Heaps /\ (~s.ok => s.heap.overflowed)
  <2> SUFFICES ASSUME a.id # NullSlot
               PROVE  Grows(b.heap, s.heap) /\ s.heap \in Heaps /\ (~s.ok => s.heap.overflowed)
    OBVIOUS
  <2>1. a.id \in Ids
    BY <1>1, Constants
  <2> HIDE DEF a, b
  <2>2. Grows(b.heap, s.heap)
    BY <1>2, <2>1, setStringOK, StringSetGrows
  <2>3. ~s.ok => s.heap.overflowed
    BY <1>2, <2>1, setStringOK DEF StringSet
  <2> QED BY <2>2, <2>3 DEF Grows
<1>4. MemberAdded(h, c, text, r)
  BY addMemberIs
<1> HIDE DEF a, b, s, r
<1>5. Grows(h, b.heap)
  BY <1>1, <1>2, GrowsOn
<1>6. CASE a.id = NullSlot
  <2>1. r = a
    BY <1>4, <1>6 DEF MemberAdded, a
  <2> QED BY <1>1, <1>6, <2>1 DEF Sane, r, a
<1>7. CASE a.id # NullSlot /\ b.id = NullSlot
  <2>1. r = [heap |-> Losing(b.heap, {a.id}), id |-> NullSlot]
    BY <1>4, <1>7 DEF MemberAdded, a, b
  <2>2. Grows(b.heap, Losing(b.heap, {a.id}))
    BY <1>1, <1>2, <1>7, LosingOK
  <2>3. Sane(h, r) /\ Grows(b.heap, r.heap)
    BY <1>5, <2>1, <2>2, GrowsOn, Constants DEF Sane, Results, Grows
  <2> QED BY <1>7, <2>3 DEF r, a, b
<1>8. CASE a.id # NullSlot /\ b.id # NullSlot /\ ~s.ok
  <2> DEFINE k == Losing(s.heap, {a.id, b.id})
             m == Losing(k, {a.id})
  <2>1. r = [heap |-> m, id |-> NullSlot]
    BY <1>4, <1>8 DEF MemberAdded, a, b, s
  <2>2. Grows(s.heap, k) /\ k \in Heaps /\ k.overflowed
    BY <1>1, <1>2, <1>3, <1>8, LosingOK DEF Grows
  <2> HIDE DEF k
  <2>3. Grows(k, m)
    BY <1>1, <1>8, <2>2, LosingOK
  <2> HIDE DEF m
  <2>4. Grows(s.heap, m) /\ Grows(b.heap, m) /\ Grows(h, m)
    BY <1>2, <1>3, <1>5, <1>8, <2>2, <2>3, GrowsOn
  <2>5. Sane(h, r) /\ Grows(b.heap, r.heap) /\ Grows(s.heap, r.heap)
    BY <2>1, <2>4, Constants DEF Sane, Results, Grows
  <2> QED BY <2>5 DEF r, a, b, s
<1>9. CASE a.id # NullSlot /\ b.id # NullSlot /\ s.ok
  <2> DEFINE m == appendPair(s.heap, c, a.id, b.id)
  <2>1. r = [heap |-> m, id |-> b.id]
    BY <1>4, <1>9 DEF MemberAdded, a, b, s
  <2>2. Grows(s.heap, m)
    BY <1>1, <1>2, <1>3, <1>9, appendPairOK DEF Relinked
  <2> HIDE DEF m
  <2>3. Grows(b.heap, m) /\ Grows(h, m)
    BY <1>2, <1>3, <1>5, <1>9, <2>2, GrowsOn
  <2>4. Sane(h, r) /\ Grows(b.heap, r.heap) /\ Grows(s.heap, r.heap)
    BY <1>2, <2>1, <2>2, <2>3 DEF Sane, Results, Grows
  <2> QED BY <2>4 DEF r, a, b, s
<1> QED BY <1>6, <1>7, <1>8, <1>9

LEMMA getOrAddMemberGrows ==
  ASSUME NEW h \in Heaps, NEW c \in Ids, NEW text \in Texts \cup TinyTexts
  PROVE  Sane(h, getOrAddMember(h, c, text)) /\ findKey(h, c, text) \in Links
         /\ getMember(h, c, text) \in Links
<1> DEFINE s == Children(h, c)
           found == {i \in DOMAIN s : i % 2 = 1 /\ h.cell[s[i]].text = text
                                      /\ h.cell[s[i]].type \in {"TinyString", "OwnedString"}}
<1>1. s \in Seq(Slots)
  BY UnderTypes
<1>2. findKey(h, c, text) \in Links
  <2>1. CASE found = {}
    BY <2>1, Constants DEF findKey
  <2>2. CASE found # {}
    <3>1. \E i \in found : \A j \in found : i <= j
      <4>1. found \subseteq Nat
        BY <1>1
      <4> HIDE DEF found
      <4> QED BY <2>2, <4>1, LeastNatural
    <3>2. PICK i \in found : findKey(h, c, text) = s[i]
      BY <2>2, <3>1 DEF findKey
    <3> HIDE DEF s
    <3> QED BY <1>1, <3>2, Constants
  <2> QED BY <2>1, <2>2
<1>3. getMember(h, c, text) \in Links
  BY <1>2, Constants, CellParts DEF getMember
<1>4. Sane(h, getOrAddMember(h, c, text))
  <2>1. CASE getMember(h, c, text) # NullSlot
    <3>1. getOrAddMember(h, c, text) = [heap |-> h, id |-> getMember(h, c, text)]
      BY <2>1 DEF getOrAddMember
    <3> QED BY <1>3, <3>1, GrowsNot DEF Sane, Results
  <2>2. CASE getMember(h, c, text) = NullSlot
    BY <2>2, addMemberGrows DEF getOrAddMember
  <2> QED BY <2>1, <2>2
<1> QED BY <1>2, <1>3, <1>4

\* A string whose node is there is written.
HasCommitted(h, k, v, text, type) ==
  \/ k = [commitString(h, text) EXCEPT !.cell[v].type = type, !.cell[v].text = text]
  \/ k = [commitString(h, text) EXCEPT !.cell[v].text = text, !.cell[v].type = type]

\* The order of the two writes does not matter.
LEMMA Committed ==
  ASSUME NEW h \in Heaps, NEW v \in Ids, NEW text \in Texts, NEW type \in InPool, NEW m,
         HasCommitted(h, m, v, text, type)
  PROVE  Content(AsString(h.cell[v], type, text)) /\ Writes(h, m, v, AsString(h.cell[v], type, text))
<1> DEFINE c == [h.cell[v] EXCEPT !.type = type, !.text = text]
           d == [h.cell EXCEPT ![v] = c]
           g == commitString(h, text)
           r == [h.refs EXCEPT ![text] = @ + 1]
           k == [g EXCEPT !.cell[v] = c]
<1>1. h.cell \in [Ids -> Cells] /\ h.cell[v] \in Cells /\ h.refs \in [Texts -> Int] /\ h.refs[text] + 1 \in Int
  BY HeapParts
<1>2. c \in Cells /\ c.type = type /\ c.text = text
  <2>1. type \in VariantTypes
    BY DEF InPool, VariantTypes
  <2> QED BY <1>1, <2>1 DEF Cells
<1>3. r \in [Texts -> Int] /\ d \in [Ids -> Cells]
  BY <1>1, <1>2
<1>4. g = [h EXCEPT !.refs = r] /\ g.cell = h.cell
  BY DEF commitString, Heaps
<1>5. k = [g EXCEPT !.cell = d]
  BY <1>4
<1>6. /\ k = [g EXCEPT !.cell[v].type = type, !.cell[v].text = text]
      /\ k = [g EXCEPT !.cell[v].text = text, !.cell[v].type = type]
  <2>1. c = [h.cell[v] EXCEPT !.text = text, !.type = type]
    BY <1>1 DEF Cells
  <2>2. [h.cell EXCEPT ![v].type = type, ![v].text = text] = d
    BY <1>1
  <2>3. [h.cell EXCEPT ![v].text = text, ![v].type = type] = d
    BY <1>1, <2>1
  <2> HIDE DEF d
  <2>4. k = [g EXCEPT !.cell[v].type = type, !.cell[v].text = text]
    BY <1>4, <1>5, <2>2
  <2>5. k = [g EXCEPT !.cell[v].text = text, !.cell[v].type = type]
    BY <1>4, <1>5, <2>3
  <2> QED BY <2>4, <2>5
<1>9. m = k
  BY <1>6 DEF HasCommitted
<1> HIDE DEF c, d, g, r
<1>7. k \in Heaps /\ k.cell = d /\ k.pools = h.pools /\ k.capacity = h.capacity /\ k.free = h.free
      /\ k.lost = h.lost /\ k.refs = r /\ k.overflowed = h.overflowed
  <2> HIDE DEF k
  <2> QED BY <1>3, <1>4, <1>5 DEF Heaps
<1> HIDE DEF k
<1>8. Writes(h, k, v, c) /\ Content(c)
  BY <1>2, <1>7 DEF Writes, Content, d, r
<1> QED BY <1>8, <1>9 DEF c, AsString

\* A key as a string.
KeyType(text) == IF text \in TinyTexts THEN "TinyString" ELSE "OwnedString"

\* What a reader saves as a key.
LEMMA KeySavedOK ==
  ASSUME NEW h \in Heaps, NEW key \in Ids, NEW text \in Texts \cup TinyTexts
  PROVE  /\ Content(AsString(h.cell[key], KeyType(text), text))
         /\ Writes(h, KeySaved(h, key, text), key, AsString(h.cell[key], KeyType(text), text))
<1>1. CASE text \in TinyTexts
  <2>1. setString(h, key, text).ok
    BY <1>1 DEF setString, Stored
  <2>2. KeySaved(h, key, text) = setString(h, key, text).heap
    BY <1>1 DEF KeySaved
  <2> QED BY <1>1, <2>1, <2>2, setStringOK DEF StringSet, AsString, KeyType
<1>2. CASE text \notin TinyTexts
  <2> DEFINE type == "OwnedString"
  <2>1. text \in Texts /\ type \in InPool /\ KeyType(text) = type
    BY <1>2 DEF InPool, KeyType
  <2>2. HasCommitted(h, KeySaved(h, key, text), key, text, type)
    BY <1>2 DEF KeySaved, HasCommitted
  <2> HIDE DEF type
  <2> QED BY <2>1, <2>2, Committed
<1> QED BY <1>1, <1>2

\* A member that a reader adds: linked first, named then.
PairAdded(h, c, text, r) ==
  LET a == allocVariant(h)
      b == allocVariant(a.heap)
  IN IF a.id = NullSlot THEN r = a
     ELSE IF b.id = NullSlot THEN r = [heap |-> Losing(b.heap, {a.id}), id |-> NullSlot]
     ELSE r = [heap |-> KeySaved(appendPair(b.heap, c, a.id, b.id), a.id, text), id |-> b.id]

LEMMA AddNamedPairIs ==
  ASSUME NEW h \in Heaps, NEW c, NEW text
  PROVE  PairAdded(h, c, text, AddNamedPair(h, c, text))
<1> DEFINE a == allocVariant(h)
           b == allocVariant(a.heap)
           k == KeySaved(appendPair(b.heap, c, a.id, b.id), a.id, text)
<1>1. a.heap \in Heaps
  BY allocVariantGrows DEF Grows
<1>2. b = [heap |-> b.heap, id |-> b.id]
  BY <1>1, allocVariantGrows DEF Results
<1>3. AddNamedPair(h, c, text) =
        IF a.id = NullSlot THEN a
        ELSE Lose(IF b.id = NullSlot THEN b ELSE [heap |-> k, id |-> b.id], {a.id})
  BY DEF AddNamedPair, IfGiven
<1> HIDE DEF a, b, k
<1> QED BY <1>2, <1>3 DEF PairAdded, Lose, Losing, a, b, k

LEMMA AddNamedPairGrows ==
  ASSUME NEW h \in Heaps, NEW c \in Ids, NEW text \in Texts \cup TinyTexts
  PROVE  /\ Sane(h, AddNamedPair(h, c, text))
         /\ LET a == allocVariant(h)
                b == allocVariant(a.heap)
            IN a.id # NullSlot => Grows(b.heap, AddNamedPair(h, c, text).heap)
<1> DEFINE a == allocVariant(h)
           b == allocVariant(a.heap)
           r == AddNamedPair(h, c, text)
<1>1. a \in Results /\ Grows(h, a.heap) /\ a.heap \in Heaps /\ a.id \in Links /\ (a.id # NullSlot => a.id \in Slots)
  BY allocVariantGrows DEF Grows
<1>2. b \in Results /\ Grows(a.heap, b.heap) /\ b.heap \in Heaps /\ b.id \in Links /\ (b.id # NullSlot => b.id \in Slots)
      /\ (b.id = NullSlot => b.heap.overflowed)
  BY <1>1, allocVariantGrows DEF Grows
<1>4. PairAdded(h, c, text, r)
  BY AddNamedPairIs
<1> HIDE DEF a, b, r
<1>5. Grows(h, b.heap)
  BY <1>1, <1>2, GrowsOn
<1>6. CASE a.id = NullSlot
  <2>1. r = a
    BY <1>4, <1>6 DEF PairAdded, a
  <2> QED BY <1>1, <1>6, <2>1 DEF Sane, r, a
<1>7. CASE a.id # NullSlot /\ b.id = NullSlot
  <2>1. r = [heap |-> Losing(b.heap, {a.id}), id |-> NullSlot]
    BY <1>4, <1>7 DEF PairAdded, a, b
  <2>2. Grows(b.heap, Losing(b.heap, {a.id}))
    BY <1>1, <1>2, <1>7, LosingOK
  <2>3. Sane(h, r) /\ Grows(b.heap, r.heap)
    BY <1>5, <2>1, <2>2, GrowsOn, Constants DEF Sane, Results, Grows
  <2> QED BY <1>7, <2>3 DEF r, a, b
<1>8. CASE a.id # NullSlot /\ b.id # NullSlot
  <2> DEFINE m == appendPair(b.heap, c, a.id, b.id)
             k == KeySaved(m, a.id, text)
             d == AsString(m.cell[a.id], KeyType(text), text)
  <2>1. r = [heap |-> k, id |-> b.id]
    BY <1>4, <1>8 DEF PairAdded, a, b
  <2>2. Grows(b.heap, m) /\ m \in Heaps
    BY <1>1, <1>2, <1>8, appendPairOK DEF Relinked, Grows
  <2>3. a.id \in Ids
    BY <1>1, <1>8, Constants
  <2> HIDE DEF m
  <2>4. Content(d) /\ Writes(m, k, a.id, d)
    BY <2>2, <2>3, KeySavedOK
  <2> HIDE DEF d, k
  <2>5. Grows(m, k)
    BY <2>2, <2>3, <2>4, WritesOK
  <2>6. Grows(b.heap, k) /\ Grows(h, k)
    BY <1>2, <1>5, <2>2, <2>5, GrowsOn
  <2>7. Sane(h, r) /\ Grows(b.heap, r.heap)
    BY <1>2, <2>1, <2>6 DEF Sane, Results, Grows
  <2> QED BY <2>7 DEF r, a, b
<1> QED BY <1>6, <1>7, <1>8

-----------------------------------------------------------------------------
(***************************************************************************)
(* Copying.                                                                *)
(***************************************************************************)
Copies(copy) == \A h \in Heaps : \A v \in Ids : \A tree \in Trees : Grows(h, copy[h][v][tree])

\* An item of an array, or of an object.
ItemOK(type, item) ==
  /\ type \in Collections /\ item.value \in Trees
  /\ type = "Object" => item.key \in Texts \cup TinyTexts

\* CopyItem() case by case.
LEMMA CopyItemIs ==
  ASSUME NEW copy, NEW h, NEW v, NEW type, NEW item
  PROVE  LET r == IF type = "Array" THEN allocVariant(h) ELSE getOrAddMember(h, v, item.key)
             k == copy[r.heap][r.id][item.value]
         IN CopyItem(copy, h, v, type, item) =
              IF r.id = NullSlot THEN r
              ELSE IF type = "Array" THEN Linked(Answered(k), v, r.id)
              ELSE [heap |-> k, id |-> IF k.overflowed THEN NullSlot ELSE r.id]
<1> DEFINE r == IF type = "Array" THEN allocVariant(h) ELSE getOrAddMember(h, v, item.key)
           k == copy[r.heap][r.id][item.value]
<1>1. CASE type = "Array"
  <2>1. CopyItem(copy, h, v, type, item) = IF r.id = NullSlot THEN r ELSE Linked(Answered(k), v, r.id)
    BY <1>1 DEF CopyItem, IfGiven
  <2> HIDE DEF r, k
  <2> QED BY <1>1, <2>1 DEF r, k
<1>2. CASE type # "Array"
  <2>1. CopyItem(copy, h, v, type, item) = IF r.id = NullSlot THEN r ELSE Named(Answered(k), r.id)
    BY <1>2 DEF CopyItem, IfGiven
  <2> HIDE DEF r, k
  <2>2. Named(Answered(k), r.id) = [heap |-> k, id |-> IF k.overflowed THEN NullSlot ELSE r.id]
    BY DEF Named, Answered
  <2> QED BY <1>2, <2>1, <2>2 DEF r, k
<1> QED BY <1>1, <1>2

LEMMA CopyItemGrows ==
  ASSUME NEW copy, Copies(copy), NEW h \in Heaps, NEW v \in Ids, NEW type, NEW item, ItemOK(type, item)
  PROVE  Sane(h, CopyItem(copy, h, v, type, item))
<1> DEFINE r == IF type = "Array" THEN allocVariant(h) ELSE getOrAddMember(h, v, item.key)
           k == copy[r.heap][r.id][item.value]
           i == CopyItem(copy, h, v, type, item)
<1>1. Sane(h, r)
  <2>1. CASE type = "Array"
    BY <2>1, allocVariantGrows DEF Sane
  <2>2. CASE type # "Array"
    <3>1. item.key \in Texts \cup TinyTexts
      BY <2>2 DEF ItemOK, Collections
    <3> QED BY <2>2, <3>1, getOrAddMemberGrows
  <2> QED BY <2>1, <2>2
<1>2. i = IF r.id = NullSlot THEN r
          ELSE IF type = "Array" THEN Linked(Answered(k), v, r.id)
          ELSE [heap |-> k, id |-> IF k.overflowed THEN NullSlot ELSE r.id]
  BY CopyItemIs
<1> HIDE DEF r, i
<1>3. CASE r.id = NullSlot
  BY <1>1, <1>2, <1>3 DEF i
<1>4. CASE r.id # NullSlot
  <2>1. r.heap \in Heaps /\ r.id \in Slots /\ r.id \in Ids /\ Grows(h, r.heap)
    BY <1>1, <1>4, Constants DEF Sane, Grows
  <2>2. Grows(r.heap, k) /\ k \in Heaps
    BY <2>1 DEF Copies, ItemOK, Grows
  <2> HIDE DEF k
  <2>3. CASE type = "Array"
    <3> DEFINE a == Answered(k)
    <3>1. a.heap = k
      BY DEF Answered
    <3> HIDE DEF a
    <3>2. i = Linked(a, v, r.id)
      BY <1>2, <1>4, <2>3 DEF a
    <3>3. i \in Results /\ Grows(k, i.heap) /\ i.id \in Links
      BY <2>1, <2>2, <3>1, <3>2, LinkedGrows
    <3> QED BY <2>1, <2>2, <3>3, GrowsOn DEF Sane, i
  <2>4. CASE type # "Array"
    <3>1. i.heap = k /\ i.id \in {NullSlot, r.id} /\ i = [heap |-> i.heap, id |-> i.id]
      BY <1>2, <1>4, <2>4
    <3>2. Grows(h, i.heap)
      BY <2>1, <2>2, <3>1, GrowsOn
    <3> QED BY <1>1, <2>2, <3>1, <3>2, Constants DEF Sane, Results, i
  <2> QED BY <2>3, <2>4
<1> QED BY <1>3, <1>4

\* The items are copied one after the other.
Copied1(copy, r, v, type, item) ==
  IF r.id = NullSlot THEN r ELSE CopyItem(copy, r.heap, v, type, item)
\* The items are copied one after the other, up to the first that fails.
IsCopied(a, copy, h, v, tree) ==
  /\ a \in [0..Len(tree.items) -> Results]
  /\ a[0] = [heap |-> Typed(Clear(h, v), v, tree.type), id |-> v]
  /\ \A n \in 1..Len(tree.items) : a[n] = Copied1(copy, a[n - 1], v, tree.type, tree.items[n])

\* The entries of a sequence.
LEMMA Entries ==
  ASSUME NEW S, NEW s \in Seq(S)
  PROVE  Len(s) \in Nat /\ DOMAIN s = 1..Len(s) /\ \A n \in 1..Len(s) : s[n] \in S
OBVIOUS

\* The items of a collection.
LEMMA ItemsOK ==
  ASSUME NEW tree, TreeOK(tree), tree.type \in Collections
  PROVE  Len(tree.items) \in Nat /\ \A n \in 1..Len(tree.items) : ItemOK(tree.type, tree.items[n])
<1>1. PICK keys : /\ tree.items \in Seq([key : keys, value : Trees])
                  /\ tree.type = "Object" => keys \subseteq Texts \cup TinyTexts
  BY DEF TreeOK, Fits, Items, Collections
<1> DEFINE S == [key : keys, value : Trees]
<1>2. \A item \in S : ItemOK(tree.type, item)
  BY <1>1 DEF ItemOK
<1>3. tree.items \in Seq(S)
  BY <1>1
<1> HIDE DEF S
<1>4. Len(tree.items) \in Nat /\ \A n \in 1..Len(tree.items) : tree.items[n] \in S
  BY <1>3, Entries
<1> QED BY <1>2, <1>4

\* The model's copy is such a function's last value.
LEMMA CopyItemsIs ==
  ASSUME NEW copy, Copies(copy), NEW h \in Heaps, NEW v \in Ids, NEW tree, TreeOK(tree),
         tree.type \in Collections
  PROVE  \E a : IsCopied(a, copy, h, v, tree) /\ CopyItems(copy, h, v, tree) = a[Len(tree.items)].heap
<1> DEFINE last == Len(tree.items)
           first == [heap |-> Typed(Clear(h, v), v, tree.type), id |-> v]
           More(r, n) == Copied1(copy, r, v, tree.type, tree.items[n])
           Solves(a) == a = [n \in 0..last |-> IF n = 0 THEN first ELSE More(a[n - 1], n)]
           copied == CHOOSE a : Solves(a)
           V == Results
           op == [n \in 1..last |-> [r \in V |-> More(r, n)]]
<1>1. CopyItems(copy, h, v, tree) = copied[last].heap
  BY DEF CopyItems, IfGiven, Copied1
<1>2. last \in Nat /\ \A n \in 1..last : ItemOK(tree.type, tree.items[n])
  BY ItemsOK
<1>3. \A n \in 1..last : \A r \in V : More(r, n) \in V
  <2> TAKE n \in 1..last
  <2> TAKE r \in V
  <2>1. r.heap \in Heaps
    BY DEF Results
  <2>2. Sane(r.heap, CopyItem(copy, r.heap, v, tree.type, tree.items[n]))
    BY <1>2, <2>1, CopyItemGrows
  <2> QED BY <2>2 DEF Sane, Copied1
<1>4. first \in V
  <2>1. Clear(h, v) \in Heaps
    BY ClearOK DEF Grows
  <2>2. tree.type \in VariantTypes \ InPool
    BY DEF Collections, VariantTypes, InPool
  <2>3. Typed(Clear(h, v), v, tree.type) \in Heaps
    BY <2>1, <2>2, TypedGrows DEF Grows
  <2> QED BY <2>3 DEF Results
<1> HIDE DEF More, first, last
<1>5. op \in [1..last -> [V -> V]]
  BY <1>3
<1>6. PICK a : a \in [0..last -> V] /\ a[0] = first /\ \A i \in 1..last : a[i] = op[i][a[i - 1]]
  <2> HIDE DEF op, V
  <2>1. IsSteps(op, last, V) /\ last \in Nat
    BY <1>2, <1>5 DEF IsSteps
  <2>2. \E a : IsLine(a, last, V, first, op)
    BY ONLY <1>4, <2>1, Carries, Zenon
  <2> QED BY <2>2 DEF IsLine
<1>7. Solves(a)
  <2>1. ASSUME NEW n \in 0..last PROVE a[n] = IF n = 0 THEN first ELSE More(a[n - 1], n)
    <3>1. CASE n = 0
      BY <1>6, <3>1
    <3>2. CASE n # 0
      <4>1. n \in 1..last /\ n - 1 \in 0..last
        BY <1>2, <3>2
      <4>2. a[n - 1] \in V
        BY <1>6, <4>1
      <4>3. a[n] = More(a[n - 1], n)
        <5> HIDE DEF V
        <5> QED BY <1>6, <4>1, <4>2
      <4> QED BY <3>2, <4>3
    <3> QED BY <3>1, <3>2
  <2>2. a = [n \in 0..last |-> a[n]]
    BY <1>6
  <2> QED BY <2>1, <2>2
<1>8. Solves(copied)
  BY <1>7
<1> HIDE DEF copied
<1>9. /\ copied = [n \in 0..last |-> copied[n]] /\ copied[0] = first
      /\ \A n \in 1..last : copied[n] = More(copied[n - 1], n)
  <2>1. \A n \in 0..last : copied[n] = IF n = 0 THEN first ELSE More(copied[n - 1], n)
    BY <1>8
  <2>2. 0 \in 0..last /\ \A n \in 1..last : n \in 0..last /\ n # 0
    BY <1>2
  <2>3. copied = [n \in 0..last |-> copied[n]]
    BY <1>8
  <2> QED BY <2>1, <2>2, <2>3
<1>10. copied \in [0..last -> V]
  <2>1. copied[0] \in V
    BY <1>4, <1>9
  <2>2. ASSUME NEW n \in 1..last, copied[n - 1] \in V PROVE copied[n] \in V
    BY <1>3, <1>9, <2>2
  <2> HIDE DEF V
  <2> QED BY <1>2, <1>9, <2>1, <2>2, StaysIn
<1>11. IsCopied(copied, copy, h, v, tree)
  BY <1>9, <1>10 DEF IsCopied, last, first, More
<1> QED BY <1>1, <1>11 DEF last

\* All items of a collection, when each item can be copied.
LEMMA CopyItemsGrows ==
  ASSUME NEW copy, Copies(copy), NEW h \in Heaps, NEW v \in Ids, NEW tree, TreeOK(tree),
         tree.type \in Collections, NEW a, IsCopied(a, copy, h, v, tree)
  PROVE  \A n \in 0..Len(tree.items) :
            /\ a[n] \in Results /\ Grows(h, a[n].heap) /\ Grows(a[n].heap, a[Len(tree.items)].heap)
            /\ n # 0 => a[n].id \in Links
<1> DEFINE last == Len(tree.items)
<1>1. /\ last \in Nat /\ a \in [0..last -> Results]
      /\ a[0] = [heap |-> Typed(Clear(h, v), v, tree.type), id |-> v]
      /\ \A n \in 1..last : a[n] = Copied1(copy, a[n - 1], v, tree.type, tree.items[n])
  BY ItemsOK DEF IsCopied
<1>2. Grows(h, a[0].heap)
  <2>1. Clear(h, v) \in Heaps /\ Grows(h, Clear(h, v))
    BY ClearOK DEF Grows
  <2>2. tree.type \in VariantTypes \ InPool
    BY DEF Collections, VariantTypes, InPool
  <2>3. Grows(Clear(h, v), Typed(Clear(h, v), v, tree.type))
    BY <2>1, <2>2, TypedGrows
  <2> QED BY <1>1, <2>1, <2>3, GrowsOn
<1>3. \A n \in 1..last : a[n - 1] \in Results /\ Grows(a[n - 1].heap, a[n].heap) /\ a[n].id \in Links
  <2> TAKE n \in 1..last
  <2> DEFINE r == a[n - 1]
             item == tree.items[n]
  <2>1. r \in Results /\ ItemOK(tree.type, item)
    <3>1. n - 1 \in 0..last
      BY <1>1
    <3> QED BY <1>1, <3>1, ItemsOK
  <2>2. a[n] = Copied1(copy, r, v, tree.type, item)
    BY <1>1
  <2> HIDE DEF r, item
  <2>3. r.heap \in Heaps
    BY <2>1 DEF Results
  <2>4. Grows(r.heap, a[n].heap) /\ a[n].id \in Links
    <3>1. CASE r.id = NullSlot
      BY <2>2, <2>3, <3>1, GrowsNot, Constants DEF Copied1
    <3>2. CASE r.id # NullSlot
      BY <2>1, <2>2, <2>3, <3>2, CopyItemGrows DEF Copied1, Sane
    <3> QED BY <3>1, <3>2
  <2> QED BY <2>1, <2>4 DEF r
<1>4. \A k \in 0..last : a[k] \in Results /\ a[k].heap \in Heaps
  BY <1>1 DEF Results
<1> HIDE DEF last
<1> DEFINE S == {k \in 0..last : Grows(h, a[k].heap)}
<1>5. \A k \in 0..last : k \in S
  <2>1. 0 \in S
    BY <1>1, <1>2
  <2>2. ASSUME NEW k \in 0..(last - 1), k \in S PROVE k + 1 \in S
    <3>1. k + 1 \in 1..last /\ (k + 1) - 1 = k /\ k + 1 \in 0..last
      BY <1>1
    <3>2. Grows(a[k].heap, a[k + 1].heap)
      BY <1>3, <3>1
    <3> QED BY <2>2, <3>1, <3>2, GrowsOn
  <2>3. 0 \in Int /\ last \in Int
    BY <1>1
  <2> HIDE DEF S
  <2> QED BY <2>1, <2>2, <2>3, InductionFrom
<1> DEFINE R == {i \in 0..last : Grows(a[last - i].heap, a[last].heap)}
<1>6. \A i \in 0..last : i \in R
  <2>1. 0 \in R
    BY <1>1, <1>4, GrowsNot
  <2>2. ASSUME NEW i \in 0..(last - 1), i \in R PROVE i + 1 \in R
    <3>1. /\ last - i \in 1..last /\ last - (i + 1) = (last - i) - 1 /\ last - (i + 1) \in 0..last
          /\ i + 1 \in 0..last /\ last - i \in 0..last
      BY <1>1
    <3>2. Grows(a[last - (i + 1)].heap, a[last - i].heap)
      BY <1>3, <3>1
    <3>3. Grows(a[last - i].heap, a[last].heap)
      BY <2>2
    <3>4. Grows(a[last - (i + 1)].heap, a[last].heap)
      BY <1>4, <3>1, <3>2, <3>3, GrowsOn
    <3> QED BY <3>1, <3>4
  <2>3. 0 \in Int /\ last \in Int
    BY <1>1
  <2> HIDE DEF R
  <2> QED BY <2>1, <2>2, <2>3, InductionFrom
<1>7. ASSUME NEW k \in 0..last PROVE Grows(a[k].heap, a[last].heap)
  <2>1. last - k \in 0..last /\ last - (last - k) = k
    BY <1>1
  <2> QED BY <1>6, <2>1
<1>8. ASSUME NEW k \in 0..last, k # 0 PROVE a[k].id \in Links
  <2>1. k \in 1..last
    BY <1>1, <1>8
  <2> QED BY <1>3, <2>1
<1> QED BY <1>4, <1>5, <1>7, <1>8 DEF last

\* Copying, when values of less nesting can be copied.
CopyOnce(n, copy) ==
  [h \in Heaps |-> [v \in Ids |-> [tree \in Trees |->
     IF n = 0 \/ tree.type \notin Collections THEN Set(h, v, tree).heap
     ELSE CopyItems(copy, h, v, tree)]]]

\* The model's copies by their nesting.
LEMMA CopyToIs ==
  \A n \in 0..MaxNesting : CopyTo[n] = CopyOnce(n, CopyTo[n - 1])
<1> DEFINE Solves(f, k) == f = [n \in 0..k |-> CopyOnce(n, f[n - 1])]
           T == {k \in Nat : \E f : Solves(f, k)}
<1>0. \A p, q : CopyOnce(0, p) = CopyOnce(0, q)
  BY DEF CopyOnce
<1>1. 0 \in T
  <2> DEFINE f == [n \in 0..0 |-> CopyOnce(0, 0)]
  <2>1. \A n \in 0..0 : f[n] = CopyOnce(n, f[n - 1])
    BY <1>0
  <2>2. f = [n \in 0..0 |-> f[n]]
    OBVIOUS
  <2> HIDE DEF f
  <2>3. Solves(f, 0)
    BY <2>1, <2>2
  <2> HIDE DEF Solves
  <2> QED BY <2>3
<1>2. ASSUME NEW k \in Nat, k \in T PROVE k + 1 \in T
  <2>1. PICK f : Solves(f, k)
    BY <1>2
  <2> DEFINE g == [n \in 0..(k + 1) |-> CopyOnce(n, f[n - 1])]
  <2>2. ASSUME NEW n \in 0..k PROVE g[n] = f[n]
    BY <2>1
  <2>3. ASSUME NEW n \in 0..(k + 1), n # 0 PROVE n - 1 \in 0..k
    BY <2>3
  <2>4. \A n \in 0..(k + 1) : g[n] = CopyOnce(n, g[n - 1])
    <3> TAKE n \in 0..(k + 1)
    <3>1. CASE n = 0
      BY <1>0, <3>1
    <3>2. CASE n # 0
      <4>1. g[n - 1] = f[n - 1]
        BY <2>2, <2>3, <3>2
      <4> QED BY <4>1
    <3> QED BY <3>1, <3>2
  <2>5. Solves(g, k + 1)
    <3>1. g = [n \in 0..(k + 1) |-> g[n]]
      OBVIOUS
    <3> HIDE DEF g
    <3> QED BY <2>4, <3>1
  <2> HIDE DEF g, Solves
  <2> QED BY <2>5
<1>3. \E f : Solves(f, MaxNesting)
  <2>1. \A k \in Nat : k \in T
    <3> HIDE DEF T
    <3> QED BY <1>1, <1>2, Induction
  <2> QED BY <2>1, NestingAssumption
<1> DEFINE F == CHOOSE f : Solves(f, MaxNesting)
<1>4. Solves(F, MaxNesting)
  BY <1>3
<1>5. CopyTo = F
  BY DEF CopyTo, CopyOnce
<1> HIDE DEF F
<1>6. \A n \in 0..MaxNesting : F[n] = CopyOnce(n, F[n - 1])
  BY <1>4
<1> QED BY <1>5, <1>6

LEMMA CopyOnceIs ==
  ASSUME NEW n, NEW copy, NEW h \in Heaps, NEW v \in Ids, NEW tree \in Trees
  PROVE  CopyOnce(n, copy)[h][v][tree] =
           IF n = 0 \/ tree.type \notin Collections THEN Set(h, v, tree).heap
           ELSE CopyItems(copy, h, v, tree)
BY DEF CopyOnce

\* Copying a value keeps a heap in order, by induction on its nesting.
LEMMA CopyGrows ==
  /\ \A n \in 0..MaxNesting : Copies(CopyTo[n])
  /\ \A h \in Heaps : \A v \in Ids : \A tree \in Trees : Grows(h, Copy(h, v, tree))
<1> DEFINE T == {n \in Nat : n <= MaxNesting => Copies(CopyTo[n])}
<1>1. ASSUME NEW n \in 0..MaxNesting, n = 0 \/ Copies(CopyTo[n - 1]) PROVE Copies(CopyTo[n])
  <2> SUFFICES ASSUME NEW h \in Heaps, NEW v \in Ids, NEW tree \in Trees
               PROVE  Grows(h, CopyTo[n][h][v][tree])
    BY DEF Copies
  <2>1. CopyTo[n][h][v][tree] = IF n = 0 \/ tree.type \notin Collections THEN Set(h, v, tree).heap
                                ELSE CopyItems(CopyTo[n - 1], h, v, tree)
    BY CopyToIs, CopyOnceIs
  <2>2. TreeOK(tree)
    BY TreesOK
  <2>3. CASE n = 0 \/ tree.type \notin Collections
    BY <2>1, <2>2, <2>3, SetGrows
  <2>4. CASE ~(n = 0 \/ tree.type \notin Collections)
    <3>1. PICK a : IsCopied(a, CopyTo[n - 1], h, v, tree)
                   /\ CopyItems(CopyTo[n - 1], h, v, tree) = a[Len(tree.items)].heap
      BY <1>1, <2>2, <2>4, CopyItemsIs
    <3>2. Len(tree.items) \in 0..Len(tree.items)
      BY <2>2, <2>4, ItemsOK
    <3> QED BY <1>1, <2>1, <2>2, <2>4, <3>1, <3>2, CopyItemsGrows
  <2> QED BY <2>3, <2>4
<1>2. 0 \in T
  BY <1>1, NestingAssumption
<1>3. ASSUME NEW n \in Nat, n \in T PROVE n + 1 \in T
  <2> SUFFICES ASSUME n + 1 <= MaxNesting PROVE Copies(CopyTo[n + 1])
    OBVIOUS
  <2>1. n + 1 \in 0..MaxNesting /\ (n + 1) - 1 = n /\ n <= MaxNesting
    BY NestingAssumption
  <2> QED BY <1>1, <1>3, <2>1
<1>4. \A n \in Nat : n \in T
  <2> HIDE DEF T
  <2> QED BY <1>2, <1>3, Induction
<1>5. \A n \in 0..MaxNesting : Copies(CopyTo[n])
  BY <1>4, NestingAssumption
<1>6. MaxNesting \in 0..MaxNesting
  BY NestingAssumption
<1> QED BY <1>5, <1>6 DEF Copies, Copy

\* add(value) of an array: a slot, its value, and then the link.
LEMMA addValueGrows ==
  ASSUME NEW h \in Heaps, NEW c \in Ids, NEW value \in Trees
  PROVE  LET a == allocVariant(h)
             s == IF value.type \in Collections THEN Answered(Copy(a.heap, a.id, value))
                  ELSE Set(a.heap, a.id, value)
         IN /\ Sane(h, addValue(h, c, value))
            /\ a.id # NullSlot => /\ Grows(a.heap, s.heap) /\ Grows(s.heap, addValue(h, c, value).heap)
                                  /\ addValue(h, c, value) = Linked(s, c, a.id)
            /\ a.id = NullSlot => addValue(h, c, value) = a
<1> DEFINE a == allocVariant(h)
           s == IF value.type \in Collections THEN Answered(Copy(a.heap, a.id, value))
                ELSE Set(a.heap, a.id, value)
           r == addValue(h, c, value)
<1>1. a \in Results /\ Grows(h, a.heap) /\ a.id \in Links /\ (a.id # NullSlot => a.id \in Slots) /\ a.heap \in Heaps
  BY allocVariantGrows DEF Grows
<1>2. r = IF a.id = NullSlot THEN a ELSE Linked(s, c, a.id)
  BY DEF addValue, IfGiven
<1> HIDE DEF a, r
<1>3. CASE a.id = NullSlot
  BY <1>1, <1>2, <1>3 DEF Sane, a, r
<1>4. CASE a.id # NullSlot
  <2>1. a.id \in Ids
    BY <1>1, <1>4, Constants
  <2>2. Grows(a.heap, s.heap)
    <3>1. CASE value.type \in Collections
      <4>1. s.heap = Copy(a.heap, a.id, value)
        BY <3>1 DEF Answered
      <4> QED BY <1>1, <2>1, <4>1, CopyGrows
    <3>2. CASE value.type \notin Collections
      <4>1. s.heap = Set(a.heap, a.id, value).heap
        BY <3>2
      <4> QED BY <1>1, <2>1, <4>1, SetGrows, TreesOK
    <3> QED BY <3>1, <3>2
  <2> HIDE DEF s
  <2>3. s.heap \in Heaps
    BY <2>2 DEF Grows
  <2>4. r \in Results /\ Grows(s.heap, r.heap) /\ r.id \in Links
    BY <1>1, <1>2, <1>4, <2>3, LinkedGrows
  <2>5. Grows(h, r.heap)
    BY <1>1, <2>2, <2>4, GrowsOn
  <2> QED BY <1>2, <1>4, <2>2, <2>4, <2>5 DEF Sane, a, r, s
<1> QED BY <1>3, <1>4

(***************************************************************************)
(* Sequences without repetitions.                                          *)
(***************************************************************************)
Distinct(s) == \A i, j \in 1..Len(s) : s[i] = s[j] => i = j

\* A sequence and the set of its entries.
LEMMA SetOf ==
  ASSUME NEW S, NEW s \in Seq(S)
  PROVE  /\ ToSet(s) \subseteq S /\ Len(s) \in Nat /\ DOMAIN s = 1..Len(s)
         /\ \A i \in 1..Len(s) : s[i] \in ToSet(s) /\ s[i] \in S
         /\ \A x \in ToSet(s) : \E i \in 1..Len(s) : s[i] = x
         /\ (s = <<>> <=> ToSet(s) = {}) /\ (s = <<>> <=> Len(s) = 0)
         /\ (IsInjective(s) <=> Distinct(s))
<1>1. Len(s) \in Nat /\ DOMAIN s = 1..Len(s) /\ \A i \in 1..Len(s) : s[i] \in S
  OBVIOUS
<1>2. ToSet(s) = {s[i] : i \in 1..Len(s)}
  BY <1>1 DEF ToSet
<1>3. s = <<>> <=> Len(s) = 0
  OBVIOUS
<1>4. s = <<>> <=> ToSet(s) = {}
  <2>1. Len(s) # 0 => s[1] \in ToSet(s)
    BY <1>1, <1>2
  <2>2. Len(s) = 0 => ToSet(s) = {}
    BY <1>1, <1>2
  <2> QED BY <1>3, <2>1, <2>2
<1>5. IsInjective(s) <=> Distinct(s)
  BY <1>1 DEF IsInjective, Distinct
<1> QED
  <2>1. ToSet(s) \subseteq S
    BY <1>1, <1>2
  <2>2. /\ \A i \in 1..Len(s) : s[i] \in ToSet(s)
        /\ \A x \in ToSet(s) : \E i \in 1..Len(s) : s[i] = x
    BY <1>2
  <2> QED BY ONLY <1>1, <1>3, <1>4, <1>5, <2>1, <2>2

LEMMA Members ==
  ASSUME NEW S, NEW s \in Seq(S)
  PROVE  \A x : x \in ToSet(s) <=> \E i \in 1..Len(s) : s[i] = x
<1>1. DOMAIN s = 1..Len(s)
  OBVIOUS
<1> QED BY <1>1 DEF ToSet

LEMMA SetOfNone == ToSet(<<>>) = {} /\ Distinct(<<>>)
BY DEF ToSet, Distinct

\* Two sequences after each other.
LEMMA Joined ==
  ASSUME NEW S, NEW a \in Seq(S), NEW b \in Seq(S)
  PROVE  /\ a \o b \in Seq(S) /\ ToSet(a \o b) = ToSet(a) \cup ToSet(b)
         /\ Distinct(a) /\ Distinct(b) /\ ToSet(a) \cap ToSet(b) = {} => Distinct(a \o b)
<1> DEFINE s == a \o b
<1>1. /\ s \in Seq(S) /\ Len(s) = Len(a) + Len(b) /\ Len(a) \in Nat /\ Len(b) \in Nat
      /\ \A i \in 1..Len(a) : s[i] = a[i] /\ i \in 1..Len(s)
      /\ \A i \in 1..Len(b) : s[Len(a) + i] = b[i] /\ Len(a) + i \in 1..Len(s)
  OBVIOUS
<1>2. \A i \in 1..Len(s) : i \in 1..Len(a) \/ (i - Len(a) \in 1..Len(b) /\ s[i] = b[i - Len(a)])
  <2> TAKE i \in 1..Len(s)
  <2>1. CASE i <= Len(a)
    BY <1>1, <2>1
  <2>2. CASE ~(i <= Len(a))
    <3> HIDE DEF s
    <3>1. i - Len(a) \in 1..Len(b) /\ Len(a) + (i - Len(a)) = i
      BY <1>1, <2>2
    <3> QED BY <1>1, <3>1
  <2> QED BY <2>1, <2>2
<1> HIDE DEF s
<1>3. ToSet(s) = ToSet(a) \cup ToSet(b)
  <2>0. /\ \A x : x \in ToSet(s) <=> \E i \in 1..Len(s) : s[i] = x
        /\ \A x : x \in ToSet(a) <=> \E i \in 1..Len(a) : a[i] = x
        /\ \A x : x \in ToSet(b) <=> \E i \in 1..Len(b) : b[i] = x
    BY <1>1, Members
  <2>1. ASSUME NEW x \in ToSet(s) PROVE x \in ToSet(a) \cup ToSet(b)
    BY <1>1, <1>2, <2>0
  <2>2. ASSUME NEW x \in ToSet(a) PROVE x \in ToSet(s)
    BY <1>1, <2>0
  <2>3. ASSUME NEW x \in ToSet(b) PROVE x \in ToSet(s)
    BY <1>1, <2>0
  <2> QED BY <2>1, <2>2, <2>3
<1>4. ASSUME Distinct(a), Distinct(b), ToSet(a) \cap ToSet(b) = {} PROVE Distinct(s)
  <2> SUFFICES ASSUME NEW i \in 1..Len(s), NEW j \in 1..Len(s), s[i] = s[j] PROVE i = j
    BY DEF Distinct
  <2>1. \A k \in 1..Len(a) : a[k] \in ToSet(a)
    BY SetOf
  <2>2. \A k \in 1..Len(b) : b[k] \in ToSet(b)
    BY SetOf
  <2>3. CASE i \in 1..Len(a) /\ j \in 1..Len(a)
    BY <1>1, <1>4, <2>3 DEF Distinct
  <2>4. CASE i \notin 1..Len(a) /\ j \notin 1..Len(a)
    <3>1. i - Len(a) = j - Len(a)
      BY <1>2, <1>4, <2>4 DEF Distinct
    <3> QED BY <1>1, <3>1
  <2>5. CASE i \in 1..Len(a) /\ j \notin 1..Len(a)
    <3>1. s[i] \in ToSet(a) /\ s[j] \in ToSet(b)
      BY <1>1, <1>2, <2>1, <2>2, <2>5
    <3> QED BY <1>4, <3>1
  <2>6. CASE i \notin 1..Len(a) /\ j \in 1..Len(a)
    <3>1. s[j] \in ToSet(a) /\ s[i] \in ToSet(b)
      BY <1>1, <1>2, <2>1, <2>2, <2>6
    <3> QED BY <1>4, <3>1
  <2> QED BY <2>3, <2>4, <2>5, <2>6
<1> QED BY <1>1, <1>3, <1>4 DEF s

LEMMA Single ==
  ASSUME NEW S, NEW x \in S
  PROVE  <<x>> \in Seq(S) /\ ToSet(<<x>>) = {x} /\ Distinct(<<x>>)
BY DEF ToSet, Distinct

\* At most as many as there are slots.
LEMMA DistinctSlots ==
  ASSUME NEW s \in Seq(Slots), Distinct(s)
  PROVE  Len(s) <= NullSlot
<1>1. IsFiniteSet(Slots) /\ Cardinality(Slots) = NullSlot
  <2>1. IsFiniteSet(0..(NullSlot - 1)) /\ Cardinality(0..(NullSlot - 1)) = (NullSlot - 1) - 0 + 1
    <3>1. 0 \in Int /\ NullSlot - 1 \in Int /\ ~(0 > NullSlot - 1)
      BY Constants
    <3> QED BY <3>1, FS_Interval
  <2> QED BY <2>1, Constants DEF Slots
<1> DEFINE D == 1..Len(s)
           f == [i \in D |-> s[i]]
<1>2. Len(s) \in Nat /\ \A i \in D : s[i] \in Slots
  BY SetOf
<1>3. IsFiniteSet(D) /\ Cardinality(D) = Len(s)
  <2>1. 1 \in Int /\ Len(s) \in Int
    BY <1>2
  <2>2. IsFiniteSet(1..Len(s)) /\ Cardinality(1..Len(s)) = IF 1 > Len(s) THEN 0 ELSE Len(s) - 1 + 1
    BY <2>1, FS_Interval
  <2> QED BY <1>2, <2>2
<1>4. f \in [D -> Slots] /\ \A i, j \in D : f[i] = f[j] => i = j
  BY <1>2 DEF Distinct
<1> HIDE DEF D, f
<1>5. Cardinality(D) <= Cardinality(Slots)
  <2>1. Cardinality(D) \in Nat /\ Cardinality(Slots) \in Nat
    BY <1>1, <1>3, FS_CardinalityType
  <2>2. CASE Cardinality(Slots) < Cardinality(D)
    <3>1. \E x, y \in D : x # y /\ f[x] = f[y]
      BY <1>1, <1>3, <1>4, <2>2, FS_PigeonHole
    <3> QED BY <1>4, <3>1
  <2> QED BY <2>1, <2>2
<1> QED BY <1>1, <1>3, <1>5

(***************************************************************************)
(* What clear() walks over.  The slots P are threaded: from each one the   *)
(* walk goes on to two others at most, to each of them from one slot only, *)
(* up[y], and to slots that were given out later.                          *)
(***************************************************************************)
Threaded(h, P, up, born) ==
  /\ P \subseteq Slots
  /\ \A x \in P :
       /\ h.cell[x].next \in P \cup {NullSlot} /\ Below(h, x) \in P \cup {NullSlot}
       /\ h.cell[x].next = Below(h, x) => Below(h, x) = NullSlot
       /\ \A y \in P : h.cell[x].next = y \/ Below(h, x) = y => up[y] = x
       /\ born[x] \in Nat /\ born[up[x]] \in Nat /\ born[up[x]] < born[x]

\* The slots s are those from x on.
Walked(h, P, up, born, x, s) ==
  /\ s \in Seq(P) /\ Distinct(s) /\ x \in ToSet(s)
  /\ \A y \in ToSet(s) :
       /\ h.cell[y].next \in ToSet(s) \cup {NullSlot} /\ Below(h, y) \in ToSet(s) \cup {NullSlot}
       /\ born[x] <= born[y] /\ (y # x => up[y] \in ToSet(s))

\* The same when there may be none.
WalkedOn(h, P, up, born, x, y, s) ==
  \/ y = NullSlot /\ s = <<>>
  \/ y \in P /\ up[y] = x /\ Walked(h, P, up, born, y, s)

\* The walks from two different followers of a slot do not meet.
LEMMA Apart ==
  ASSUME NEW h, NEW P, NEW up, NEW born, Threaded(h, P, up, born), NEW x \in P,
         NEW a, NEW b, NEW r, NEW s, a # b,
         WalkedOn(h, P, up, born, x, a, r), WalkedOn(h, P, up, born, x, b, s)
  PROVE  /\ r \in Seq(P) /\ s \in Seq(P) /\ Distinct(r) /\ Distinct(s)
         /\ x \notin ToSet(r) /\ x \notin ToSet(s)
         /\ ToSet(r) \cap ToSet(s) = {}
<1>1. ASSUME NEW y, NEW u, WalkedOn(h, P, up, born, x, y, u)
      PROVE  /\ u \in Seq(P) /\ Distinct(u) /\ x \notin ToSet(u) /\ ToSet(u) \subseteq P
             /\ \A z \in ToSet(u) : up[z] \in ToSet(u) \/ (z = y /\ up[z] = x)
  <2>1. CASE y = NullSlot /\ u = <<>>
    BY <2>1, SetOfNone
  <2>2. CASE y \in P /\ up[y] = x /\ Walked(h, P, up, born, y, u)
    <3>1. u \in Seq(P) /\ ToSet(u) \subseteq P
      BY <2>2, SetOf DEF Walked
    <3>2. born[x] < born[y] /\ born[x] \in Nat /\ born[y] \in Nat
      BY <2>2 DEF Threaded
    <3> QED BY <2>2, <3>1, <3>2 DEF Walked
  <2> QED BY <1>1, <2>1, <2>2 DEF WalkedOn
<1> DEFINE Both == ToSet(r) \cap ToSet(s)
           T == {born[z] : z \in Both}
<1>2. ASSUME Both # {} PROVE FALSE
  <2>1. T \subseteq Nat /\ T # {}
    BY <1>1, <1>2 DEF Threaded
  <2>2. PICK z \in Both : \A y \in Both : born[z] <= born[y]
    <3>1. PICK t \in T : \A u \in T : t <= u
      BY <2>1, LeastNatural
    <3> QED BY <3>1
  <2>3. z \in P /\ born[up[z]] < born[z] /\ born[up[z]] \in Nat /\ born[z] \in Nat
    BY <1>1 DEF Threaded
  <2>4. up[z] \notin Both
    BY <2>2, <2>3
  <2>5. up[z] \in ToSet(r) \/ (z = a /\ up[z] = x)
    BY <1>1
  <2>6. up[z] \in ToSet(s) \/ (z = b /\ up[z] = x)
    BY <1>1
  <2>7. x \notin ToSet(r) /\ x \notin ToSet(s)
    BY <1>1
  <2> QED BY <2>4, <2>5, <2>6, <2>7
<1> QED BY <1>1, <1>2

\* A step of the walk: what follows x, x, and what is below.
LEMMA WalksOn ==
  ASSUME NEW h, NEW P, NEW up, NEW born, Threaded(h, P, up, born), NEW x \in P, NEW r, NEW s,
         WalkedOn(h, P, up, born, x, h.cell[x].next, r), WalkedOn(h, P, up, born, x, Below(h, x), s)
  PROVE  Walked(h, P, up, born, x, r \o <<x>> \o s)
<1> DEFINE a == h.cell[x].next
           b == Below(h, x)
           u == r \o <<x>> \o s
<1>0. NullSlot \notin P
  BY Constants DEF Threaded
<1>1. /\ r \in Seq(P) /\ s \in Seq(P) /\ Distinct(r) /\ Distinct(s)
      /\ x \notin ToSet(r) /\ x \notin ToSet(s) /\ ToSet(r) \cap ToSet(s) = {}
  <2>1. CASE a # b
    BY <2>1, Apart
  <2>2. CASE a = b
    <3>1. a = NullSlot /\ b = NullSlot
      BY <2>2 DEF Threaded
    <3>2. r = <<>> /\ s = <<>>
      BY <1>0, <3>1 DEF WalkedOn
    <3> QED BY <3>2, SetOfNone
  <2> QED BY <2>1, <2>2
<1>2. u \in Seq(P) /\ Distinct(u) /\ ToSet(u) = ToSet(r) \cup {x} \cup ToSet(s)
  <2>1. <<x>> \in Seq(P) /\ ToSet(<<x>>) = {x} /\ Distinct(<<x>>)
    BY Single
  <2>2. \A p, q \in Seq(P) : /\ p \o q \in Seq(P) /\ ToSet(p \o q) = ToSet(p) \cup ToSet(q)
                             /\ Distinct(p) /\ Distinct(q) /\ ToSet(p) \cap ToSet(q) = {}
                                  => Distinct(p \o q)
    BY Joined
  <2> DEFINE t == r \o <<x>>
  <2>3. t \in Seq(P) /\ ToSet(t) = ToSet(r) \cup {x} /\ Distinct(t)
    <3>1. ToSet(r) \cap ToSet(<<x>>) = {}
      BY <1>1, <2>1
    <3> QED BY ONLY <1>1, <2>1, <2>2, <3>1
  <2>4. u = t \o s
    OBVIOUS
  <2> HIDE DEF t
  <2>5. ToSet(t) \cap ToSet(s) = {}
    BY <1>1, <2>3
  <2> QED BY ONLY <1>1, <2>2, <2>3, <2>4, <2>5
<1>3. ASSUME NEW y, NEW v, WalkedOn(h, P, up, born, x, y, v), ToSet(v) \subseteq ToSet(u), x \in ToSet(u)
      PROVE  /\ y \in ToSet(u) \cup {NullSlot}
             /\ \A z \in ToSet(v) :
                  /\ h.cell[z].next \in ToSet(u) \cup {NullSlot} /\ Below(h, z) \in ToSet(u) \cup {NullSlot}
                  /\ born[x] <= born[z] /\ up[z] \in ToSet(u)
  <2>1. CASE y = NullSlot /\ v = <<>>
    BY <2>1, SetOfNone
  <2>2. CASE y \in P /\ up[y] = x /\ Walked(h, P, up, born, y, v)
    <3> HIDE DEF u
    <3>1. born[x] < born[y] /\ born[x] \in Nat /\ born[y] \in Nat
      BY <2>2 DEF Threaded
    <3>2. v \in Seq(P) /\ ToSet(v) \subseteq P
      BY <2>2, SetOf DEF Walked
    <3>3. \A z \in ToSet(v) : born[z] \in Nat
      BY <3>2 DEF Threaded
    <3> QED BY <1>3, <2>2, <3>1, <3>3 DEF Walked
  <2> QED BY <1>3, <2>1, <2>2 DEF WalkedOn
<1>4. x \in ToSet(u) /\ ToSet(r) \subseteq ToSet(u) /\ ToSet(s) \subseteq ToSet(u)
  BY <1>2
<1>5. born[x] \in Nat
  BY DEF Threaded
<1> HIDE DEF u, a, b
<1>6. \A z \in ToSet(r) \cup ToSet(s) :
        /\ h.cell[z].next \in ToSet(u) \cup {NullSlot} /\ Below(h, z) \in ToSet(u) \cup {NullSlot}
        /\ born[x] <= born[z] /\ up[z] \in ToSet(u)
  BY <1>3, <1>4
<1>7. a \in ToSet(u) \cup {NullSlot} /\ b \in ToSet(u) \cup {NullSlot}
  BY <1>3, <1>4 DEF a, b
<1> QED
  <2>1. ASSUME NEW y \in ToSet(u)
        PROVE  /\ h.cell[y].next \in ToSet(u) \cup {NullSlot} /\ Below(h, y) \in ToSet(u) \cup {NullSlot}
               /\ born[x] <= born[y] /\ (y # x => up[y] \in ToSet(u))
    <3>1. CASE y = x
      BY <3>1, <1>5, <1>7 DEF a, b
    <3>2. CASE y # x
      BY <1>2, <1>6, <3>2
    <3> QED BY <3>1, <3>2
  <2>2. Walked(h, P, up, born, x, u)
    BY <1>2, <1>4, <2>1 DEF Walked
  <2> QED BY <2>2 DEF u

\* Those that were given out no earlier than x.
Younger(P, born, x) == {y \in P : born[x] <= born[y]}

\* Each step of the walk leaves fewer slots to come.
LEMMA FewerYounger ==
  ASSUME NEW P \in SUBSET Slots, NEW born, NEW x \in P, NEW y \in P,
         \A z \in P : born[z] \in Nat, born[x] < born[y]
  PROVE  Cardinality(Younger(P, born, y)) < Cardinality(Younger(P, born, x))
<1>1. IsFiniteSet(Slots)
  <2>1. 0 \in Int /\ NullSlot - 1 \in Int
    BY Constants
  <2> QED BY <2>1, FS_Interval DEF Slots
<1>2. IsFiniteSet(Younger(P, born, x))
  <2>1. Younger(P, born, x) \subseteq Slots
    BY DEF Younger
  <2> QED BY <1>1, <2>1, FS_Subset
<1>3. Younger(P, born, y) \subseteq Younger(P, born, x) /\ x \in Younger(P, born, x)
      /\ x \notin Younger(P, born, y)
  BY DEF Younger
<1>4. /\ IsFiniteSet(Younger(P, born, y))
      /\ Cardinality(Younger(P, born, y)) <= Cardinality(Younger(P, born, x))
      /\ (Cardinality(Younger(P, born, y)) = Cardinality(Younger(P, born, x))
            => Younger(P, born, y) = Younger(P, born, x))
  BY <1>2, <1>3, FS_Subset
<1>5. Cardinality(Younger(P, born, y)) \in Nat /\ Cardinality(Younger(P, born, x)) \in Nat
  BY <1>2, <1>4, FS_CardinalityType
<1> QED BY <1>3, <1>4, <1>5

LEMMA YoungerBounds ==
  ASSUME NEW P \in SUBSET Slots, NEW born, NEW x \in P, born[x] \in Nat
  PROVE  Cardinality(Younger(P, born, x)) \in 1..NullSlot
<1>1. IsFiniteSet(Slots) /\ Cardinality(Slots) = NullSlot
  <2>1. 0 \in Int /\ NullSlot - 1 \in Int /\ ~(0 > NullSlot - 1) /\ (NullSlot - 1) - 0 + 1 = NullSlot
    BY Constants
  <2>2. IsFiniteSet(0..(NullSlot - 1)) /\ Cardinality(0..(NullSlot - 1)) = (NullSlot - 1) - 0 + 1
    BY <2>1, FS_Interval
  <2> QED BY <2>1, <2>2 DEF Slots
<1>2. Younger(P, born, x) \subseteq Slots /\ Younger(P, born, x) # {}
  BY DEF Younger
<1>3. /\ IsFiniteSet(Younger(P, born, x))
      /\ Cardinality(Younger(P, born, x)) <= Cardinality(Slots)
  BY <1>1, <1>2, FS_Subset
<1>4. Cardinality(Younger(P, born, x)) \in Nat /\ Cardinality(Younger(P, born, x)) # 0
  BY <1>2, <1>3, FS_CardinalityType, FS_EmptySet
<1> QED BY <1>1, <1>3, <1>4, Constants

\* The walk from any slot on is complete, for no way is longer than there are
\* slots.
LEMMA WalkOK ==
  ASSUME NEW h \in Heaps, NEW P, NEW up, NEW born, Threaded(h, P, up, born)
  PROVE  \A x \in P : Walked(h, P, up, born, x, Walk(h)[x])
<1>1. PICK w : IsWalk(w, h) /\ Walk(h) = w[NullSlot]
  BY WalkIs
<1> DEFINE Room(x) == Cardinality(Younger(P, born, x))
           T == {n \in Nat : n <= NullSlot =>
                   \A x \in P : Room(x) <= n => Walked(h, P, up, born, x, w[n][x])}
<1>2. P \in SUBSET Slots /\ NullSlot \notin P /\ \A x \in P : born[x] \in Nat
  BY Constants DEF Threaded
<1>3. \A x \in P : Room(x) \in 1..NullSlot
  BY <1>2, YoungerBounds
<1>4. \A x, y \in P : born[x] < born[y] => Room(y) < Room(x)
  BY <1>2, FewerYounger
<1> HIDE DEF Room
<1>5. 0 \in T
  BY <1>3
<1>6. ASSUME NEW n \in Nat, n \in T PROVE n + 1 \in T
  <2> SUFFICES ASSUME n + 1 <= NullSlot, NEW x \in P, Room(x) <= n + 1
               PROVE  Walked(h, P, up, born, x, w[n + 1][x])
    OBVIOUS
  <2>1. /\ n \in 0..NullSlot /\ n + 1 \in 1..NullSlot /\ (n + 1) - 1 = n
        /\ \A y \in P : Room(y) <= n => Walked(h, P, up, born, y, w[n][y])
    BY <1>6, Constants
  <2>2. w[n + 1] = Further(h, w[n]) /\ w[n][NullSlot] = <<>>
    <3>1. w[n + 1] = Further(h, w[n])
      BY <1>1, <2>1 DEF IsWalk
    <3>2. CASE n = 0
      BY <1>1, <3>2, Constants DEF IsWalk, NoWalk
    <3>3. CASE n # 0
      <4>1. n \in 1..NullSlot
        BY <2>1, <3>3
      <4>2. w[n] = Further(h, w[n - 1])
        BY <1>1, <4>1 DEF IsWalk
      <4> QED BY <3>1, <4>2, Constants DEF Further
    <3> QED BY <3>1, <3>2, <3>3
  <2>3. w[n + 1][x] = w[n][h.cell[x].next] \o <<x>> \o w[n][Below(h, x)]
    <3>1. x \in Links /\ x # NullSlot
      BY <1>2, Constants
    <3> QED BY <2>2, <3>1 DEF Further
  <2>4. ASSUME NEW y \in P \cup {NullSlot}, y \in P => up[y] = x
        PROVE  WalkedOn(h, P, up, born, x, y, w[n][y])
    <3>1. CASE y = NullSlot
      BY <2>2, <3>1 DEF WalkedOn
    <3>2. CASE y \in P
      <4>1. born[x] < born[y]
        BY <2>4, <3>2 DEF Threaded
      <4>2. Room(y) <= n
        BY <1>3, <1>4, <3>2, <4>1
      <4> QED BY <2>1, <2>4, <3>2, <4>2 DEF WalkedOn
    <3> QED BY <3>1, <3>2
  <2>5. /\ WalkedOn(h, P, up, born, x, h.cell[x].next, w[n][h.cell[x].next])
        /\ WalkedOn(h, P, up, born, x, Below(h, x), w[n][Below(h, x)])
    BY <2>4 DEF Threaded
  <2> QED BY <2>3, <2>5, WalksOn
<1>7. NullSlot \in T
  <2> HIDE DEF T
  <2> QED BY <1>5, <1>6, Induction, Constants
<1> QED BY <1>1, <1>3, <1>7, Constants

(***************************************************************************)
(* The tree that a heap holds.  A ghost g gives the slots of the document  *)
(* (nodes) and, among them, those given out but not linked yet (pending);  *)
(* the slots below each one in their order (kids), the slot that each one  *)
(* is below (own), and the order in which they were given out (born, with  *)
(* clock the next number).                                                 *)
(***************************************************************************)
Ghosts ==
  [nodes : SUBSET Slots, pending : SUBSET Slots, kids : [Ids -> Seq(Slots)],
   own : [Ids -> Ids], born : [Ids -> Nat], clock : Nat, out : SUBSET Ids]
\* The slots of the document and its root; and those that are linked.
Live(g) == g.nodes \cup {Root}
Placed(g) == g.nodes \ g.pending

\* The first and the last of some slots, and the one after the i-th.
First(s) == IF s = <<>> THEN NullSlot ELSE s[1]
Final(s) == IF s = <<>> THEN NullSlot ELSE s[Len(s)]
After(s, i) == IF i < Len(s) THEN s[i + 1] ELSE NullSlot

\* Every slot is below one other at most, and was given out later than that
\* one and than those before it.
Forest(g) ==
  /\ g \in Ghosts /\ g.pending \subseteq g.nodes
  /\ \A p \in Live(g) : g.born[p] < g.clock
  /\ \A p \in Live(g) : \A i \in 1..Len(g.kids[p]) :
       /\ g.kids[p][i] \in Placed(g) /\ g.own[g.kids[p][i]] = p
       /\ g.born[p] < g.born[g.kids[p][i]]
       /\ \A j \in 1..Len(g.kids[p]) : i < j => g.born[g.kids[p][i]] < g.born[g.kids[p][j]]
  /\ \A x \in Placed(g) : g.own[x] \in Live(g) /\ \E i \in 1..Len(g.kids[g.own[x]]) : g.kids[g.own[x]][i] = x

\* The links of the heap are those of the tree.
ShowsAt(h, g, p) ==
  /\ h.cell[p].type \in VariantTypes \cup {"Extension"}
  /\ Below(h, p) = First(g.kids[p])
  /\ p \notin g.out =>
       h.cell[p].tail = IF h.cell[p].type \in Collections THEN Final(g.kids[p]) ELSE NullSlot
  /\ h.cell[p].type = "Null" => h.cell[p].head = NullSlot
  /\ \A i \in 1..Len(g.kids[p]) : h.cell[g.kids[p][i]].next = After(g.kids[p], i)
\* The same for all of them, and for those that are in no chain.
Shows(h, g) ==
  /\ \A p \in Live(g) : ShowsAt(h, g, p)
  /\ \A x \in g.pending \ g.out : h.cell[x].next = NullSlot
  /\ \A x \in Ids \ Live(g) : h.cell[x].type \notin InPool

\* The types of a tree's parts.
LEMMA GhostParts ==
  ASSUME NEW g, Forest(g)
  PROVE  /\ g.nodes \in SUBSET Slots /\ g.pending \in SUBSET Slots /\ g.pending \subseteq g.nodes
         /\ g.own \in [Ids -> Ids] /\ g.born \in [Ids -> Nat] /\ g.kids \in [Ids -> Seq(Slots)]
         /\ g.clock \in Nat /\ g.out \in SUBSET Ids /\ (\A p \in Live(g) : g.born[p] < g.clock)
         /\ Live(g) \subseteq Ids /\ Placed(g) \subseteq Slots /\ Placed(g) \subseteq Live(g)
         /\ NullSlot \notin Live(g) /\ Root \in Live(g) /\ Root \notin Placed(g)
         /\ \A p \in Ids : /\ g.kids[p] \in Seq(Slots) /\ Len(g.kids[p]) \in Nat /\ g.born[p] \in Nat
                           /\ \A i \in 1..Len(g.kids[p]) : g.kids[p][i] \in Slots
<1>1. g.nodes \in SUBSET Slots /\ g.pending \in SUBSET Slots /\ g.pending \subseteq g.nodes
      /\ g.own \in [Ids -> Ids] /\ g.born \in [Ids -> Nat] /\ g.kids \in [Ids -> Seq(Slots)]
      /\ g.clock \in Nat /\ g.out \in SUBSET Ids /\ (\A p \in Live(g) : g.born[p] < g.clock)
  BY DEF Forest, Ghosts
<1>2. \A p \in Ids : g.kids[p] \in Seq(Slots) /\ g.born[p] \in Nat
  BY <1>1
<1>3. \A p \in Ids : Len(g.kids[p]) \in Nat /\ \A i \in 1..Len(g.kids[p]) : g.kids[p][i] \in Slots
  BY <1>2, Entries
<1> QED BY <1>1, <1>2, <1>3, Constants DEF Live, Placed

\* A slot is at one place only.
LEMMA OnePlace ==
  ASSUME NEW g, Forest(g), NEW p \in Live(g), NEW q \in Live(g),
         NEW i \in 1..Len(g.kids[p]), NEW j \in 1..Len(g.kids[q]), g.kids[p][i] = g.kids[q][j]
  PROVE  p = q /\ i = j
<1>1. p = q
  <2>1. g.own[g.kids[p][i]] = p
    BY DEF Forest
  <2>2. g.own[g.kids[q][j]] = q
    BY DEF Forest
  <2> QED BY <2>1, <2>2
<1>2. Len(g.kids[p]) \in Nat /\ g.kids[p][i] \in Ids /\ g.born[g.kids[p][i]] \in Nat
  BY GhostParts, Constants
<1>3. ~(i < j) /\ ~(j < i)
  BY <1>1, <1>2 DEF Forest
<1> QED BY <1>1, <1>2, <1>3

\* No slot is twice below the same one.
LEMMA KidsDistinct ==
  ASSUME NEW g, Forest(g), NEW p \in Live(g)
  PROVE  Distinct(g.kids[p])
BY OnePlace DEF Distinct

\* The slot from which the walk comes to a slot.
At(g, x) == CHOOSE i \in 1..Len(g.kids[g.own[x]]) : g.kids[g.own[x]][i] = x
UpOf(g) == [x \in Ids |-> IF x \notin Placed(g) THEN x
                          ELSE IF At(g, x) = 1 THEN g.own[x] ELSE g.kids[g.own[x]][At(g, x) - 1]]

\* It is the slot before in its chain, or the collection.
LEMMA UpIs ==
  ASSUME NEW g, Forest(g)
  PROVE  /\ \A x \in Placed(g) : /\ g.own[x] \in Live(g) /\ At(g, x) \in 1..Len(g.kids[g.own[x]])
                                 /\ g.kids[g.own[x]][At(g, x)] = x
         /\ \A p \in Live(g) : \A i \in 1..Len(g.kids[p]) :
              UpOf(g)[g.kids[p][i]] = IF i = 1 THEN p ELSE g.kids[p][i - 1]
<1>1. ASSUME NEW x \in Placed(g)
      PROVE  /\ g.own[x] \in Live(g) /\ At(g, x) \in 1..Len(g.kids[g.own[x]])
             /\ g.kids[g.own[x]][At(g, x)] = x
  <2>1. g.own[x] \in Live(g) /\ \E i \in 1..Len(g.kids[g.own[x]]) : g.kids[g.own[x]][i] = x
    BY DEF Forest
  <2> QED BY <2>1 DEF At
<1>2. ASSUME NEW p \in Live(g), NEW i \in 1..Len(g.kids[p])
      PROVE  UpOf(g)[g.kids[p][i]] = IF i = 1 THEN p ELSE g.kids[p][i - 1]
  <2> DEFINE x == g.kids[p][i]
  <2>1. x \in Placed(g) /\ g.own[x] = p
    BY DEF Forest
  <2>2. At(g, x) = i
    BY <1>1, <2>1, OnePlace
  <2>3. x \in Ids
    BY <2>1, GhostParts
  <2> HIDE DEF x
  <2>4. UpOf(g)[x] = IF At(g, x) = 1 THEN g.own[x] ELSE g.kids[g.own[x]][At(g, x) - 1]
    BY <2>1, <2>3 DEF UpOf
  <2>5. UpOf(g)[x] = IF i = 1 THEN p ELSE g.kids[p][i - 1]
    BY <2>1, <2>2, <2>4
  <2> QED BY <2>5 DEF x
<1> QED BY <1>1, <1>2

\* The slots of a tree are threaded.
LEMMA Threads ==
  ASSUME NEW h \in Heaps, NEW g, Forest(g), Shows(h, g)
  PROVE  Threaded(h, Placed(g), UpOf(g), g.born)
<1> DEFINE P == Placed(g)
           up == UpOf(g)
<1>1. P \subseteq Slots /\ NullSlot \notin P /\ P \subseteq Live(g)
  BY GhostParts, Constants
<1>2. ASSUME NEW x \in P
      PROVE  \E p \in Live(g) : \E i \in 1..Len(g.kids[p]) :
               /\ x = g.kids[p][i] /\ h.cell[x].next = After(g.kids[p], i)
               /\ up[x] = IF i = 1 THEN p ELSE g.kids[p][i - 1]
  <2>1. g.own[x] \in Live(g) /\ At(g, x) \in 1..Len(g.kids[g.own[x]]) /\ g.kids[g.own[x]][At(g, x)] = x
    BY UpIs
  <2>2. ShowsAt(h, g, g.own[x])
    BY <2>1 DEF Shows
  <2>3. h.cell[x].next = After(g.kids[g.own[x]], At(g, x))
    BY <2>1, <2>2 DEF ShowsAt
  <2>4. up[x] = IF At(g, x) = 1 THEN g.own[x] ELSE g.kids[g.own[x]][At(g, x) - 1]
    BY <2>1, UpIs
  <2> QED BY <2>1, <2>3, <2>4
<1>3. ASSUME NEW x \in P
      PROVE  Below(h, x) = First(g.kids[x]) /\ (g.kids[x] # <<>> => 1 \in 1..Len(g.kids[x]))
  <2>1. ShowsAt(h, g, x)
    BY <1>1 DEF Shows
  <2>2. g.kids[x] \in Seq(Slots)
    BY <1>1, GhostParts
  <2>3. g.kids[x] # <<>> => 1 \in 1..Len(g.kids[x])
    BY <2>2
  <2> QED BY <2>1, <2>3 DEF ShowsAt
<1>4. ASSUME NEW x \in P
      PROVE  /\ h.cell[x].next \in P \cup {NullSlot} /\ Below(h, x) \in P \cup {NullSlot}
             /\ h.cell[x].next = Below(h, x) => Below(h, x) = NullSlot
             /\ \A y \in P : h.cell[x].next = y \/ Below(h, x) = y => up[y] = x
             /\ g.born[x] \in Nat /\ g.born[up[x]] \in Nat /\ g.born[up[x]] < g.born[x]
  <2>0. PICK p \in Live(g) : \E i \in 1..Len(g.kids[p]) :
               /\ x = g.kids[p][i] /\ h.cell[x].next = After(g.kids[p], i)
               /\ up[x] = IF i = 1 THEN p ELSE g.kids[p][i - 1]
    BY <1>2
  <2>1. PICK i \in 1..Len(g.kids[p]) :
               /\ x = g.kids[p][i] /\ h.cell[x].next = After(g.kids[p], i)
               /\ up[x] = IF i = 1 THEN p ELSE g.kids[p][i - 1]
    BY <2>0
  <2>2. Len(g.kids[p]) \in Nat /\ p \in Ids /\ x \in Ids /\ x \in Live(g)
    BY <1>1, GhostParts
  <2>3. ASSUME h.cell[x].next # NullSlot
        PROVE  /\ i + 1 \in 1..Len(g.kids[p]) /\ h.cell[x].next = g.kids[p][i + 1]
               /\ up[h.cell[x].next] = x /\ h.cell[x].next \in P /\ g.own[h.cell[x].next] = p
    <3>1. i + 1 \in 1..Len(g.kids[p]) /\ h.cell[x].next = g.kids[p][i + 1]
      BY <2>1, <2>2, <2>3 DEF After
    <3>2. up[g.kids[p][i + 1]] = g.kids[p][i]
      <4>1. i + 1 # 1 /\ (i + 1) - 1 = i
        BY <2>2
      <4> QED BY <3>1, <4>1, UpIs
    <3>3. g.kids[p][i + 1] \in P /\ g.own[g.kids[p][i + 1]] = p
      BY <3>1 DEF Forest
    <3> QED BY <2>1, <3>1, <3>2, <3>3
  <2>4. ASSUME Below(h, x) # NullSlot
        PROVE  Below(h, x) \in P /\ up[Below(h, x)] = x /\ g.own[Below(h, x)] = x
    <3>1. g.kids[x] # <<>> /\ Below(h, x) = g.kids[x][1] /\ 1 \in 1..Len(g.kids[x])
      BY <1>3, <2>4 DEF First
    <3>2. up[g.kids[x][1]] = x
      BY <2>2, <3>1, UpIs
    <3>3. g.kids[x][1] \in P /\ g.own[g.kids[x][1]] = x
      BY <2>2, <3>1 DEF Forest
    <3> QED BY <3>1, <3>2, <3>3
  <2>5. g.born[x] \in Nat /\ g.born[up[x]] \in Nat /\ g.born[up[x]] < g.born[x]
    <3>1. CASE i = 1
      <4>1. up[x] = p /\ g.born[p] < g.born[x]
        BY <2>1, <3>1 DEF Forest
      <4> QED BY <2>2, <4>1, GhostParts
    <3>2. CASE i # 1
      <4>1. i - 1 \in 1..Len(g.kids[p]) /\ i - 1 < i
        BY <2>2, <3>2
      <4>2. up[x] = g.kids[p][i - 1] /\ g.born[g.kids[p][i - 1]] < g.born[x]
        BY <2>1, <3>2, <4>1 DEF Forest
      <4>3. g.kids[p][i - 1] \in Ids
        BY <2>2, <4>1, GhostParts, Constants
      <4> QED BY <2>2, <4>2, <4>3, GhostParts
    <3> QED BY <3>1, <3>2
  <2>6. p # x
    <3>1. g.born[p] < g.born[x] /\ g.born[x] \in Nat
      BY <2>1, <2>5 DEF Forest
    <3> QED BY <3>1
  <2> QED BY <1>1, <2>3, <2>4, <2>5, <2>6
<1> QED BY <1>1, <1>4 DEF Threaded

\* What clear() frees is all that is below the slot, each once, and nothing
\* else.
LEMMA UnderOK ==
  ASSUME NEW h \in Heaps, NEW g, Forest(g), Shows(h, g), NEW v \in Live(g)
  PROVE  LET s == Under(h, v)
             F == ToSet(s)
         IN /\ s \in Seq(Slots) /\ Distinct(s) /\ F \subseteq Placed(g) /\ v \notin F
            /\ \A p \in F \cup {v} : \A i \in 1..Len(g.kids[p]) : g.kids[p][i] \in F
            /\ \A x \in F : g.own[x] \in F \cup {v} /\ g.born[v] < g.born[x]
<1> DEFINE s == Under(h, v)
           F == ToSet(s)
           x0 == Below(h, v)
           up == UpOf(g)
<1>1. Placed(g) \subseteq Slots /\ NullSlot \notin Placed(g) /\ Placed(g) \subseteq Live(g)
      /\ Live(g) \subseteq Ids /\ v \in Ids
  BY GhostParts, Constants
<1>2. ASSUME NEW p \in Live(g)
      PROVE  Below(h, p) = First(g.kids[p]) /\ g.kids[p] \in Seq(Slots) /\ Len(g.kids[p]) \in Nat
             /\ \A i \in 1..Len(g.kids[p]) : h.cell[g.kids[p][i]].next = After(g.kids[p], i)
  <2>1. ShowsAt(h, g, p)
    BY DEF Shows
  <2> QED BY <1>1, <2>1, GhostParts DEF ShowsAt
<1>3. s = Walk(h)[x0]
  BY DEF Under
<1>4. s \in Seq(Slots)
  BY <1>1, UnderTypes
<1>5. CASE g.kids[v] = <<>>
  <2>1. x0 = NullSlot
    BY <1>2, <1>5 DEF First
  <2>2. Walk(h)[NullSlot] = <<>>
    <3>1. PICK w : IsWalk(w, h) /\ Walk(h) = w[NullSlot]
      BY WalkIs
    <3>2. NullSlot \in 1..NullSlot /\ NullSlot \in Links
      BY Constants
    <3>3. w[NullSlot] = Further(h, w[NullSlot - 1])
      BY <3>1, <3>2 DEF IsWalk
    <3> QED BY <3>1, <3>2, <3>3 DEF Further
  <2>3. s = <<>>
    BY <1>3, <2>1, <2>2
  <2>4. F = {} /\ Distinct(s)
    BY <2>3, SetOfNone
  <2>5. \A i \in 1..Len(g.kids[v]) : FALSE
    BY <1>5
  <2> HIDE DEF s, F
  <2>6. /\ s \in Seq(Slots) /\ Distinct(s) /\ F \subseteq Placed(g) /\ v \notin F
        /\ \A p \in F \cup {v} : \A i \in 1..Len(g.kids[p]) : g.kids[p][i] \in F
        /\ \A x \in F : g.own[x] \in F \cup {v} /\ g.born[v] < g.born[x]
    BY <1>4, <2>4, <2>5
  <2> QED BY <2>6 DEF s, F
<1>6. CASE g.kids[v] # <<>>
  <2>1. 1 \in 1..Len(g.kids[v]) /\ x0 = g.kids[v][1]
    BY <1>2, <1>6 DEF First
  <2>2. x0 \in Placed(g) /\ g.own[x0] = v /\ g.born[v] < g.born[x0]
    BY <2>1 DEF Forest
  <2>3. Walked(h, Placed(g), up, g.born, x0, s)
    BY <1>3, <2>2, Threads, WalkOK
  <2>4. F \subseteq Placed(g) /\ Distinct(s)
    BY <2>3, SetOf DEF Walked
  <2> HIDE DEF s, F, x0, up
  <2>5. \A y \in F : /\ h.cell[y].next \in F \cup {NullSlot} /\ Below(h, y) \in F \cup {NullSlot}
                     /\ g.born[x0] <= g.born[y] /\ (y # x0 => up[y] \in F)
    BY <2>3 DEF Walked, F
  <2>6. x0 \in F
    BY <2>3 DEF Walked, F
  <2>7. g.born[v] \in Nat /\ g.born[x0] \in Nat /\ \A y \in F : g.born[y] \in Nat
    BY <1>1, <2>2, <2>4, GhostParts
  <2>8. ASSUME NEW p \in F \cup {v} PROVE \A i \in 1..Len(g.kids[p]) : g.kids[p][i] \in F
    <3> DEFINE n == Len(g.kids[p])
               T == {i \in 1..n : g.kids[p][i] \in F}
    <3>1. p \in Live(g) /\ n \in Nat
      BY <1>1, <1>2, <2>4
    <3>2. n > 0 => 1 \in T
      <4> SUFFICES ASSUME n > 0 PROVE g.kids[p][1] \in F
        BY <3>1
      <4>1. g.kids[p] # <<>> /\ 1 \in 1..n
        BY <1>2, <3>1
      <4>2. Below(h, p) = g.kids[p][1] /\ g.kids[p][1] \in Placed(g)
        BY <1>2, <3>1, <4>1 DEF First, Forest
      <4>3. CASE p = v
        BY <2>6, <4>2, <4>3 DEF x0
      <4>4. CASE p \in F
        BY <1>1, <2>5, <4>2, <4>4
      <4> QED BY <4>3, <4>4
    <3>3. ASSUME NEW i \in 1..(n - 1), i \in T PROVE i + 1 \in T
      <4>1. i \in 1..n /\ i + 1 \in 1..n /\ i < n
        BY <3>1
      <4>2. h.cell[g.kids[p][i]].next = g.kids[p][i + 1] /\ g.kids[p][i + 1] \in Placed(g)
        BY <1>2, <3>1, <4>1 DEF After, Forest
      <4>3. g.kids[p][i] \in F
        BY <3>3
      <4> QED BY <1>1, <2>5, <4>1, <4>2, <4>3
    <3>4. CASE n > 0
      <4>1. 1 \in Int /\ n \in Int /\ 1 \in T
        BY <3>1, <3>2, <3>4
      <4> HIDE DEF T, n
      <4>2. \A i \in 1..n : i \in T
        BY ONLY <3>3, <4>1, InductionFrom, Zenon
      <4> QED BY <4>2 DEF T, n
    <3>5. CASE ~(n > 0)
      BY <3>1, <3>5
    <3> QED BY <3>4, <3>5
  <2>9. ASSUME NEW x \in F PROVE g.own[x] \in F \cup {v} /\ g.born[v] < g.born[x]
    <3> DEFINE c == g.own[x]
               n == Len(g.kids[c])
               T == {i \in 1..n : g.kids[c][i] \in F => c \in F \cup {v}}
    <3>1. c \in Live(g) /\ n \in Nat /\ At(g, x) \in 1..n /\ g.kids[c][At(g, x)] = x
      BY <1>2, <2>4, UpIs
    <3>2. 1 \in T
      <4> SUFFICES ASSUME g.kids[c][1] \in F PROVE c \in F \cup {v}
        BY <3>1
      <4>1. 1 \in 1..n
        BY <3>1
      <4>2. up[g.kids[c][1]] = c /\ g.own[g.kids[c][1]] = c
        BY <3>1, <4>1, UpIs DEF up, Forest
      <4> QED BY <2>2, <2>5, <4>2
    <3>3. ASSUME NEW i \in 1..(n - 1), i \in T PROVE i + 1 \in T
      <4>1. i \in 1..n /\ i + 1 \in 1..n /\ i + 1 # 1 /\ (i + 1) - 1 = i
        BY <3>1
      <4> SUFFICES ASSUME g.kids[c][i + 1] \in F PROVE c \in F \cup {v}
        BY <4>1
      <4>2. up[g.kids[c][i + 1]] = g.kids[c][i]
        BY <3>1, <4>1, UpIs DEF up
      <4>3. g.kids[c][i + 1] # x0
        <5> SUFFICES ASSUME g.kids[c][i + 1] = x0 PROVE FALSE
          OBVIOUS
        <5>1. i + 1 = 1
          BY <2>1, <3>1, <4>1, OnePlace
        <5> QED BY <4>1, <5>1
      <4>4. g.kids[c][i] \in F
        BY <2>5, <4>2, <4>3
      <4> QED BY <3>3, <4>4
    <3>4. c \in F \cup {v}
      <4>1. 1 \in Int /\ n \in Int
        BY <3>1
      <4> HIDE DEF T, n
      <4>2. \A i \in 1..n : i \in T
        BY ONLY <3>2, <3>3, <4>1, InductionFrom, Zenon
      <4>3. At(g, x) \in T
        BY <3>1, <4>2
      <4> QED BY <3>1, <4>3 DEF T
    <3>5. g.born[v] < g.born[x]
      BY <2>2, <2>5, <2>7
    <3> QED BY <3>4, <3>5
  <2>10. v \notin F
    BY <2>7, <2>9
  <2>11. /\ s \in Seq(Slots) /\ Distinct(s) /\ F \subseteq Placed(g) /\ v \notin F
         /\ \A p \in F \cup {v} : \A i \in 1..Len(g.kids[p]) : g.kids[p][i] \in F
         /\ \A x \in F : g.own[x] \in F \cup {v} /\ g.born[v] < g.born[x]
    BY <1>4, <2>4, <2>8, <2>9, <2>10
  <2> QED BY <2>11 DEF s, F
<1> QED BY <1>5, <1>6

\* Sequences with the same entries are the same.
LEMMA SameSequence ==
  ASSUME NEW S, NEW a \in Seq(S), NEW b \in Seq(S), Len(a) = Len(b),
         \A i \in 1..Len(a) : a[i] = b[i]
  PROVE  a = b
OBVIOUS

\* The walk along the chain of a collection finds its items.
LEMMA ChildrenOK ==
  ASSUME NEW h \in Heaps, NEW g, Forest(g), Shows(h, g), NEW v \in Live(g),
         h.cell[v].type \in Collections
  PROVE  Children(h, v) = g.kids[v]
<1> DEFINE s == g.kids[v]
           first == h.cell[v].head
<1>1. /\ v \in Ids /\ s \in Seq(Slots) /\ Len(s) \in Nat /\ NullSlot \notin Slots
      /\ \A i \in 1..Len(s) : s[i] \in Slots
  BY GhostParts, Constants
<1>2. /\ first = First(s) /\ first \in Links
      /\ \A i \in 1..Len(s) : h.cell[s[i]].next = After(s, i)
  <2>1. ShowsAt(h, g, v)
    BY DEF Shows
  <2>2. first = Below(h, v)
    BY DEF Below
  <2>3. first \in Links
    BY <1>1, CellParts
  <2> QED BY <2>1, <2>2, <2>3 DEF ShowsAt
<1>3. Len(s) <= NullSlot
  BY <1>1, KidsDistinct, DistinctSlots
<1>4. Children(h, v) = Chain(h, first)
  BY DEF Children
<1>5. PICK u : IsChain(u, h, first) /\ Chain(h, first) = u[NullSlot]
  BY <1>2, ChainIs
<1> HIDE DEF s, first
<1> DEFINE T == {n \in Nat : n <= NullSlot =>
                   /\ u[n] \in Seq(Slots) /\ Len(u[n]) = IF n <= Len(s) THEN n ELSE Len(s)
                   /\ \A i \in 1..Len(u[n]) : u[n][i] = s[i]}
<1>6. 0 \in T
  <2>1. u[0] = <<>>
    BY <1>5 DEF IsChain
  <2>2. /\ u[0] \in Seq(Slots) /\ Len(u[0]) = 0
        /\ \A i \in 1..Len(u[0]) : u[0][i] = s[i]
    BY <2>1
  <2> QED BY <1>1, <2>2
<1>7. ASSUME NEW n \in Nat, n \in T PROVE n + 1 \in T
  <2> SUFFICES ASSUME n + 1 <= NullSlot
               PROVE  /\ u[n + 1] \in Seq(Slots)
                      /\ Len(u[n + 1]) = IF n + 1 <= Len(s) THEN n + 1 ELSE Len(s)
                      /\ \A i \in 1..Len(u[n + 1]) : u[n + 1][i] = s[i]
    OBVIOUS
  <2> DEFINE a == u[n]
             id == IF a = <<>> THEN first ELSE h.cell[a[Len(a)]].next
  <2>1. /\ a \in Seq(Slots) /\ Len(a) = IF n <= Len(s) THEN n ELSE Len(s)
        /\ \A i \in 1..Len(a) : a[i] = s[i]
    BY <1>7, Constants
  <2>2. u[n + 1] = IF id = NullSlot THEN a ELSE Append(a, id)
    <3>1. n + 1 \in 1..NullSlot /\ (n + 1) - 1 = n
      BY Constants
    <3>2. u[n + 1] = Longer(h, first, u[n])
      BY <1>5, <3>1 DEF IsChain
    <3> QED BY <3>2 DEF Longer
  <2>3. id = IF Len(a) < Len(s) THEN s[Len(a) + 1] ELSE NullSlot
    <3>1. CASE a = <<>>
      <4>1. Len(a) = 0 /\ id = First(s) /\ (s = <<>> <=> Len(s) = 0)
        BY <1>1, <1>2, <3>1
      <4> QED BY <1>1, <4>1 DEF First
    <3>2. CASE a # <<>>
      <4>1. Len(a) \in 1..Len(s) /\ a[Len(a)] = s[Len(a)]
        BY <1>1, <2>1, <3>2
      <4>2. id = After(s, Len(a))
        BY <1>2, <3>2, <4>1
      <4> QED BY <4>2 DEF After
    <3> QED BY <3>1, <3>2
  <2> HIDE DEF a, id
  <2>4. CASE Len(a) < Len(s)
    <3>1. Len(a) + 1 \in 1..Len(s) /\ id = s[Len(a) + 1] /\ id \in Slots /\ id # NullSlot
      BY <1>1, <2>1, <2>3, <2>4
    <3>2. u[n + 1] = Append(a, id)
      BY <2>2, <3>1
    <3>3. /\ Append(a, id) \in Seq(Slots) /\ Len(Append(a, id)) = Len(a) + 1
          /\ Append(a, id)[Len(a) + 1] = id
          /\ \A i \in 1..Len(a) : Append(a, id)[i] = a[i]
      BY <2>1, <3>1
    <3>4. Len(a) = n /\ n + 1 <= Len(s)
      BY <1>1, <2>1, <2>4
    <3>5. \A i \in 1..(n + 1) : Append(a, id)[i] = s[i]
      BY <2>1, <3>1, <3>3, <3>4
    <3> QED BY <3>2, <3>3, <3>4, <3>5
  <2>5. CASE ~(Len(a) < Len(s))
    <3>1. u[n + 1] = a /\ Len(a) = Len(s) /\ (n + 1 <= Len(s) => FALSE)
      BY <1>1, <2>1, <2>2, <2>3, <2>5
    <3> QED BY <1>1, <2>1, <3>1
  <2> QED BY <2>4, <2>5
<1>8. NullSlot \in T
  <2> HIDE DEF T
  <2> QED BY <1>6, <1>7, Induction, Constants
<1>9. /\ u[NullSlot] \in Seq(Slots) /\ Len(u[NullSlot]) = Len(s)
      /\ \A i \in 1..Len(u[NullSlot]) : u[NullSlot][i] = s[i]
  BY <1>1, <1>3, <1>8, Constants
<1>10. u[NullSlot] = s
  BY <1>1, <1>9, SameSequence
<1> QED BY <1>4, <1>5, <1>10 DEF s

\* From the root all slots of the document are reached.
LEMMA Reaches ==
  ASSUME NEW h \in Heaps, NEW g, Forest(g), Shows(h, g), g.pending = {}
  PROVE  ToSet(Under(h, Root)) = g.nodes
<1> DEFINE F == ToSet(Under(h, Root))
           Others == g.nodes \ F
           T == {g.born[x] : x \in Others}
<1>1. Root \in Live(g) /\ Placed(g) = g.nodes /\ \A x \in g.nodes : g.born[x] \in Nat
  BY GhostParts DEF Placed
<1>2. /\ F \subseteq g.nodes
      /\ \A p \in F \cup {Root} : \A i \in 1..Len(g.kids[p]) : g.kids[p][i] \in F
  BY <1>1, UnderOK
<1> HIDE DEF F
<1>3. ASSUME Others # {} PROVE FALSE
  <2>1. T \subseteq Nat /\ T # {}
    BY <1>1, <1>3
  <2>2. PICK x \in Others : \A y \in Others : g.born[x] <= g.born[y]
    <3>1. PICK t \in T : \A r \in T : t <= r
      BY <2>1, LeastNatural
    <3> QED BY <3>1
  <2>3. g.own[x] \in Live(g) /\ \E i \in 1..Len(g.kids[g.own[x]]) : g.kids[g.own[x]][i] = x
    BY <1>1 DEF Forest
  <2>4. g.born[g.own[x]] < g.born[x]
    BY <2>3 DEF Forest
  <2>5. g.own[x] \notin Others
    <3> SUFFICES ASSUME g.own[x] \in Others PROVE FALSE
      OBVIOUS
    <3>1. g.born[x] <= g.born[g.own[x]] /\ g.born[x] \in Nat /\ g.born[g.own[x]] \in Nat
      BY <1>1, <2>2
    <3> QED BY <2>4, <3>1
  <2>6. g.own[x] \in F \cup {Root}
    BY <2>3, <2>5 DEF Live
  <2>7. x \in F
    BY <1>2, <2>3, <2>6
  <2> QED BY <2>7
<1> QED BY <1>2, <1>3 DEF F

-----------------------------------------------------------------------------
(***************************************************************************)
(* The slots that were given out are in the tree, free, or lost; every     *)
(* string has as many references as there are variants with it.            *)
(***************************************************************************)
Memory(h, g) ==
  /\ Distinct(h.free)
  /\ g.nodes \cap ToSet(h.free) = {} /\ g.nodes \cap h.lost = {} /\ ToSet(h.free) \cap h.lost = {}
  /\ g.nodes \cup ToSet(h.free) \cup h.lost = Given(h)
\* Each string has the references that variants hold, no more.
Exact(h) == \A t \in Texts : h.refs[t] = Cardinality(Strings(h, t))

\* The heap and its tree agree.
Good(h, g) == h \in Heaps /\ Forest(g) /\ Shows(h, g) /\ Memory(h, g) /\ Exact(h)

\* Then every slot is used once, as SlotsOnce says.
LEMMA SlotsAreOnce ==
  ASSUME NEW h, NEW g, Good(h, g), g.pending = {}, g.out = {}
  PROVE  LET used == Under(h, Root) \o h.free
         IN /\ IsInjective(used)
            /\ ToSet(used) \cap h.lost = {}
            /\ ToSet(used) \cup h.lost = Given(h)
            /\ \A c \in Variants(h) : h.cell[c].type \in Collections =>
                 h.cell[c].tail = IF Children(h, c) = <<>> THEN NullSlot
                                  ELSE Children(h, c)[Len(Children(h, c))]
<1> DEFINE u == Under(h, Root)
           used == u \o h.free
<1>0. h \in Heaps /\ Forest(g) /\ Shows(h, g) /\ Memory(h, g)
  BY DEF Good
<1>1. u \in Seq(Slots) /\ Distinct(u) /\ ToSet(u) = g.nodes /\ h.free \in Seq(Slots)
  <2>1. Root \in Live(g)
    BY <1>0, GhostParts
  <2> QED BY <1>0, <2>1, UnderOK, Reaches, HeapParts
<1>2. Variants(h) \subseteq Live(g)
  BY <1>0, Reaches DEF Variants, Reached, Live
<1>3. ASSUME NEW c \in Live(g), h.cell[c].type \in Collections
      PROVE  h.cell[c].tail = IF Children(h, c) = <<>> THEN NullSlot
                              ELSE Children(h, c)[Len(Children(h, c))]
  <2>1. Children(h, c) = g.kids[c]
    BY <1>0, <1>3, ChildrenOK
  <2>2. ShowsAt(h, g, c)
    BY <1>0 DEF Shows
  <2> QED BY <1>3, <2>1, <2>2 DEF ShowsAt, Final
<1> HIDE DEF u
<1>4. used \in Seq(Slots) /\ ToSet(used) = g.nodes \cup ToSet(h.free) /\ Distinct(used)
  <2>1. Distinct(h.free) /\ ToSet(u) \cap ToSet(h.free) = {}
    BY <1>0, <1>1 DEF Memory
  <2> QED BY <1>1, <2>1, Joined
<1> HIDE DEF used
<1>5. IsInjective(used)
  BY <1>4, SetOf
<1>6. ToSet(used) \cap h.lost = {} /\ ToSet(used) \cup h.lost = Given(h)
  BY <1>0, <1>4 DEF Memory
<1> QED BY <1>2, <1>3, <1>5, <1>6 DEF used, u

\* And the references are counted, as StringsCounted says.
LEMMA StringsAreCounted ==
  ASSUME NEW h, NEW g, Good(h, g), g.pending = {}
  PROVE  \A t \in Texts : h.refs[t] = Cardinality(Holders(h, Variants(h), t))
<1> TAKE t \in Texts
<1>0. h \in Heaps /\ Forest(g) /\ Shows(h, g) /\ Exact(h)
  BY DEF Good
<1>1. Variants(h) = {Root} \cup {id \in g.nodes : h.cell[id].type \in VariantTypes}
  BY <1>0, Reaches DEF Variants, Reached
<1>2. g.nodes \subseteq Ids /\ Root \in Ids /\ InPool \subseteq VariantTypes
  BY <1>0, GhostParts, Constants DEF InPool, VariantTypes
<1>3. \A x \in Ids \ Live(g) : h.cell[x].type \notin InPool
  BY <1>0 DEF Shows
<1>4. Holders(h, Variants(h), t) = Strings(h, t)
  BY <1>1, <1>2, <1>3 DEF Holders, Strings, Live
<1> QED BY <1>0, <1>4 DEF Exact

(***************************************************************************)
(* The numbers of the slots.                                               *)
(***************************************************************************)
\* Two multiples of a number are apart by that number at least.
LEMMA Products ==
  ASSUME NEW a \in Nat, NEW b \in Nat, NEW c \in Nat, a < b
  PROVE  a * c \in Nat /\ b * c \in Nat /\ a * c + c <= b * c
<1>1. PICK d \in Nat : b = a + 1 + d
  <2>1. b - a - 1 \in Nat /\ b = a + 1 + (b - a - 1)
    OBVIOUS
  <2> QED BY <2>1
<1>2. b * c = a * c + c + d * c
  BY <1>1
<1>3. a * c \in Nat /\ d * c \in Nat
  OBVIOUS
<1> QED BY <1>2, <1>3

\* The ids of all pools but the last slot are the numbers below NullSlot.
LEMMA LargestSlot ==
  /\ MaxPools \in Nat /\ MaxPools > 0 /\ (MaxPools - 1) * PoolCapacity \in Nat
  /\ NullSlot = (MaxPools - 1) * PoolCapacity + PoolCapacity - 1
<1>1. NullSlot % PoolCapacity = PoolCapacity - 1
  BY PoolAssumption
<1>2. /\ NullSlot \div PoolCapacity \in Nat
      /\ NullSlot = PoolCapacity * (NullSlot \div PoolCapacity) + (NullSlot % PoolCapacity)
  BY Constants
<1>3. MaxPools - 1 = NullSlot \div PoolCapacity
  BY <1>2 DEF MaxPools
<1>4. PoolCapacity * (NullSlot \div PoolCapacity) = (MaxPools - 1) * PoolCapacity
  BY <1>2, <1>3, Constants
<1> QED BY <1>1, <1>2, <1>3, <1>4, Constants DEF MaxPools

\* The slots that the n-th pool has given out.
FromPoolN(h, n) == ((n - 1) * PoolCapacity)..((n - 1) * PoolCapacity + h.pools[n].used - 1)

\* The slots given out, pool by pool.
LEMMA GivenIs ==
  ASSUME NEW h \in Heaps
  PROVE  /\ Len(h.pools) \in Nat /\ Given(h) \subseteq Slots
         /\ \A id : id \in Given(h) <=> id \in Slots /\ \E n \in 1..Len(h.pools) : id \in FromPoolN(h, n)
         /\ \A n \in 1..Len(h.pools) : h.pools[n].used \in 0..PoolCapacity /\ h.pools[n].size \in 0..PoolCapacity
<1>1. h.pools \in Seq(Pools)
  BY HeapParts
<1>2. Len(h.pools) \in Nat /\ DOMAIN h.pools = 1..Len(h.pools) /\ \A n \in 1..Len(h.pools) : h.pools[n] \in Pools
  BY <1>1, Entries
<1> QED BY <1>2 DEF Given, FromPoolN, Pools

\* A pool that has given out nothing changes nothing.
LEMMA GivenStays ==
  ASSUME NEW h \in Heaps, NEW k \in Heaps, Len(h.pools) <= Len(k.pools),
         \A n \in 1..Len(h.pools) : k.pools[n].used = h.pools[n].used,
         \A n \in 1..Len(k.pools) : n \notin 1..Len(h.pools) => k.pools[n].used = 0
  PROVE  Given(k) = Given(h)
<1>1. Len(h.pools) \in Nat /\ Len(k.pools) \in Nat
  BY GivenIs
<1>2. \A n \in 1..Len(h.pools) : n \in 1..Len(k.pools) /\ FromPoolN(k, n) = FromPoolN(h, n)
  BY <1>1 DEF FromPoolN
<1>3. ASSUME NEW n \in 1..Len(k.pools), n \notin 1..Len(h.pools) PROVE FromPoolN(k, n) = {}
  <2>1. (n - 1) * PoolCapacity \in Nat
    <3>1. n - 1 \in Nat
      BY <1>1
    <3> QED BY <3>1, Constants
  <2>2. k.pools[n].used = 0
    BY <1>3
  <2> HIDE <1>3
  <2> QED BY <2>1, <2>2 DEF FromPoolN
<1>4. \A id : id \in Given(k) <=> id \in Given(h)
  <2> TAKE id
  <2>1. id \in Given(k) <=> id \in Slots /\ \E n \in 1..Len(k.pools) : id \in FromPoolN(k, n)
    BY GivenIs
  <2>2. id \in Given(h) <=> id \in Slots /\ \E n \in 1..Len(h.pools) : id \in FromPoolN(h, n)
    BY GivenIs
  <2> QED BY ONLY <1>2, <1>3, <2>1, <2>2
<1> QED BY <1>4

\* A pool with room has a slot that is not given out yet.
LEMMA NewSlot ==
  ASSUME NEW h \in Heaps, Counted(h), NEW k \in Heaps, Used(h, k), Len(h.pools) <= MaxPools
  PROVE  /\ Number(h) \in Slots /\ Number(h) % (NullSlot + 1) = Number(h)
         /\ Number(h) \notin Given(h) /\ Given(k) = Given(h) \cup {Number(h)}
<1> DEFINE last == Len(h.pools)
           C == PoolCapacity
           used == h.pools[last].used
           base == (last - 1) * C
<1>1. /\ last \in Nat \ {0} /\ Len(k.pools) = last /\ C \in Nat \ {0} /\ last <= MaxPools
      /\ \A n \in 1..last : h.pools[n].used \in 0..C /\ h.pools[n].size \in 0..C
      /\ DOMAIN h.pools = 1..last
  <2>1. h.pools \in Seq(Pools) /\ h.pools # <<>>
    BY HeapParts DEF Used
  <2>2. Len(h.pools) # 0 /\ DOMAIN h.pools = 1..Len(h.pools)
    BY <2>1
  <2> QED BY <2>2, GivenIs, Constants DEF Used
<1>2. /\ used \in Nat /\ used < h.pools[last].size /\ k.pools[last].used = used + 1
      /\ \A n \in 1..last : n # last => k.pools[n] = h.pools[n]
      /\ last = MaxPools => h.pools[last].size < C
  <2>1. last \in 1..last
    BY <1>1
  <2>2. last \in DOMAIN h.pools
    BY <1>1
  <2>3. last = MaxPools => h.pools[last].size < C
    BY <2>2 DEF Counted
  <2> QED BY <1>1, <2>1, <2>2, <2>3 DEF Used, LastPool
<1>3. base \in Nat /\ Number(h) = base + used
  <2>1. last - 1 \in Nat
    BY <1>1
  <2> QED BY <1>1, <2>1 DEF Number, LastPool
<1>4. used < C
  BY <1>1, <1>2
<1>5. base + used < NullSlot
  <2>1. CASE last = MaxPools
    <3>1. used < C - 1
      BY <1>1, <1>2, <2>1
    <3>2. NullSlot = base + C - 1
      BY <2>1, LargestSlot
    <3> QED BY <1>1, <1>2, <1>3, <3>1, <3>2
  <2>2. CASE last # MaxPools
    <3>1. last - 1 \in Nat /\ MaxPools - 1 \in Nat /\ last - 1 < MaxPools - 1
      BY <1>1, <2>2, LargestSlot
    <3>2. base + C <= (MaxPools - 1) * C
      BY <1>1, <3>1, Products
    <3> HIDE DEF base, C
    <3>3. NullSlot = (MaxPools - 1) * C + C - 1 /\ (MaxPools - 1) * C \in Nat
      BY LargestSlot DEF C
    <3> QED BY <1>1, <1>2, <1>3, <1>4, <3>2, <3>3
  <2> QED BY <2>1, <2>2
<1>6. \A n \in 1..last : n # last => \A id \in FromPoolN(h, n) : id < base
  <2> TAKE n \in 1..last
  <2> HAVE n # last
  <2>1. n - 1 \in Nat /\ last - 1 \in Nat /\ n - 1 < last - 1
    BY <1>1
  <2> DEFINE b == (n - 1) * C
             m == h.pools[n].used
  <2>2. b \in Nat /\ b + C <= base
    BY <1>1, <2>1, Products
  <2>3. m \in 0..C
    BY <1>1
  <2>4. FromPoolN(h, n) = b..(b + m - 1)
    BY DEF FromPoolN
  <2>5. base \in Nat /\ C \in Nat
    BY <1>1, <1>3
  <2> HIDE DEF base, b, m, C
  <2> QED BY ONLY <2>2, <2>3, <2>4, <2>5
<1>7. /\ FromPoolN(h, last) = base..(base + used - 1)
      /\ FromPoolN(k, last) = base..(base + used)
      /\ \A n \in 1..last : n # last => FromPoolN(k, n) = FromPoolN(h, n)
  <2>1. FromPoolN(k, last) = base..(base + (used + 1) - 1)
    BY <1>2 DEF FromPoolN
  <2>2. base + (used + 1) - 1 = base + used
    BY <1>2, <1>3
  <2>3. FromPoolN(h, last) = base..(base + used - 1)
    BY DEF FromPoolN
  <2>4. \A n \in 1..last : n # last => FromPoolN(k, n) = FromPoolN(h, n)
    BY <1>2 DEF FromPoolN
  <2> QED BY <2>1, <2>2, <2>3, <2>4
<1> HIDE DEF base, used, C
<1>8. Number(h) \in Slots /\ Number(h) \in Nat
  BY <1>2, <1>3, <1>5, Constants
<1>9. Number(h) % (NullSlot + 1) = Number(h)
  BY <1>3, <1>5, <1>8, Constants
<1>10. Number(h) \notin Given(h)
  <2>1. ASSUME NEW n \in 1..last PROVE Number(h) \notin FromPoolN(h, n)
    <3>1. CASE n = last
      BY <1>2, <1>3, <1>7, <3>1
    <3>2. CASE n # last
      BY <1>2, <1>3, <1>6, <3>2
    <3> QED BY <3>1, <3>2
  <2> QED BY <2>1, GivenIs
<1>11. Given(k) = Given(h) \cup {Number(h)}
  <2>1. \A id : id \in Given(h) <=> id \in Slots /\ \E n \in 1..last : id \in FromPoolN(h, n)
    BY GivenIs
  <2>2. \A id : id \in Given(k) <=> id \in Slots /\ \E n \in 1..last : id \in FromPoolN(k, n)
    BY <1>1, GivenIs
  <2>3. FromPoolN(k, last) = FromPoolN(h, last) \cup {Number(h)}
    BY <1>2, <1>3, <1>7
  <2>4. last \in 1..last
    BY <1>1
  <2> HIDE DEF last
  <2>5. ASSUME NEW id \in Given(k) PROVE id \in Given(h) \cup {Number(h)}
    <3>1. PICK n \in 1..last : id \in FromPoolN(k, n)
      BY <2>2
    <3> QED BY <1>7, <2>1, <2>2, <2>3, <3>1
  <2>6. ASSUME NEW id \in Given(h) PROVE id \in Given(k)
    <3>1. PICK n \in 1..last : id \in FromPoolN(h, n)
      BY <2>1
    <3>2. id \in FromPoolN(k, n)
      BY <1>7, <2>3, <3>1
    <3> QED BY <2>1, <2>2, <3>2
  <2>7. Number(h) \in Given(k)
    BY <1>8, <2>2, <2>3, <2>4
  <2> QED BY <2>5, <2>6, <2>7
<1> QED BY <1>8, <1>9, <1>10, <1>11

-----------------------------------------------------------------------------
(***************************************************************************)
(* A slot that allocSlot() gives is not in use.                            *)
(***************************************************************************)

\* The parts of Good.
LEMMA GoodParts ==
  ASSUME NEW h, NEW g, Good(h, g)
  PROVE  /\ h \in Heaps /\ Forest(g) /\ Shows(h, g) /\ Memory(h, g) /\ Exact(h)
         /\ h.free \in Seq(Slots) /\ ToSet(h.free) \subseteq Slots /\ h.lost \subseteq Slots
         /\ Live(g) \subseteq Ids /\ \A p \in Live(g) : ShowsAt(h, g, p)
<1>1. h \in Heaps /\ Forest(g) /\ Shows(h, g) /\ Memory(h, g) /\ Exact(h)
  BY DEF Good
<1>2. h.free \in Seq(Slots) /\ h.lost \subseteq Slots
  BY <1>1, HeapParts
<1>3. ToSet(h.free) \subseteq Slots
  BY <1>2, SetOf
<1>4. Live(g) \subseteq Ids
  BY <1>1, GhostParts
<1> QED BY <1>1, <1>2, <1>3, <1>4 DEF Shows

\* What Good says depends on these parts of the heap only.
LEMMA SameGood ==
  ASSUME NEW h, NEW g, Good(h, g), NEW k \in Heaps, SameBut(h, k), Given(k) = Given(h)
  PROVE  Good(k, g)
<1>1. h \in Heaps /\ Forest(g) /\ Shows(h, g) /\ Memory(h, g) /\ Exact(h)
  BY DEF Good
<1>2. Shows(k, g)
  BY <1>1 DEF Shows, ShowsAt, Below, SameBut
<1>3. Memory(k, g)
  BY <1>1 DEF Memory, SameBut
<1>4. Exact(k)
  BY <1>1 DEF Exact, SameBut, Strings, Holders
<1> QED BY <1>1, <1>2, <1>3, <1>4 DEF Good

LEMMA ExactStays ==
  ASSUME NEW h \in Heaps, Exact(h), NEW k \in Heaps, Balanced(h, k)
  PROVE  Exact(k)
<1> SUFFICES ASSUME NEW t \in Texts PROVE k.refs[t] = Cardinality(Strings(k, t))
  BY DEF Exact
<1>1. Cardinality(Strings(h, t)) \in Nat /\ Cardinality(Strings(k, t)) \in Nat
  BY HoldersFinite
<1>2. h.refs[t] \in Int /\ k.refs[t] \in Int
  <2>1. h.refs \in [Texts -> Int] /\ k.refs \in [Texts -> Int]
    BY HeapParts
  <2> QED BY <2>1
<1>3. h.refs[t] = Cardinality(Strings(h, t))
  BY DEF Exact
<1>4. k.refs[t] - Cardinality(Strings(k, t)) = h.refs[t] - Cardinality(Strings(h, t))
  BY DEF Balanced
<1> QED BY <1>1, <1>2, <1>3, <1>4

\* A slot that is neither in the document nor free nor lost, or the first free
\* one: allocSlot() gives no slot that is in use.
LEMMA allocSlotGives ==
  ASSUME NEW h \in Heaps, Counted(h), NEW g, Good(h, g), Len(allocSlot(h).heap.pools) <= MaxPools
  PROVE  LET r == allocSlot(h)
         IN /\ r.heap \in Heaps /\ r.id \in Links /\ r.heap.cell = h.cell /\ r.heap.refs = h.refs
            /\ r.heap.lost = h.lost
            /\ r.id = NullSlot => Good(r.heap, g)
            /\ r.id # NullSlot =>
                 /\ r.id \in Slots /\ r.id \notin g.nodes /\ r.id \notin h.lost
                 /\ Distinct(r.heap.free) /\ r.id \notin ToSet(r.heap.free)
                 /\ ToSet(r.heap.free) \subseteq ToSet(h.free)
                 /\ Given(r.heap) = g.nodes \cup {r.id} \cup ToSet(r.heap.free) \cup h.lost
<1> DEFINE r == allocSlot(h)
           k == r.heap
<1>1. Grows(h, k) /\ r.id \in Links /\ Taken(h, r)
  BY allocSlotOK
<1>2. k \in Heaps
  BY <1>1 DEF Grows
<1>3. /\ h.free \in Seq(Slots) /\ h.lost \subseteq Slots /\ Distinct(h.free)
      /\ g.nodes \cap ToSet(h.free) = {} /\ g.nodes \cap h.lost = {} /\ ToSet(h.free) \cap h.lost = {}
      /\ g.nodes \cup ToSet(h.free) \cup h.lost = Given(h)
  BY GoodParts DEF Memory
<1> HIDE DEF r
<1>4. CASE h.free # <<>>
  <2>1. /\ r.id = h.free[1] /\ k.free = Tail(h.free) /\ k.pools = h.pools
        /\ k.cell = h.cell /\ k.refs = h.refs /\ k.lost = h.lost
    BY <1>1, <1>4 DEF Taken
  <2> HIDE DEF k
  <2>2. Given(k) = Given(h)
    BY <2>1 DEF Given
  <2> DEFINE s == h.free
             q == Tail(s)
  <2>3. /\ q \in Seq(Slots) /\ Len(q) = Len(s) - 1 /\ Len(s) \in Nat \ {0} /\ s[1] \in Slots
        /\ \A i \in 1..Len(q) : q[i] = s[i + 1] /\ i + 1 \in 1..Len(s) /\ i + 1 # 1
    BY <1>3, <1>4
  <2>4. /\ \A x : x \in ToSet(s) <=> \E i \in 1..Len(s) : s[i] = x
        /\ \A x : x \in ToSet(q) <=> \E i \in 1..Len(q) : q[i] = x
    <3> HIDE DEF s, q
    <3>1. s \in Seq(Slots)
      BY <1>3 DEF s
    <3> QED BY <2>3, <3>1, Members
  <2> HIDE DEF q, s
  <2>5. Distinct(q)
    <3> SUFFICES ASSUME NEW i \in 1..Len(q), NEW j \in 1..Len(q), q[i] = q[j] PROVE i = j
      BY DEF Distinct
    <3>1. i + 1 = j + 1
      BY <1>3, <2>3 DEF Distinct, s
    <3> QED BY <2>3, <3>1
  <2>6. s[1] \notin ToSet(q)
    <3> SUFFICES ASSUME NEW i \in 1..Len(q), q[i] = s[1] PROVE FALSE
      BY <2>4
    <3>1. s[i + 1] = s[1] /\ i + 1 \in 1..Len(s) /\ 1 \in 1..Len(s)
      BY <2>3
    <3>2. i + 1 = 1
      BY <1>3, <3>1 DEF Distinct, s
    <3> QED BY <2>3, <3>2
  <2>7. ToSet(s) = {s[1]} \cup ToSet(q)
    <3>1. ASSUME NEW x \in ToSet(s) PROVE x \in {s[1]} \cup ToSet(q)
      <4>1. PICK i \in 1..Len(s) : s[i] = x
        BY <2>4
      <4>2. CASE i = 1
        BY <4>1, <4>2
      <4>3. CASE i # 1
        <5>1. i - 1 \in 1..Len(q) /\ (i - 1) + 1 = i
          BY <2>3, <4>3
        <5>2. q[i - 1] = x
          BY <2>3, <4>1, <5>1
        <5> QED BY <2>4, <5>1, <5>2
      <4> QED BY <4>2, <4>3
    <3>2. ASSUME NEW x \in ToSet(q) PROVE x \in ToSet(s)
      BY <2>3, <2>4
    <3>3. s[1] \in ToSet(s)
      <4>1. 1 \in 1..Len(s)
        BY <2>3
      <4> QED BY <2>4, <4>1
    <3> QED BY <3>1, <3>2, <3>3
  <2>8. r.id = s[1] /\ k.free = q /\ ToSet(s) = ToSet(h.free)
    BY <2>1 DEF s, q
  <2>9. s[1] # NullSlot
    BY <2>3, Constants
  <2>10. s[1] \notin g.nodes /\ s[1] \notin h.lost
    BY <1>3, <2>7, <2>8
  <2>11. Given(k) = g.nodes \cup {s[1]} \cup ToSet(q) \cup h.lost
    BY <1>3, <2>2, <2>7, <2>8
  <2> QED
    BY ONLY <1>1, <1>2, <2>1, <2>3, <2>5, <2>6, <2>7, <2>8, <2>9, <2>10, <2>11 DEF k, r
<1>5. CASE h.free = <<>>
  <2>1. PICK d \in Heaps :
         /\ Grows(h, d) /\ Extends(h, d)
         /\ \/ r.id = NullSlot /\ k = d
            \/ Used(d, k) /\ r.id = Number(d) % (NullSlot + 1)
    BY <1>1, <1>5 DEF Taken
  <2>2. SameBut(h, d) /\ Counted(d)
    BY <2>1 DEF Extends, Grows
  <2>3. Given(d) = Given(h)
    <3>1. h.pools \in Seq(Pools) /\ Len(h.pools) \in Nat /\ DOMAIN h.pools = 1..Len(h.pools)
      BY HeapParts
    <3>2. CASE d.pools = h.pools
      BY <3>2 DEF Given
    <3>3. CASE /\ Len(d.pools) = Len(h.pools) + 1 /\ d.pools[Len(h.pools) + 1].used = 0
               /\ \A n \in DOMAIN h.pools : d.pools[n] = h.pools[n]
      <4>1. Len(h.pools) <= Len(d.pools)
        BY <3>1, <3>3
      <4>2. \A n \in 1..Len(h.pools) : d.pools[n].used = h.pools[n].used
        BY <3>1, <3>3
      <4>3. \A n \in 1..Len(d.pools) : n \notin 1..Len(h.pools) => n = Len(h.pools) + 1
        BY <3>1, <3>3
      <4>4. \A n \in 1..Len(d.pools) : n \notin 1..Len(h.pools) => d.pools[n].used = 0
        BY <3>3, <4>3
      <4> QED BY <4>1, <4>2, <4>4, GivenStays
    <3> QED BY <2>1, <3>2, <3>3 DEF Extends
  <2>4. Good(d, g)
    BY <2>1, <2>2, <2>3, SameGood
  <2>5. CASE r.id = NullSlot /\ k = d
    BY <1>1, <1>2, <2>2, <2>4, <2>5 DEF SameBut, k, r
  <2>6. CASE Used(d, k) /\ r.id = Number(d) % (NullSlot + 1)
    <3>1. SameBut(d, k) /\ Len(k.pools) = Len(d.pools)
      BY <2>6 DEF Used
    <3>2. Len(d.pools) <= MaxPools
      BY <3>1 DEF k, r
    <3>3. r.id \in Slots /\ r.id \notin Given(d) /\ Given(k) = Given(d) \cup {r.id}
      BY <1>2, <2>1, <2>2, <2>6, <3>2, NewSlot
    <3>4. ToSet(k.free) = {} /\ Distinct(k.free) /\ ToSet(h.free) = {}
      BY <1>5, <2>2, <3>1, SetOfNone DEF SameBut
    <3>5. r.id # NullSlot
      BY <3>3, Constants
    <3> HIDE DEF k
    <3>6. /\ r.id \notin g.nodes /\ r.id \notin h.lost
          /\ Given(k) = g.nodes \cup {r.id} \cup ToSet(k.free) \cup h.lost
      BY <1>3, <2>3, <3>3, <3>4
    <3>7. k.cell = h.cell /\ k.refs = h.refs /\ k.lost = h.lost
      BY <2>2, <3>1 DEF SameBut
    <3> QED BY ONLY <1>1, <1>2, <3>3, <3>4, <3>5, <3>6, <3>7 DEF k, r
  <2> QED BY <2>1, <2>5, <2>6
<1> QED BY <1>4, <1>5

(***************************************************************************)
(* What the steps of the operations make of the tree.                      *)
(***************************************************************************)
\* The tree with one slot more, not linked yet.
Held(g, id) ==
  [nodes |-> g.nodes \cup {id}, pending |-> g.pending \cup {id}, kids |-> [g.kids EXCEPT ![id] = <<>>],
   own |-> g.own, born |-> [g.born EXCEPT ![id] = g.clock], clock |-> g.clock + 1,
   out |-> g.out]

LEMMA HeldForest ==
  ASSUME NEW g, Forest(g), NEW id \in Slots, id \notin g.nodes
  PROVE  /\ Forest(Held(g, id)) /\ Live(Held(g, id)) = Live(g) \cup {id}
         /\ Placed(Held(g, id)) = Placed(g) /\ id \notin Live(g)
         /\ Held(g, id).kids[id] = <<>> /\ Held(g, id).born[id] = g.clock
         /\ \A p \in Live(g) : Held(g, id).kids[p] = g.kids[p] /\ Held(g, id).born[p] = g.born[p]
<1> DEFINE m == Held(g, id)
<1>1. /\ m.nodes = g.nodes \cup {id} /\ m.pending = g.pending \cup {id} /\ m.out = g.out /\ m.clock = g.clock + 1
      /\ m.kids = [g.kids EXCEPT ![id] = <<>>] /\ m.own = g.own
      /\ m.born = [g.born EXCEPT ![id] = g.clock]
  BY DEF Held
<1>2. m \in Ghosts
  <2>1. id \in Ids /\ <<>> \in Seq(Slots)
    BY Constants
  <2>2. m.kids \in [Ids -> Seq(Slots)] /\ m.born \in [Ids -> Nat]
    BY <1>1, <2>1, GhostParts
  <2>3. /\ g.nodes \cup {id} \in SUBSET Slots /\ g.pending \cup {id} \in SUBSET Slots
        /\ g.own \in [Ids -> Ids] /\ g.clock + 1 \in Nat /\ g.out \in SUBSET Ids
    BY GhostParts
  <2> QED BY <1>1, <2>2, <2>3 DEF Ghosts, Held
<1> HIDE DEF m
<1>3. id \notin Live(g) /\ Live(m) = Live(g) \cup {id} /\ Placed(m) = Placed(g) /\ id \in Ids
  BY <1>1, Constants DEF Live, Placed
<1>4. /\ m.kids[id] = <<>> /\ m.born[id] = g.clock
      /\ \A p \in Live(g) : m.kids[p] = g.kids[p] /\ m.born[p] = g.born[p]
  BY <1>1, <1>3, GhostParts
<1>5. m.pending \subseteq m.nodes /\ \A p \in Live(m) : m.born[p] < m.clock
  BY <1>1, <1>3, <1>4, GhostParts
<1>6. ASSUME NEW p \in Live(m), NEW i \in 1..Len(m.kids[p])
      PROVE  /\ m.kids[p][i] \in Placed(m) /\ m.own[m.kids[p][i]] = p
             /\ m.born[p] < m.born[m.kids[p][i]]
             /\ \A j \in 1..Len(m.kids[p]) : i < j => m.born[m.kids[p][i]] < m.born[m.kids[p][j]]
  <2>1. p # id
    BY <1>4
  <2>2. p \in Live(g) /\ m.kids[p] = g.kids[p]
    BY <1>3, <1>4, <2>1
  <2>3. \A j \in 1..Len(g.kids[p]) : g.kids[p][j] \in Live(g) /\ m.born[g.kids[p][j]] = g.born[g.kids[p][j]]
    BY <1>4, <2>2, GhostParts DEF Forest
  <2> QED BY <1>1, <1>3, <1>4, <2>2, <2>3 DEF Forest
<1>7. ASSUME NEW x \in Placed(m)
      PROVE  m.own[x] \in Live(m) /\ \E i \in 1..Len(m.kids[m.own[x]]) : m.kids[m.own[x]][i] = x
  <2>1. g.own[x] \in Live(g) /\ \E i \in 1..Len(g.kids[g.own[x]]) : g.kids[g.own[x]][i] = x
    BY <1>3 DEF Forest
  <2> QED BY <1>1, <1>3, <1>4, <2>1
<1>8. Forest(m)
  BY <1>2, <1>5, <1>6, <1>7 DEF Forest
<1> QED BY <1>3, <1>4, <1>8 DEF m

\* What is below a slot is linked, later, and below no other.
LEMMA KidsPlaced ==
  ASSUME NEW g, Forest(g), NEW p \in Live(g)
  PROVE  /\ p \in Ids /\ g.kids[p] \in Seq(Slots) /\ Len(g.kids[p]) \in Nat /\ g.born[p] \in Nat
         /\ \A i \in 1..Len(g.kids[p]) :
              /\ g.kids[p][i] \in Placed(g) /\ g.kids[p][i] \in Live(g) /\ g.kids[p][i] \in Slots
              /\ g.kids[p][i] \in Ids /\ g.kids[p][i] # Root /\ g.kids[p][i] \notin g.pending
              /\ g.own[g.kids[p][i]] = p /\ g.born[g.kids[p][i]] \in Nat
              /\ g.born[p] < g.born[g.kids[p][i]] /\ g.kids[p][i] # p
<1>1. p \in Ids /\ g.kids[p] \in Seq(Slots) /\ Len(g.kids[p]) \in Nat /\ g.born[p] \in Nat
  BY GhostParts
<1>2. ASSUME NEW i \in 1..Len(g.kids[p])
      PROVE  /\ g.kids[p][i] \in Placed(g) /\ g.kids[p][i] \in Live(g) /\ g.kids[p][i] \in Slots
             /\ g.kids[p][i] \in Ids /\ g.kids[p][i] # Root /\ g.kids[p][i] \notin g.pending
             /\ g.own[g.kids[p][i]] = p /\ g.born[g.kids[p][i]] \in Nat
             /\ g.born[p] < g.born[g.kids[p][i]] /\ g.kids[p][i] # p
  <2>1. /\ g.kids[p][i] \in Placed(g) /\ g.own[g.kids[p][i]] = p
        /\ g.born[p] < g.born[g.kids[p][i]]
    BY DEF Forest
  <2> DEFINE x == g.kids[p][i]
  <2>2. x \in Live(g) /\ x \in Slots /\ x \in Ids /\ x # Root /\ x \notin g.pending
    <3>1. Placed(g) \subseteq Live(g) /\ Placed(g) \subseteq Slots
      BY GhostParts
    <3>2. x \in Live(g) /\ x \in Slots /\ x \notin g.pending
      BY <2>1, <3>1 DEF Placed
    <3> HIDE DEF x
    <3> QED  BY <3>2, Constants
  <2> HIDE DEF x
  <2>3. g.born[x] \in Nat
    BY <2>2, GhostParts
  <2>4. x \in Placed(g) /\ g.own[x] = p /\ g.born[p] < g.born[x]
    BY <2>1 DEF x
  <2>5. x # p
    BY <1>1, <2>4
  <2> QED BY <2>2, <2>3, <2>4, <2>5 DEF x
<1> QED BY <1>1, <1>2

\* A variant, or an extension, is given out.
LEMMA AllocOK ==
  ASSUME NEW h \in Heaps, Counted(h), NEW g, Good(h, g), NEW c \in {NullVariant, Extension},
         Len(Filled(allocSlot(h), c).heap.pools) <= MaxPools
  PROVE  LET r == Filled(allocSlot(h), c)
         IN /\ r.heap \in Heaps /\ r.id \in Links
            /\ r.id = NullSlot => Good(r.heap, g) /\ r.heap.cell = h.cell
            /\ r.id # NullSlot => /\ r.id \in Slots /\ r.id \notin g.nodes
                                  /\ Good(r.heap, Held(g, r.id))
                                  /\ r.heap.cell = [h.cell EXCEPT ![r.id] = c]
<1> DEFINE a == allocSlot(h)
           r == Filled(a, c)
           k == r.heap
<1>1. /\ c \in Cells /\ c.type \in {"Null", "Extension"} /\ c.head = NullSlot /\ c.tail = NullSlot
      /\ c.next = NullSlot
  BY CellTypes
<1>2. c.type \notin InPool /\ c.type \in VariantTypes \cup {"Extension"} /\ c.type \notin Collections
  BY <1>1 DEF InPool, VariantTypes, Collections
<1>3. /\ Grows(h, k) /\ r.id \in Links /\ r.id = a.id /\ k.pools = a.heap.pools
      /\ k.free = a.heap.free /\ k.refs = a.heap.refs /\ k.lost = a.heap.lost
      /\ k.cell = IF r.id = NullSlot THEN a.heap.cell ELSE [a.heap.cell EXCEPT ![r.id] = c]
      /\ a.heap.overflowed => k.overflowed
  BY <1>1, <1>2, FilledOK
<1>4. k \in Heaps /\ Given(k) = Given(a.heap)
  BY <1>3 DEF Grows, Given
<1>5. /\ a.heap \in Heaps /\ a.id \in Links /\ a.heap.cell = h.cell /\ a.heap.refs = h.refs
      /\ a.heap.lost = h.lost
      /\ a.id = NullSlot => Good(a.heap, g)
      /\ a.id # NullSlot =>
           /\ a.id \in Slots /\ a.id \notin g.nodes /\ a.id \notin h.lost
           /\ Distinct(a.heap.free) /\ a.id \notin ToSet(a.heap.free)
           /\ ToSet(a.heap.free) \subseteq ToSet(h.free)
           /\ Given(a.heap) = g.nodes \cup {a.id} \cup ToSet(a.heap.free) \cup h.lost
  BY <1>3, allocSlotGives
<1> HIDE DEF a, r, k
<1>6. CASE r.id = NullSlot
  <2>1. Good(a.heap, g) /\ SameBut(a.heap, k) /\ k.cell = h.cell
    BY <1>3, <1>5, <1>6 DEF SameBut
  <2> QED BY <1>3, <1>4, <1>6, <2>1, SameGood DEF r, k, a
<1>7. CASE r.id # NullSlot
  <2> DEFINE id == r.id
             m == Held(g, id)
  <2>1. /\ id \in Slots /\ id \notin g.nodes /\ id \in Ids /\ id # Root
        /\ k.cell = [h.cell EXCEPT ![id] = c]
    BY <1>3, <1>5, <1>7, Constants
  <2>2. Forest(g) /\ Shows(h, g) /\ Memory(h, g) /\ Exact(h) /\ h.cell \in [Ids -> Cells]
    BY HeapParts DEF Good
  <2>3. /\ Forest(m) /\ Live(m) = Live(g) \cup {id} /\ Placed(m) = Placed(g) /\ id \notin Live(g)
        /\ m.kids[id] = <<>> /\ \A p \in Live(g) : m.kids[p] = g.kids[p]
    BY <2>1, <2>2, HeldForest
  <2>4. m.nodes = g.nodes \cup {id} /\ m.pending = g.pending \cup {id} /\ m.out = g.out
    BY DEF Held
  <2> HIDE DEF m, id
  <2>5. k.cell[id] = c /\ \A x \in Ids : x # id => k.cell[x] = h.cell[x]
    BY <2>1, <2>2
  <2>6. ASSUME NEW p \in Live(m) PROVE ShowsAt(k, m, p)
    <3>1. CASE p = id
      <4>1. Below(k, p) = NullSlot /\ First(m.kids[p]) = NullSlot /\ Len(m.kids[p]) = 0
        BY <1>1, <2>3, <2>5, <3>1 DEF Below, First
      <4> QED BY <1>1, <1>2, <2>5, <3>1, <4>1 DEF ShowsAt
    <3>2. CASE p # id
      <4>1. p \in Live(g) /\ m.kids[p] = g.kids[p] /\ ShowsAt(h, g, p) /\ p \in Ids
        BY <2>2, <2>3, <3>2, GhostParts DEF Shows
      <4>2. \A i \in 1..Len(g.kids[p]) : g.kids[p][i] \in Ids /\ g.kids[p][i] # id
        BY <2>2, <2>3, <4>1, KidsPlaced
      <4>3. k.cell[p] = h.cell[p] /\ Below(k, p) = Below(h, p)
        BY <2>5, <3>2, <4>1 DEF Below
      <4> QED BY <2>4, <2>5, <4>1, <4>2, <4>3 DEF ShowsAt
    <3> QED BY <3>1, <3>2
  <2>7. \A x \in m.pending \ m.out : k.cell[x].next = NullSlot
    <3>1. g.pending \subseteq Ids
      BY <2>2, GhostParts, Constants
    <3> QED BY <1>1, <2>2, <2>4, <2>5, <3>1 DEF Shows
  <2>8. \A x \in Ids \ Live(m) : k.cell[x].type \notin InPool
    BY <2>2, <2>3, <2>5 DEF Shows
  <2>9. Shows(k, m)
    BY <2>6, <2>7, <2>8 DEF Shows
  <2>10. Memory(k, m)
    <3>1. /\ g.nodes \cap ToSet(h.free) = {} /\ g.nodes \cap h.lost = {}
          /\ ToSet(h.free) \cap h.lost = {}
      BY <2>2 DEF Memory
    <3>2. /\ k.free = a.heap.free /\ k.lost = h.lost /\ id = a.id /\ a.id # NullSlot
      BY <1>3, <1>5, <1>7 DEF id
    <3> QED BY <1>4, <1>5, <2>4, <3>1, <3>2 DEF Memory
  <2>11. Exact(k)
    <3>1. k.refs = h.refs /\ h.cell[id].type \notin InPool
      BY <1>3, <1>5, <2>1, <2>2, <2>3 DEF Shows
    <3>2. Balanced(h, k)
      BY <1>2, <2>5, <3>1, SameBalance
    <3> QED BY <1>4, <2>2, <3>2, ExactStays
  <2>12. Good(k, m)
    BY <1>4, <2>3, <2>9, <2>10, <2>11 DEF Good
  <2> QED BY <1>3, <1>4, <1>7, <2>1, <2>12 DEF r, k, a, m, id
<1> QED BY <1>6, <1>7

\* The tree without the slots F, that were all below v.
Cut(g, v, F) ==
  [nodes |-> g.nodes \ F, pending |-> g.pending, kids |-> [g.kids EXCEPT ![v] = <<>>],
   own |-> g.own, born |-> g.born, clock |-> g.clock, out |-> g.out]

LEMMA CutForest ==
  ASSUME NEW g, Forest(g), NEW v \in Live(g), NEW F \in SUBSET Placed(g), v \notin F,
         \A p \in F \cup {v} : \A i \in 1..Len(g.kids[p]) : g.kids[p][i] \in F,
         \A x \in F : g.own[x] \in F \cup {v}
  PROVE  /\ Forest(Cut(g, v, F)) /\ Live(Cut(g, v, F)) = Live(g) \ F
         /\ Placed(Cut(g, v, F)) = Placed(g) \ F
         /\ \A p \in Live(g) \ F : p # v => Cut(g, v, F).kids[p] = g.kids[p]
                                           /\ \A i \in 1..Len(g.kids[p]) : g.kids[p][i] \notin F
<1> DEFINE m == Cut(g, v, F)
<1>1. /\ m.nodes = g.nodes \ F /\ m.pending = g.pending /\ m.out = g.out /\ m.clock = g.clock
      /\ m.kids = [g.kids EXCEPT ![v] = <<>>] /\ m.own = g.own /\ m.born = g.born
  BY DEF Cut
<1>2. v \in Ids /\ g.kids \in [Ids -> Seq(Slots)] /\ Root \notin F /\ g.pending \subseteq g.nodes
      /\ F \cap g.pending = {}
  BY GhostParts DEF Placed
<1>3. m \in Ghosts
  <2>1. m.kids \in [Ids -> Seq(Slots)]
    BY <1>1, <1>2
  <2> QED BY <1>1, <2>1, GhostParts DEF Ghosts, Cut
<1> HIDE DEF m
<1>4. Live(m) = Live(g) \ F /\ Placed(m) = Placed(g) \ F
  BY <1>1, <1>2 DEF Live, Placed
<1>5. /\ m.kids[v] = <<>> /\ \A p \in Ids : p # v => m.kids[p] = g.kids[p]
      /\ m.pending \subseteq m.nodes
  BY <1>1, <1>2
<1>6. ASSUME NEW p \in Live(g) \ F, p # v
      PROVE  m.kids[p] = g.kids[p] /\ \A i \in 1..Len(g.kids[p]) : g.kids[p][i] \notin F
  <2>1. \A i \in 1..Len(g.kids[p]) : g.own[g.kids[p][i]] = p
    BY KidsPlaced
  <2> QED BY <1>5, <1>6, <2>1, GhostParts
<1>7. ASSUME NEW p \in Live(m), NEW i \in 1..Len(m.kids[p])
      PROVE  /\ m.kids[p][i] \in Placed(m) /\ m.own[m.kids[p][i]] = p
             /\ m.born[p] < m.born[m.kids[p][i]]
             /\ \A j \in 1..Len(m.kids[p]) : i < j => m.born[m.kids[p][i]] < m.born[m.kids[p][j]]
  <2>1. p # v
    BY <1>5
  <2>2. p \in Live(g) /\ m.kids[p] = g.kids[p] /\ g.kids[p][i] \notin F
    BY <1>4, <1>6, <2>1
  <2> QED BY <1>1, <1>4, <2>2 DEF Forest
<1>8. ASSUME NEW x \in Placed(m)
      PROVE  m.own[x] \in Live(m) /\ \E i \in 1..Len(m.kids[m.own[x]]) : m.kids[m.own[x]][i] = x
  <2>1. g.own[x] \in Live(g) /\ \E i \in 1..Len(g.kids[g.own[x]]) : g.kids[g.own[x]][i] = x
    BY <1>4 DEF Forest
  <2>2. g.own[x] \notin F \cup {v}
    BY <1>4, <2>1
  <2> QED BY <1>1, <1>4, <1>6, <2>1, <2>2
<1>9. \A p \in Live(m) : m.born[p] < m.clock
  BY <1>1, <1>4, GhostParts
<1>10. Forest(m)
  BY <1>3, <1>5, <1>7, <1>8, <1>9 DEF Forest
<1> QED BY <1>4, <1>6, <1>10 DEF m

\* clear() leaves a tree without what was below the variant, and frees that.
LEMMA ClearIsCut ==
  ASSUME NEW h, NEW g, Good(h, g), NEW v \in Live(g)
  PROVE  LET k == Clear(h, v)
             F == ToSet(Under(h, v))
             m == Cut(g, v, F)
         IN /\ k \in Heaps /\ Good(k, m) /\ k.pools = h.pools /\ k.overflowed = h.overflowed
            /\ F \subseteq Placed(g) /\ v \notin F /\ \A x \in F : g.born[v] < g.born[x]
            /\ Live(m) = Live(g) \ F /\ m.kids[v] = <<>>
            /\ \A p \in Live(m) : p # v => m.kids[p] = g.kids[p]
            /\ k.cell = Emptied(h, v, F) /\ k.cell[v] = [NullVariant EXCEPT !.next = h.cell[v].next]
            /\ \A x \in Live(m) : x # v => k.cell[x] = h.cell[x]
<1> DEFINE k == Clear(h, v)
           F == ToSet(Under(h, v))
           m == Cut(g, v, F)
<1>1. /\ h \in Heaps /\ Forest(g) /\ Shows(h, g) /\ Memory(h, g) /\ Exact(h)
      /\ h.free \in Seq(Slots) /\ ToSet(h.free) \subseteq Slots /\ h.lost \subseteq Slots
      /\ v \in Ids
  BY GoodParts, GhostParts
<1>2. /\ Under(h, v) \in Seq(Slots) /\ Distinct(Under(h, v)) /\ F \subseteq Placed(g) /\ v \notin F
      /\ \A p \in F \cup {v} : \A i \in 1..Len(g.kids[p]) : g.kids[p][i] \in F
      /\ \A x \in F : g.own[x] \in F \cup {v} /\ g.born[v] < g.born[x]
  BY <1>1, UnderOK
<1>3. /\ Grows(h, k) /\ k.pools = h.pools /\ k.lost = h.lost /\ k.overflowed = h.overflowed
      /\ k.free = Under(h, v) \o h.free /\ k.cell = Emptied(h, v, F)
      /\ \A t \in Texts : k.refs[t] - Cardinality(Strings(k, t))
                            = h.refs[t] - Cardinality(Strings(h, t))
  BY <1>1, ClearOK
<1>4. k \in Heaps /\ Given(k) = Given(h) /\ Balanced(h, k)
  BY <1>3 DEF Grows, Given, Balanced
<1>5. ToSet(k.free) = F \cup ToSet(h.free) /\ Distinct(k.free)
  <2>1. Distinct(h.free) /\ F \cap ToSet(h.free) = {}
    BY <1>1, <1>2 DEF Memory, Placed
  <2> QED BY <1>1, <1>2, <1>3, <2>1, Joined
<1> HIDE DEF k, F
<1>6. /\ Forest(m) /\ Live(m) = Live(g) \ F /\ Placed(m) = Placed(g) \ F
      /\ \A p \in Live(g) \ F : p # v => m.kids[p] = g.kids[p]
                                        /\ \A i \in 1..Len(g.kids[p]) : g.kids[p][i] \notin F
  BY <1>1, <1>2, CutForest
<1>7. m.nodes = g.nodes \ F /\ m.pending = g.pending /\ m.out = g.out /\ m.kids[v] = <<>>
  BY <1>1, GhostParts DEF Cut
<1> HIDE DEF m
<1>8. /\ k.cell[v] = [NullVariant EXCEPT !.next = h.cell[v].next]
      /\ \A x \in Ids : x # v => k.cell[x] = IF x \in F THEN Vacant ELSE h.cell[x]
  BY <1>1, <1>3 DEF Emptied
<1>9. /\ k.cell[v].type = "Null" /\ k.cell[v].head = NullSlot /\ k.cell[v].tail = NullSlot
      /\ k.cell[v].next = h.cell[v].next
  BY <1>8 DEF NullVariant
<1>10. \A x \in Ids \ F : k.cell[x].next = h.cell[x].next
  BY <1>8, <1>9
<1>11. ASSUME NEW p \in Live(m) PROVE ShowsAt(k, m, p)
  <2>1. CASE p = v
    <3>1. Below(k, v) = NullSlot /\ First(m.kids[v]) = NullSlot /\ Len(m.kids[v]) = 0
      BY <1>7, <1>9 DEF Below, First
    <3> QED BY <1>9, <2>1, <3>1 DEF ShowsAt, VariantTypes, Collections
  <2>2. CASE p # v
    <3>1. /\ p \in Live(g) /\ p \notin F /\ m.kids[p] = g.kids[p]
          /\ \A i \in 1..Len(g.kids[p]) : g.kids[p][i] \notin F
      BY <1>6, <2>2
    <3>2. ShowsAt(h, g, p) /\ \A i \in 1..Len(g.kids[p]) : g.kids[p][i] \in Ids
      BY <1>1, <3>1, KidsPlaced DEF Shows
    <3>3. k.cell[p] = h.cell[p] /\ Below(k, p) = Below(h, p)
      BY <1>1, <1>8, <2>2, <3>1, GhostParts DEF Below
    <3>4. \A i \in 1..Len(g.kids[p]) : k.cell[g.kids[p][i]].next = h.cell[g.kids[p][i]].next
      BY <1>10, <3>1, <3>2
    <3> QED BY <1>7, <3>1, <3>2, <3>3, <3>4 DEF ShowsAt
  <2> QED BY <2>1, <2>2
<1>12. \A x \in m.pending \ m.out : k.cell[x].next = NullSlot
  <2>1. \A x \in m.pending \ m.out : x \in Ids \ F
    BY <1>1, <1>2, <1>7, GhostParts, Constants DEF Placed
  <2> QED BY <1>1, <1>7, <1>10, <2>1 DEF Shows
<1>13. \A x \in Ids \ Live(m) : k.cell[x].type \notin InPool
  <2>1. Vacant.type \notin InPool
    BY CellTypes DEF InPool
  <2> QED BY <1>1, <1>2, <1>6, <1>8, <2>1 DEF Shows
<1>14. Shows(k, m)
  BY <1>11, <1>12, <1>13 DEF Shows
<1>15. Memory(k, m)
  <2>1. F \subseteq g.nodes
    BY <1>2 DEF Placed
  <2> QED BY <1>1, <1>3, <1>4, <1>5, <1>7, <2>1 DEF Memory
<1>16. Good(k, m)
  BY <1>1, <1>4, <1>6, <1>14, <1>15, ExactStays DEF Good
<1>17. \A x \in Live(m) : x # v => k.cell[x] = h.cell[x]
  BY <1>1, <1>6, <1>8, GhostParts
<1> QED BY <1>2, <1>3, <1>4, <1>6, <1>7, <1>8, <1>16, <1>17 DEF k, m, F

-----------------------------------------------------------------------------
(***************************************************************************)
(* Slots that go out of use.                                               *)
(***************************************************************************)

\* The tree without some slots that were not linked.
Dropped(g, S) ==
  [nodes |-> g.nodes \ S, pending |-> g.pending \ S, kids |-> g.kids,
   own |-> g.own, born |-> g.born, clock |-> g.clock, out |-> g.out \ S]

LEMMA DroppedForest ==
  ASSUME NEW g, Forest(g), NEW S \in SUBSET g.pending, \A x \in S : g.kids[x] = <<>>
  PROVE  /\ Forest(Dropped(g, S)) /\ Live(Dropped(g, S)) = Live(g) \ S
         /\ Placed(Dropped(g, S)) = Placed(g)
<1> DEFINE m == Dropped(g, S)
<1>1. /\ m.nodes = g.nodes \ S /\ m.pending = g.pending \ S /\ m.out = g.out \ S /\ m.clock = g.clock
      /\ m.kids = g.kids /\ m.own = g.own /\ m.born = g.born
  BY DEF Dropped
<1>2. m \in Ghosts
  BY GhostParts DEF Ghosts, Dropped
<1> HIDE DEF m
<1>3. Live(m) = Live(g) \ S /\ Placed(m) = Placed(g)
  BY <1>1, GhostParts, Constants DEF Live, Placed
<1>4. m.pending \subseteq m.nodes /\ \A p \in Live(m) : m.born[p] < m.clock
  BY <1>1, <1>3, GhostParts
<1>5. ASSUME NEW x \in Placed(m)
      PROVE  m.own[x] \in Live(m) /\ \E i \in 1..Len(m.kids[m.own[x]]) : m.kids[m.own[x]][i] = x
  <2>1. g.own[x] \in Live(g) /\ \E i \in 1..Len(g.kids[g.own[x]]) : g.kids[g.own[x]][i] = x
    BY <1>3 DEF Forest
  <2>2. g.own[x] \notin S
    <3> SUFFICES ASSUME g.own[x] \in S PROVE FALSE
      OBVIOUS
    <3>1. g.kids[g.own[x]] = <<>>
      OBVIOUS
    <3> QED BY <2>1, <3>1
  <2> QED BY <1>1, <1>3, <2>1, <2>2
<1>6. ASSUME NEW p \in Live(m), NEW i \in 1..Len(m.kids[p])
      PROVE  /\ m.kids[p][i] \in Placed(m) /\ m.own[m.kids[p][i]] = p
             /\ m.born[p] < m.born[m.kids[p][i]]
             /\ \A j \in 1..Len(m.kids[p]) : i < j => m.born[m.kids[p][i]] < m.born[m.kids[p][j]]
  <2>1. p \in Live(g)
    BY <1>3
  <2> QED BY <1>1, <1>3, <2>1 DEF Forest
<1>7. Forest(m)
  BY <1>2, <1>4, <1>5, <1>6 DEF Forest
<1> QED BY <1>3, <1>7 DEF m

\* Slots that are not linked and have nothing below them go out of use: they
\* are freed, or lost.
LEMMA DroppedOK ==
  ASSUME NEW h, NEW g, Good(h, g), NEW S \in SUBSET g.pending,
         \A x \in S : g.kids[x] = <<>>, NEW k \in Heaps, Balanced(h, k), k.pools = h.pools,
         \A x \in Ids : k.cell[x].type \in InPool => x \notin S /\ h.cell[x].type \in InPool,
         \A x \in Ids \ S : k.cell[x] = h.cell[x],
         Distinct(k.free), ToSet(k.free) \cap k.lost = {},
         (ToSet(k.free) \cup k.lost) \cap (g.nodes \ S) = {},
         ToSet(k.free) \cup k.lost = ToSet(h.free) \cup h.lost \cup S
  PROVE  Good(k, Dropped(g, S))
<1> DEFINE m == Dropped(g, S)
<1>1. /\ h \in Heaps /\ Forest(g) /\ Shows(h, g) /\ Memory(h, g) /\ Exact(h)
  BY DEF Good
<1>2. Forest(m) /\ Live(m) = Live(g) \ S /\ Placed(m) = Placed(g)
  BY <1>1, DroppedForest
<1>3. /\ m.nodes = g.nodes \ S /\ m.pending = g.pending \ S /\ m.out = g.out \ S /\ m.kids = g.kids
      /\ g.pending \subseteq g.nodes /\ S \subseteq Ids /\ g.nodes \subseteq Ids
      /\ Root \in Ids /\ Root \notin S
  BY <1>1, GhostParts, Constants DEF Dropped
<1> HIDE DEF m
<1>4. ASSUME NEW p \in Live(m) PROVE ShowsAt(k, m, p)
  <2>1. p \in Live(g) /\ p \in Ids \ S /\ ShowsAt(h, g, p)
    BY <1>1, <1>2, GhostParts DEF Shows
  <2>2. \A i \in 1..Len(g.kids[p]) : g.kids[p][i] \in Ids \ S
    BY <1>1, <2>1, KidsPlaced
  <2>3. k.cell[p] = h.cell[p] /\ Below(k, p) = Below(h, p)
    BY <2>1 DEF Below
  <2> QED BY <1>3, <2>1, <2>2, <2>3 DEF ShowsAt
<1>5. \A x \in m.pending \ m.out : k.cell[x].next = NullSlot
  <2>1. \A x \in m.pending \ m.out : x \in Ids \ S /\ x \in g.pending \ g.out
    BY <1>3
  <2> QED BY <1>1, <2>1 DEF Shows
<1>6. \A x \in Ids \ Live(m) : k.cell[x].type \notin InPool
  BY <1>1, <1>2 DEF Shows
<1>7. Shows(k, m)
  BY <1>4, <1>5, <1>6 DEF Shows
<1>8. Given(k) = Given(h)
  BY DEF Given
<1>9. Memory(k, m)
  BY <1>1, <1>3, <1>8 DEF Memory
<1> QED BY <1>1, <1>2, <1>7, <1>9, ExactStays DEF Good, m

LEMMA freeSlotDrops ==
  ASSUME NEW h, NEW g, Good(h, g), NEW id \in g.pending, g.kids[id] = <<>>,
         h.cell[id].type \notin InPool
  PROVE  /\ freeSlot(h, id) \in Heaps /\ Good(freeSlot(h, id), Dropped(g, {id}))
         /\ freeSlot(h, id).pools = h.pools
         /\ \A x \in Ids : x # id => freeSlot(h, id).cell[x] = h.cell[x]
<1> DEFINE k == freeSlot(h, id)
<1>1. /\ h \in Heaps /\ Forest(g) /\ Shows(h, g) /\ Memory(h, g)
      /\ h.free \in Seq(Slots) /\ id \in Slots /\ id \in Ids /\ id \in g.nodes
      /\ h.cell \in [Ids -> Cells]
  BY GoodParts, GhostParts, HeapParts, Constants
<1>2. /\ Grows(h, k) /\ k.pools = h.pools /\ k.refs = h.refs /\ k.lost = h.lost
      /\ k.free = <<id>> \o h.free /\ k.cell = [h.cell EXCEPT ![id] = Vacant]
      /\ Balanced(h, k)
  BY <1>1, freeSlotOK
<1> HIDE DEF k
<1>3. k.cell[id] = Vacant /\ \A x \in Ids : x # id => k.cell[x] = h.cell[x]
  BY <1>1, <1>2
<1>4. \A x \in Ids : k.cell[x].type \in InPool => x \notin {id} /\ h.cell[x].type \in InPool
  <2>1. Vacant.type \notin InPool
    BY CellTypes DEF InPool
  <2> QED BY <1>3, <2>1
<1>5. id \notin ToSet(h.free) /\ id \notin h.lost /\ Distinct(h.free)
  BY <1>1 DEF Memory
<1>6. ToSet(k.free) = {id} \cup ToSet(h.free) /\ Distinct(k.free)
  <2>1. <<id>> \in Seq(Slots) /\ ToSet(<<id>>) = {id} /\ Distinct(<<id>>)
    BY <1>1, Single
  <2>2. ToSet(<<id>>) \cap ToSet(h.free) = {}
    BY <1>5, <2>1
  <2>0. \A p, q \in Seq(Slots) : /\ p \o q \in Seq(Slots) /\ ToSet(p \o q) = ToSet(p) \cup ToSet(q)
                                 /\ Distinct(p) /\ Distinct(q) /\ ToSet(p) \cap ToSet(q) = {}
                                      => Distinct(p \o q)
    BY Joined
  <2>3. /\ ToSet(<<id>> \o h.free) = ToSet(<<id>>) \cup ToSet(h.free)
        /\ Distinct(<<id>> \o h.free)
    BY ONLY <1>1, <1>5, <2>0, <2>1, <2>2
  <2> QED BY <1>2, <2>1, <2>3
<1>7. /\ {id} \in SUBSET g.pending /\ \A x \in {id} : g.kids[x] = <<>>
  OBVIOUS
<1>8. /\ ToSet(k.free) \cap k.lost = {}
      /\ (ToSet(k.free) \cup k.lost) \cap (g.nodes \ {id}) = {}
      /\ ToSet(k.free) \cup k.lost = ToSet(h.free) \cup h.lost \cup {id}
  BY <1>1, <1>2, <1>5, <1>6 DEF Memory
<1>9. k \in Heaps
  BY <1>2 DEF Grows
<1>10. Good(k, Dropped(g, {id}))
  BY <1>2, <1>3, <1>4, <1>6, <1>7, <1>8, <1>9, DroppedOK
<1> QED BY <1>2, <1>3, <1>9, <1>10 DEF k

LEMMA LosingDrops ==
  ASSUME NEW h, NEW g, Good(h, g), NEW S \in SUBSET g.pending,
         \A x \in S : g.kids[x] = <<>> /\ h.cell[x].type \notin InPool, h.overflowed
  PROVE  Losing(h, S) \in Heaps /\ Good(Losing(h, S), Dropped(g, S))
<1> DEFINE k == Losing(h, S)
<1>1. /\ h \in Heaps /\ Forest(g) /\ Shows(h, g) /\ Memory(h, g) /\ S \in SUBSET Slots
      /\ S \subseteq g.nodes
  BY GoodParts, GhostParts
<1>2. /\ Grows(h, k) /\ Balanced(h, k) /\ k.pools = h.pools /\ k.free = h.free /\ k.refs = h.refs
      /\ k.cell = h.cell /\ k.lost = h.lost \cup S
  BY <1>1, LosingOK
<1> HIDE DEF k
<1>3. /\ Distinct(k.free) /\ ToSet(k.free) \cap k.lost = {}
      /\ (ToSet(k.free) \cup k.lost) \cap (g.nodes \ S) = {}
      /\ ToSet(k.free) \cup k.lost = ToSet(h.free) \cup h.lost \cup S
  BY <1>1, <1>2 DEF Memory
<1>4. \A x \in Ids : k.cell[x].type \in InPool => x \notin S /\ h.cell[x].type \in InPool
  BY <1>2
<1>5. k \in Heaps
  BY <1>2 DEF Grows
<1>6. Good(k, Dropped(g, S))
  BY <1>2, <1>3, <1>4, <1>5, DroppedOK
<1> QED BY <1>5, <1>6 DEF k

\* A null variant becomes something else; nothing is below it yet.
LEMMA WrittenOK ==
  ASSUME NEW h, NEW g, Good(h, g), Counted(h), NEW v \in Live(g), v \notin g.out, h.cell[v].type = "Null",
         NEW c, Content(c), c.type \in VariantTypes, c.head = h.cell[v].head,
         c.tail = h.cell[v].tail, c.next = h.cell[v].next, NEW k, Writes(h, k, v, c)
  PROVE  /\ Good(k, g) /\ k \in Heaps /\ k.cell[v] = c
         /\ \A x \in Ids : x # v => k.cell[x] = h.cell[x]
<1>1. /\ h \in Heaps /\ Forest(g) /\ Shows(h, g) /\ Memory(h, g) /\ Exact(h)
      /\ h.cell \in [Ids -> Cells] /\ v \in Ids
  BY GoodParts, HeapParts, GhostParts
<1>2. /\ k \in Heaps /\ k.pools = h.pools /\ k.free = h.free /\ k.lost = h.lost
      /\ k.cell = [h.cell EXCEPT ![v] = c]
  BY DEF Writes
<1>3. k.cell[v] = c /\ \A x \in Ids : x # v => k.cell[x] = h.cell[x]
  BY <1>1, <1>2
<1>4. \A x \in Ids : k.cell[x].next = h.cell[x].next
  BY <1>3
<1>5. h.cell[v].type \notin InPool
  BY DEF InPool
<1>6. Given(k) = Given(h) /\ Balanced(h, k)
  BY <1>1, <1>2, <1>5, WritesOK DEF Given
<1>7. ShowsAt(h, g, v)
  BY <1>1 DEF Shows
<1>8. /\ h.cell[v].head = NullSlot /\ h.cell[v].tail = NullSlot /\ Below(h, v) = NullSlot
      /\ First(g.kids[v]) = NullSlot
  BY <1>7 DEF ShowsAt, Below, Collections
<1>9. g.kids[v] = <<>>
  <2> SUFFICES ASSUME g.kids[v] # <<>> PROVE FALSE
    OBVIOUS
  <2>1. g.kids[v] \in Seq(Slots)
    BY <1>1, GhostParts
  <2>2. g.kids[v][1] \in Slots
    BY <2>1
  <2> QED BY <1>8, <2>2, Constants DEF First
<1>10. ShowsAt(k, g, v)
  <2>1. Below(k, v) = NullSlot
    BY <1>3, <1>8 DEF Below
  <2>2. Final(g.kids[v]) = NullSlot /\ Len(g.kids[v]) = 0
    BY <1>9 DEF Final
  <2> QED BY <1>3, <1>8, <2>1, <2>2 DEF ShowsAt
<1>11. ASSUME NEW p \in Live(g), p # v PROVE ShowsAt(k, g, p)
  <2>1. ShowsAt(h, g, p) /\ p \in Ids /\ \A i \in 1..Len(g.kids[p]) : g.kids[p][i] \in Ids
    BY <1>1, KidsPlaced DEF Shows
  <2>2. k.cell[p] = h.cell[p] /\ Below(k, p) = Below(h, p)
    BY <1>3, <1>11, <2>1 DEF Below
  <2> QED BY <1>4, <2>1, <2>2 DEF ShowsAt
<1>12. Shows(k, g)
  <2>1. \A x \in g.pending \ g.out : x \in Ids
    BY <1>1, GhostParts, Constants
  <2>2. \A x \in Ids \ Live(g) : k.cell[x] = h.cell[x]
    BY <1>3
  <2> QED BY <1>1, <1>4, <1>10, <1>11, <2>1, <2>2 DEF Shows
<1>13. Memory(k, g)
  BY <1>1, <1>2, <1>6 DEF Memory
<1> QED BY <1>1, <1>2, <1>3, <1>6, <1>12, <1>13, ExactStays DEF Good

-----------------------------------------------------------------------------
(***************************************************************************)
(* A slot is linked.                                                       *)
(***************************************************************************)

\* The tree with id as the last slot below c.
Joins(g, c, id) ==
  [nodes |-> g.nodes, pending |-> g.pending \ {id}, kids |-> [g.kids EXCEPT ![c] = Append(@, id)],
   own |-> [g.own EXCEPT ![id] = c], born |-> g.born, clock |-> g.clock,
   out |-> g.out]

\* A slot may be put behind those that are below c.
Fresh(g, c, id) ==
  /\ c \in Live(g) \ g.out /\ id \in g.pending \ g.out /\ g.born[c] < g.born[id]
  /\ \A i \in 1..Len(g.kids[c]) : g.born[g.kids[c][i]] < g.born[id]

LEMMA JoinsForest ==
  ASSUME NEW g, Forest(g), NEW c, NEW id, Fresh(g, c, id)
  PROVE  LET m == Joins(g, c, id)
         IN /\ Forest(m) /\ Live(m) = Live(g) /\ Placed(m) = Placed(g) \cup {id}
            /\ m.kids[c] = Append(g.kids[c], id) /\ Len(m.kids[c]) = Len(g.kids[c]) + 1
            /\ m.kids[c][Len(g.kids[c]) + 1] = id
            /\ \A i \in 1..Len(g.kids[c]) : m.kids[c][i] = g.kids[c][i]
            /\ \A p \in Ids : p # c => m.kids[p] = g.kids[p]
<1> DEFINE m == Joins(g, c, id)
           n == Len(g.kids[c])
<1>1. /\ m.nodes = g.nodes /\ m.pending = g.pending \ {id} /\ m.out = g.out /\ m.clock = g.clock /\ m.born = g.born
      /\ m.kids = [g.kids EXCEPT ![c] = Append(@, id)] /\ m.own = [g.own EXCEPT ![id] = c]
  BY DEF Joins
<1>2. /\ c \in Live(g) /\ c \in Ids /\ id \in g.pending /\ id \in g.nodes /\ id \in Slots /\ id \in Ids
      /\ g.kids \in [Ids -> Seq(Slots)] /\ g.own \in [Ids -> Ids] /\ g.kids[c] \in Seq(Slots)
      /\ n \in Nat /\ id \in Live(g)
  BY GhostParts, Constants DEF Fresh, Live
<1>3. /\ Append(g.kids[c], id) \in Seq(Slots) /\ Len(Append(g.kids[c], id)) = n + 1
      /\ Append(g.kids[c], id)[n + 1] = id
      /\ \A i \in 1..n : Append(g.kids[c], id)[i] = g.kids[c][i]
  BY <1>2
<1>4. m \in Ghosts
  <2>1. m.kids \in [Ids -> Seq(Slots)] /\ m.own \in [Ids -> Ids]
    BY <1>1, <1>2, <1>3
  <2> QED BY <1>1, <2>1, GhostParts DEF Ghosts, Joins
<1> HIDE DEF m
<1>5. /\ m.kids[c] = Append(g.kids[c], id) /\ \A p \in Ids : p # c => m.kids[p] = g.kids[p]
      /\ m.own[id] = c /\ \A x \in Ids : x # id => m.own[x] = g.own[x]
  BY <1>1, <1>2
<1>6. Live(m) = Live(g) /\ Placed(m) = Placed(g) \cup {id} /\ id \notin Placed(g)
  BY <1>1, <1>2 DEF Live, Placed
<1>7. /\ Len(m.kids[c]) = n + 1 /\ m.kids[c][n + 1] = id
      /\ \A i \in 1..n : m.kids[c][i] = g.kids[c][i]
  BY <1>3, <1>5
<1> HIDE DEF n
<1>8. ASSUME NEW p \in Live(m), NEW i \in 1..Len(m.kids[p])
      PROVE  /\ m.kids[p][i] \in Placed(m) /\ m.own[m.kids[p][i]] = p
             /\ m.born[p] < m.born[m.kids[p][i]]
             /\ \A j \in 1..Len(m.kids[p]) : i < j => m.born[m.kids[p][i]] < m.born[m.kids[p][j]]
  <2>1. p \in Live(g) /\ p \in Ids
    BY <1>6, GhostParts
  <2>2. \A j \in 1..Len(g.kids[p]) : /\ g.kids[p][j] \in Placed(g) /\ g.kids[p][j] # id /\ g.kids[p][j] \in Ids
                                     /\ g.own[g.kids[p][j]] = p /\ g.born[p] < g.born[g.kids[p][j]]
    BY <1>2, <2>1, KidsPlaced
  <2>3. CASE p # c
    <3>1. m.kids[p] = g.kids[p]
      BY <1>5, <2>1, <2>3
    <3>2. \A j \in 1..Len(g.kids[p]) : i < j => g.born[g.kids[p][i]] < g.born[g.kids[p][j]]
      BY <2>1, <3>1 DEF Forest
    <3> DEFINE y == g.kids[p][i]
    <3>3. y \in Placed(g) /\ y # id /\ y \in Ids /\ g.own[y] = p /\ g.born[p] < g.born[y]
      BY <2>2, <3>1
    <3>4. y \in Placed(m) /\ m.own[y] = p /\ m.born[p] < m.born[y] /\ m.kids[p][i] = y
      BY <1>1, <1>5, <1>6, <3>1, <3>3
    <3>5. \A j \in 1..Len(m.kids[p]) : i < j => m.born[m.kids[p][i]] < m.born[m.kids[p][j]]
      BY <1>1, <3>1, <3>2
    <3> QED BY <3>4, <3>5
  <2>4. CASE p = c
    <3>1. i \in 1..n \/ i = n + 1
      BY <1>2, <1>7, <2>4 DEF n
    <3>2. CASE i = n + 1
      <4>1. m.kids[p][i] = id /\ \A j \in 1..Len(m.kids[p]) : ~(i < j)
        BY <1>2, <1>7, <2>4, <3>2 DEF n
      <4> QED BY <1>1, <1>5, <1>6, <2>4, <4>1 DEF Fresh
    <3>3. CASE i \in 1..n
      <4>1. m.kids[p][i] = g.kids[p][i] /\ i \in 1..Len(g.kids[p])
        BY <1>7, <2>4, <3>3 DEF n
      <4>2. \A j \in 1..Len(m.kids[p]) : i < j => m.born[m.kids[p][i]] < m.born[m.kids[p][j]]
        <5> TAKE j \in 1..Len(m.kids[p])
        <5> HAVE i < j
        <5>1. j \in 1..n \/ j = n + 1
          BY <1>2, <1>7, <2>4 DEF n
        <5>2. CASE j \in 1..n
          <6>1. m.kids[p][j] = g.kids[p][j] /\ j \in 1..Len(g.kids[p])
            BY <1>7, <2>4, <5>2 DEF n
          <6> QED BY <1>1, <2>1, <4>1, <6>1 DEF Forest
        <5>3. CASE j = n + 1
          <6>1. m.kids[p][j] = id
            BY <1>7, <2>4, <5>3
          <6> QED BY <1>1, <2>4, <4>1, <6>1 DEF Fresh
        <5> QED BY <5>1, <5>2, <5>3
      <4> DEFINE y == g.kids[p][i]
      <4>3. y \in Placed(g) /\ y # id /\ y \in Ids /\ g.own[y] = p /\ g.born[p] < g.born[y]
        BY <2>2, <4>1
      <4>4. y \in Placed(m) /\ m.own[y] = p /\ m.born[p] < m.born[y] /\ m.kids[p][i] = y
        BY <1>1, <1>5, <1>6, <4>1, <4>3
      <4> QED BY <4>2, <4>4
    <3> QED BY <3>1, <3>2, <3>3
  <2> QED BY <2>3, <2>4
<1>9. ASSUME NEW x \in Placed(m)
      PROVE  m.own[x] \in Live(m) /\ \E i \in 1..Len(m.kids[m.own[x]]) : m.kids[m.own[x]][i] = x
  <2>1. CASE x = id
    <3>1. n + 1 \in 1..Len(m.kids[c])
      BY <1>2, <1>7 DEF n
    <3> QED BY <1>2, <1>5, <1>6, <1>7, <2>1, <3>1
  <2>2. CASE x # id
    <3>1. g.own[x] \in Live(g) /\ \E i \in 1..Len(g.kids[g.own[x]]) : g.kids[g.own[x]][i] = x
      BY <1>6, <2>2 DEF Forest
    <3>2. m.own[x] = g.own[x] /\ g.own[x] \in Ids
      BY <1>5, <1>6, <2>2, <3>1, GhostParts
    <3>3. PICK i \in 1..Len(g.kids[g.own[x]]) : g.kids[g.own[x]][i] = x
      BY <3>1
    <3>4. i \in 1..Len(m.kids[g.own[x]]) /\ m.kids[g.own[x]][i] = x
      <4>1. CASE g.own[x] = c
        BY <1>2, <1>7, <3>3, <4>1 DEF n
      <4>2. CASE g.own[x] # c
        BY <1>5, <3>2, <3>3, <4>2
      <4> QED BY <4>1, <4>2
    <3> QED BY <1>6, <3>1, <3>2, <3>4
  <2> QED BY <2>1, <2>2
<1>10. m.pending \subseteq m.nodes /\ \A p \in Live(m) : m.born[p] < m.clock
  BY <1>1, <1>6, GhostParts
<1>11. Forest(m)
  BY <1>4, <1>8, <1>9, <1>10 DEF Forest
<1> QED BY <1>5, <1>6, <1>7, <1>11 DEF m, n

\* What stays of the cells when a slot is linked.
LEMMA LinkedCells ==
  ASSUME NEW cell \in [Ids -> Cells], NEW c \in Ids, NEW first \in Slots, NEW last \in Slots, cell[c].tail # c,
         cell[c].tail # NullSlot => cell[c].tail \in Ids
  PROVE  LET d == LinkCells(cell, c, first, last)
             t == cell[c].tail
         IN /\ d \in [Ids -> Cells]
            /\ \A x \in Ids : d[x].type = cell[x].type /\ d[x].text = cell[x].text
            /\ \A x \in Ids : x # c => d[x].head = cell[x].head /\ d[x].tail = cell[x].tail
            /\ d[c].tail = last /\ d[c].head = IF t = NullSlot THEN first ELSE cell[c].head
            /\ \A x \in Ids : d[x].next = IF x = t /\ t # NullSlot THEN first ELSE cell[x].next
<1> DEFINE d == LinkCells(cell, c, first, last)
           t == cell[c].tail
<1>1. \A x \in Ids : cell[x] \in Cells
  OBVIOUS
<1>2. ASSUME NEW x \in Cells, NEW y \in Links
      PROVE  /\ [x EXCEPT !.next = y] \in Cells /\ [x EXCEPT !.next = y].next = y
             /\ [x EXCEPT !.next = y].type = x.type /\ [x EXCEPT !.next = y].text = x.text
             /\ [x EXCEPT !.next = y].head = x.head /\ [x EXCEPT !.next = y].tail = x.tail
             /\ [x EXCEPT !.tail = y] \in Cells /\ [x EXCEPT !.tail = y].tail = y
             /\ [x EXCEPT !.tail = y].type = x.type /\ [x EXCEPT !.tail = y].text = x.text
             /\ [x EXCEPT !.tail = y].head = x.head /\ [x EXCEPT !.tail = y].next = x.next
  BY DEF Cells
<1>3. ASSUME NEW x \in Cells, NEW y \in Links, NEW z \in Links
      PROVE  LET e == [x EXCEPT !.head = y, !.tail = z]
             IN /\ e \in Cells /\ e.tail = z /\ e.type = x.type /\ e.text = x.text /\ e.head = y
                /\ e.next = x.next
  BY DEF Cells
<1>4. first \in Links /\ last \in Links
  BY Constants
<1>5. CASE t # NullSlot
  <2> DEFINE e == [cell EXCEPT ![t] = [@ EXCEPT !.next = first]]
  <2>1. d = [e EXCEPT ![c] = [@ EXCEPT !.tail = last]]
    BY <1>5 DEF LinkCells
  <2>2. t \in Ids /\ t # c
    BY <1>5
  <2>3. e[t] = [cell[t] EXCEPT !.next = first] /\ \A x \in Ids : x # t => e[x] = cell[x]
    BY <2>2
  <2>4. e \in [Ids -> Cells]
    BY <1>1, <1>2, <1>4, <2>2
  <2> HIDE DEF e, t, d
  <2>5. d[c] = [cell[c] EXCEPT !.tail = last] /\ \A x \in Ids : x # c => d[x] = e[x]
    BY <2>1, <2>2, <2>3, <2>4
  <2>6. d \in [Ids -> Cells]
    BY <1>1, <1>2, <1>4, <2>1, <2>2, <2>3, <2>4
  <2>7. d[t] = [cell[t] EXCEPT !.next = first] /\ \A x \in Ids : x # c /\ x # t => d[x] = cell[x]
    BY <2>2, <2>3, <2>5
  <2>8. ASSUME NEW x \in Ids
        PROVE  /\ d[x].type = cell[x].type /\ d[x].text = cell[x].text
               /\ x # c => d[x].head = cell[x].head /\ d[x].tail = cell[x].tail
               /\ d[x].next = IF x = t THEN first ELSE cell[x].next
    <3>1. CASE x = c
      <4> DEFINE y == [cell[c] EXCEPT !.tail = last]
      <4>1. y.type = cell[c].type /\ y.text = cell[c].text /\ y.next = cell[c].next
        BY <1>1, <1>2, <1>4
      <4>2. d[c] = y
        BY <2>5
      <4> HIDE DEF y
      <4> QED BY <2>2, <3>1, <4>1, <4>2
    <3>2. CASE x = t
      <4> DEFINE y == [cell[t] EXCEPT !.next = first]
      <4>1. /\ y.type = cell[t].type /\ y.text = cell[t].text /\ y.head = cell[t].head
            /\ y.tail = cell[t].tail /\ y.next = first
        BY <1>1, <1>2, <1>4, <2>2
      <4>2. d[t] = y
        BY <2>7
      <4> HIDE DEF y
      <4> QED BY <3>2, <4>1, <4>2
    <3>3. CASE x # c /\ x # t
      BY <2>7, <3>3
    <3> QED BY <3>1, <3>2, <3>3
  <2>9. d[c].tail = last /\ d[c].head = cell[c].head
    BY <1>1, <1>2, <1>4, <2>5
  <2> QED BY <1>5, <2>6, <2>8, <2>9 DEF d, t
<1>6. CASE t = NullSlot
  <2>1. d = [cell EXCEPT ![c] = [@ EXCEPT !.head = first, !.tail = last]]
    BY <1>6 DEF LinkCells
  <2> HIDE DEF t, d
  <2>2. d[c] = [cell[c] EXCEPT !.head = first, !.tail = last] /\ \A x \in Ids : x # c => d[x] = cell[x]
    BY <2>1
  <2>3. d \in [Ids -> Cells]
    BY <1>1, <1>3, <1>4, <2>1
  <2>4. /\ d[c].type = cell[c].type /\ d[c].text = cell[c].text /\ d[c].next = cell[c].next
        /\ d[c].tail = last /\ d[c].head = first
    <3> DEFINE y == [cell[c] EXCEPT !.head = first, !.tail = last]
    <3>1. /\ y.type = cell[c].type /\ y.text = cell[c].text /\ y.next = cell[c].next
          /\ y.tail = last /\ y.head = first
      <4>1. cell[c] \in Cells
        BY <1>1
      <4> QED BY <1>4, <4>1 DEF Cells
    <3>2. d[c] = y
      BY <2>2
    <3> HIDE DEF y
    <3> QED BY <3>1, <3>2
  <2> QED BY <1>6, <2>2, <2>3, <2>4 DEF d, t
<1> QED BY <1>5, <1>6

\* appendOne(): the slot is the last one below the collection.
LEMMA JoinOK ==
  ASSUME NEW h, NEW g, Good(h, g), NEW c, NEW id, Fresh(g, c, id), h.cell[c].type \in Collections,
         NEW k, Relinked(h, k), k.cell = LinkCells(h.cell, c, id, id)
  PROVE  /\ Good(k, Joins(g, c, id)) /\ k \in Heaps
         /\ k.cell \in [Ids -> Cells]
         /\ \A x \in Ids : k.cell[x].type = h.cell[x].type /\ k.cell[x].text = h.cell[x].text
<1> DEFINE m == Joins(g, c, id)
           n == Len(g.kids[c])
           t == h.cell[c].tail
<1>1. /\ h \in Heaps /\ Forest(g) /\ Shows(h, g) /\ Memory(h, g) /\ Exact(h)
      /\ h.cell \in [Ids -> Cells]
  BY GoodParts, HeapParts
<1>2. /\ c \in Live(g) /\ c \notin g.out /\ c \in Ids /\ id \in g.pending /\ id \notin g.out /\ id \in Slots /\ id \in Ids /\ id # Root
      /\ n \in Nat /\ id # c /\ g.kids[c] \in Seq(Slots) /\ id \in Live(g) /\ g.pending \subseteq Slots
  <2>1. g.born[c] \in Nat /\ g.born[c] < g.born[id] /\ c \in Live(g) \ g.out /\ id \in g.pending \ g.out
    BY <1>1, GhostParts DEF Fresh
  <2>2. id # c
    BY <2>1
  <2> QED BY <1>1, <2>1, <2>2, GhostParts, Constants DEF Live
<1>3. /\ ShowsAt(h, g, c) /\ t = Final(g.kids[c]) /\ Below(h, c) = First(g.kids[c])
      /\ Below(h, c) = h.cell[c].head
  BY <1>1, <1>2 DEF Shows, ShowsAt, Below
<1>4. /\ n = 0 => t = NullSlot /\ First(g.kids[c]) = NullSlot
      /\ n # 0 => /\ n \in 1..n /\ t = g.kids[c][n] /\ t \in Slots /\ t # NullSlot /\ t # c /\ t \in Ids
                  /\ t \notin g.pending /\ t # Root /\ First(g.kids[c]) = g.kids[c][1]
  <2>1. g.kids[c] = <<>> <=> n = 0
    BY <1>2
  <2>2. CASE n = 0
    BY <1>3, <2>1, <2>2 DEF Final, First
  <2>3. CASE n # 0
    <3>1. n \in 1..n /\ t = g.kids[c][n] /\ First(g.kids[c]) = g.kids[c][1]
      BY <1>2, <1>3, <2>1, <2>3 DEF Final, First
    <3>2. /\ g.kids[c][n] \in Slots /\ g.kids[c][n] \in Ids /\ g.kids[c][n] # Root
          /\ g.kids[c][n] \notin g.pending /\ g.kids[c][n] # c
      BY <1>1, <1>2, <3>1, KidsPlaced
    <3>3. NullSlot \notin Slots
      BY Constants
    <3> HIDE DEF n, t
    <3> QED BY <2>3, <3>1, <3>2, <3>3
  <2> QED BY <2>2, <2>3
<1>5. /\ k.cell \in [Ids -> Cells]
      /\ \A x \in Ids : k.cell[x].type = h.cell[x].type /\ k.cell[x].text = h.cell[x].text
      /\ \A x \in Ids : x # c => k.cell[x].head = h.cell[x].head /\ k.cell[x].tail = h.cell[x].tail
      /\ k.cell[c].tail = id /\ k.cell[c].head = IF t = NullSlot THEN id ELSE h.cell[c].head
      /\ \A x \in Ids : k.cell[x].next = IF x = t /\ t # NullSlot THEN id ELSE h.cell[x].next
  <2>1. t # c /\ (t # NullSlot => t \in Ids)
    <3>1. c # NullSlot
      BY <1>1, <1>2, GhostParts
    <3> QED BY <1>4, <3>1
  <2> QED BY <1>1, <1>2, <2>1, LinkedCells
<1>6. /\ Forest(m) /\ Live(m) = Live(g) /\ Placed(m) = Placed(g) \cup {id}
      /\ m.kids[c] = Append(g.kids[c], id) /\ Len(m.kids[c]) = n + 1
      /\ m.kids[c][n + 1] = id /\ \A i \in 1..n : m.kids[c][i] = g.kids[c][i]
      /\ \A p \in Ids : p # c => m.kids[p] = g.kids[p]
  BY <1>1, JoinsForest
<1>7. m.nodes = g.nodes /\ m.pending = g.pending \ {id} /\ m.out = g.out
  BY DEF Joins
<1>8. /\ k \in Heaps /\ Balanced(h, k) /\ k.pools = h.pools /\ k.free = h.free /\ k.refs = h.refs
      /\ k.lost = h.lost /\ Given(k) = Given(h)
  BY DEF Relinked, Grows, Given
<1> HIDE DEF m, n, t
<1>9. ASSUME NEW p \in Live(g), p # c PROVE ShowsAt(k, m, p)
  <2>1. p \in Ids /\ ShowsAt(h, g, p) /\ m.kids[p] = g.kids[p]
    BY <1>1, <1>6, <1>9, GhostParts DEF Shows
  <2>2. Below(k, p) = Below(h, p)
    BY <1>5, <1>9, <2>1 DEF Below
  <2>3. ASSUME NEW i \in 1..Len(g.kids[p])
        PROVE  g.kids[p][i] \in Ids /\ g.kids[p][i] # t
    <3>1. g.kids[p][i] \in Ids /\ g.kids[p][i] # NullSlot
      BY <1>1, KidsPlaced, Constants
    <3>2. CASE n # 0
      <4>1. t = g.kids[c][n] /\ n \in 1..Len(g.kids[c])
        BY <1>4, <3>2 DEF n
      <4> QED BY <1>1, <1>2, <1>9, <3>1, <4>1, OnePlace
    <3> QED BY <1>4, <3>1, <3>2
  <2> QED BY <1>5, <1>7, <1>9, <2>1, <2>2, <2>3 DEF ShowsAt
<1>10. ShowsAt(k, m, c)
  <2>1. k.cell[c].type \in Collections /\ k.cell[c].type \in VariantTypes /\ k.cell[c].type # "Null"
    BY <1>2, <1>5 DEF VariantTypes, Collections
  <2>2. m.kids[c] # <<>> /\ First(m.kids[c]) = m.kids[c][1] /\ Final(m.kids[c]) = id
    <3>1. m.kids[c] # <<>>
      <4> SUFFICES ASSUME m.kids[c] = <<>> PROVE FALSE
        OBVIOUS
      <4>1. Len(m.kids[c]) = 0
        OBVIOUS
      <4> QED BY ONLY <1>2, <1>6, <4>1
    <3> QED BY <1>6, <3>1 DEF First, Final
  <2>3. Below(k, c) = k.cell[c].head
    BY <2>1 DEF Below
  <2>4. k.cell[c].head = m.kids[c][1]
    <3>1. CASE n = 0
      BY <1>4, <1>5, <1>6, <3>1
    <3>2. CASE n # 0
      <4>1. 1 \in 1..n
        BY <1>2, <3>2
      <4> QED BY <1>3, <1>4, <1>5, <1>6, <3>2, <4>1
    <3> QED BY <3>1, <3>2
  <2>5. ASSUME NEW i \in 1..Len(m.kids[c]) PROVE k.cell[m.kids[c][i]].next = After(m.kids[c], i)
    <3>1. i \in 1..n \/ i = n + 1
      BY <1>2, <1>6
    <3>2. CASE i = n + 1
      <4>1. m.kids[c][i] = id /\ After(m.kids[c], i) = NullSlot
        BY <1>2, <1>6, <3>2 DEF After
      <4>2. id # t
        BY <1>2, <1>4, Constants
      <4>3. h.cell[id].next = NullSlot
        BY <1>1, <1>2 DEF Shows
      <4> QED BY <1>2, <1>5, <4>1, <4>2, <4>3
    <3>3. CASE i \in 1..n
      <4>1. /\ m.kids[c][i] = g.kids[c][i] /\ g.kids[c][i] \in Ids /\ g.kids[c][i] # NullSlot
            /\ h.cell[g.kids[c][i]].next = After(g.kids[c], i)
        BY <1>1, <1>2, <1>3, <1>6, <3>3, KidsPlaced, Constants DEF n, ShowsAt
      <4>2. After(m.kids[c], i) = m.kids[c][i + 1] /\ i + 1 \in 1..(n + 1)
        BY <1>2, <1>6, <3>3 DEF After
      <4>3. CASE i = n
        <5>1. n # 0 /\ g.kids[c][i] = t
          BY <1>2, <1>4, <3>3, <4>3
        <5> QED BY <1>4, <1>5, <1>6, <4>1, <4>2, <4>3, <5>1
      <4>4. CASE i # n
        <5>1. i < n /\ i + 1 \in 1..n /\ n # 0 /\ n \in 1..n
          BY <1>2, <3>3, <4>4
        <5>2. g.kids[c][i] # t
          <6>1. t = g.kids[c][n]
            BY <1>4, <5>1
          <6> QED BY <1>1, <1>2, <3>3, <4>4, <5>1, <6>1, OnePlace DEF n
        <5>3. After(g.kids[c], i) = g.kids[c][i + 1]
          BY <5>1 DEF After, n
        <5> QED BY <1>5, <1>6, <4>1, <4>2, <5>1, <5>2, <5>3
      <4> QED BY <4>3, <4>4
    <3> QED BY <3>1, <3>2, <3>3
  <2> QED BY <1>5, <2>1, <2>2, <2>3, <2>4, <2>5 DEF ShowsAt
<1>11. Shows(k, m)
  <2>1. \A x \in m.pending \ m.out : k.cell[x].next = NullSlot
    <3>1. \A x \in m.pending \ m.out : x \in Ids /\ x \in g.pending \ g.out /\ (n # 0 => x # t)
      BY <1>2, <1>4, <1>7, Constants
    <3>2. \A x \in m.pending \ m.out : ~(x = t /\ t # NullSlot)
      BY <1>4, <3>1
    <3> QED BY <1>1, <1>5, <3>1, <3>2 DEF Shows
  <2>2. \A x \in Ids \ Live(m) : k.cell[x].type \notin InPool
    BY <1>1, <1>5, <1>6 DEF Shows
  <2> QED BY <1>6, <1>9, <1>10, <2>1, <2>2 DEF Shows
<1>12. Memory(k, m)
  BY <1>1, <1>7, <1>8 DEF Memory
<1> QED BY <1>1, <1>5, <1>6, <1>8, <1>11, <1>12, ExactStays DEF Good, m

\* A key with its value is linked as one slot after the other would be.
LEMMA PairIsTwo ==
  ASSUME NEW cell \in [Ids -> Cells], NEW c \in Ids, NEW key \in Slots, NEW value \in Slots,
         cell[c].tail # c, cell[c].tail # NullSlot => cell[c].tail \in Ids,
         key # c, cell[c].tail # key
  PROVE  PairCells(cell, c, key, value) = LinkCells(LinkCells(cell, c, key, key), c, value, value)
<1> DEFINE first == [cell EXCEPT ![key] = [@ EXCEPT !.next = value]]
           d == LinkCells(first, c, key, value)
           e == LinkCells(cell, c, key, key)
           f == LinkCells(e, c, value, value)
           t == cell[c].tail
<1>1. key \in Ids /\ value \in Ids /\ key # NullSlot /\ value # NullSlot /\ value \in Links /\ key \in Links
  BY Constants
<1>2. /\ first \in [Ids -> Cells] /\ \A x \in Ids : x # key => first[x] = cell[x]
      /\ first[key].type = cell[key].type /\ first[key].text = cell[key].text
      /\ first[key].head = cell[key].head /\ first[key].tail = cell[key].tail
      /\ first[key].next = value
  <2> DEFINE y == [cell[key] EXCEPT !.next = value]
  <2>1. cell[key] \in Cells
    BY <1>1
  <2>2. /\ y \in Cells /\ y.type = cell[key].type /\ y.text = cell[key].text
        /\ y.head = cell[key].head /\ y.tail = cell[key].tail /\ y.next = value
    BY <1>1, <2>1 DEF Cells
  <2>3. first = [cell EXCEPT ![key] = y]
    OBVIOUS
  <2> HIDE DEF y
  <2> QED BY <1>1, <2>2, <2>3
<1> HIDE DEF first
<1>3. first[c].tail = t
  BY <1>2
<1>4. /\ d \in [Ids -> Cells]
      /\ \A x \in Ids : d[x].type = first[x].type /\ d[x].text = first[x].text
      /\ \A x \in Ids : x # c => d[x].head = first[x].head /\ d[x].tail = first[x].tail
      /\ d[c].tail = value /\ d[c].head = IF t = NullSlot THEN key ELSE first[c].head
      /\ \A x \in Ids : d[x].next = IF x = t /\ t # NullSlot THEN key ELSE first[x].next
  BY <1>2, <1>3, LinkedCells
<1>5. /\ e \in [Ids -> Cells]
      /\ \A x \in Ids : e[x].type = cell[x].type /\ e[x].text = cell[x].text
      /\ \A x \in Ids : x # c => e[x].head = cell[x].head /\ e[x].tail = cell[x].tail
      /\ e[c].tail = key /\ e[c].head = IF t = NullSlot THEN key ELSE cell[c].head
      /\ \A x \in Ids : e[x].next = IF x = t /\ t # NullSlot THEN key ELSE cell[x].next
  BY LinkedCells
<1> HIDE DEF d, e
<1>6. /\ f \in [Ids -> Cells]
      /\ \A x \in Ids : f[x].type = e[x].type /\ f[x].text = e[x].text
      /\ \A x \in Ids : x # c => f[x].head = e[x].head /\ f[x].tail = e[x].tail
      /\ f[c].tail = value /\ f[c].head = e[c].head
      /\ \A x \in Ids : f[x].next = IF x = key THEN value ELSE e[x].next
  <2>1. e[c].tail # c /\ (e[c].tail # NullSlot => e[c].tail \in Ids) /\ e[c].tail # NullSlot
    BY <1>1, <1>5
  <2> QED BY <1>5, <2>1, LinkedCells
<1> HIDE DEF f, t
<1>7. \A x \in Ids : /\ d[x].type = f[x].type /\ d[x].text = f[x].text /\ d[x].head = f[x].head
                     /\ d[x].tail = f[x].tail
  BY <1>2, <1>4, <1>5, <1>6
<1>8. \A x \in Ids : d[x].next = f[x].next
  <2> TAKE x \in Ids
  <2>1. t # key
    BY DEF t
  <2>2. CASE x = key
    BY <1>2, <1>4, <1>6, <2>1, <2>2
  <2>3. CASE x # key
    BY <1>2, <1>4, <1>5, <1>6, <2>3
  <2> QED BY <2>2, <2>3
<1>9. \A x \in Ids : d[x] = f[x]
  <2> TAKE x \in Ids
  <2>1. d[x] \in Cells /\ f[x] \in Cells
    BY <1>4, <1>6
  <2>2. ASSUME NEW a \in Cells, NEW b \in Cells, a.type = b.type, a.text = b.text, a.head = b.head,
               a.tail = b.tail, a.next = b.next
        PROVE  a = b
    BY <2>2 DEF Cells
  <2> QED BY <1>7, <1>8, <2>1, <2>2
<1>10. d = f
  BY <1>4, <1>6, <1>9
<1> QED BY <1>10 DEF d, f, e, first, PairCells

-----------------------------------------------------------------------------
(***************************************************************************)
(* A slot is unlinked, and freed.                                          *)
(***************************************************************************)

\* A sequence without its i-th entry.
Without(s, i) == [j \in 1..(Len(s) - 1) |-> IF j < i THEN s[j] ELSE s[j + 1]]

LEMMA WithoutIs ==
  ASSUME NEW S, NEW s \in Seq(S), NEW i \in 1..Len(s)
  PROVE  /\ Without(s, i) \in Seq(S) /\ Len(Without(s, i)) = Len(s) - 1
         /\ \A j \in 1..Len(Without(s, i)) :
              Without(s, i)[j] = (IF j < i THEN s[j] ELSE s[j + 1])
<1> DEFINE w == Without(s, i)
<1>1. Len(s) \in Nat /\ i \in Nat /\ Len(s) - 1 \in Nat /\ \A j \in 1..Len(s) : s[j] \in S
  OBVIOUS
<1>2. \A j \in 1..(Len(s) - 1) : w[j] = (IF j < i THEN s[j] ELSE s[j + 1])
  BY DEF Without
<1>3. \A j \in 1..(Len(s) - 1) : w[j] \in S
  BY <1>1, <1>2
<1>4. w \in [1..(Len(s) - 1) -> S]
  BY <1>3 DEF Without
<1> HIDE DEF w
<1>5. w \in Seq(S) /\ Len(w) = Len(s) - 1
  BY <1>1, <1>4
<1> QED BY <1>2, <1>5 DEF w

\* The place in s of the j-th entry that stays.
Place(i, j) == IF j < i THEN j ELSE j + 1

\* Its entries are those of s, but one, in their order.
LEMMA Places ==
  ASSUME NEW S, NEW s \in Seq(S), NEW i \in 1..Len(s)
  PROVE  /\ \A j \in 1..Len(Without(s, i)) :
              /\ Place(i, j) \in 1..Len(s) /\ Place(i, j) # i /\ Without(s, i)[j] = s[Place(i, j)]
              /\ \A l \in 1..Len(Without(s, i)) : j < l => Place(i, j) < Place(i, l)
              /\ After(Without(s, i), j) =
                   (IF Place(i, j) + 1 = i THEN After(s, i) ELSE After(s, Place(i, j)))
         /\ \A l \in 1..Len(s) : l # i => \E j \in 1..Len(Without(s, i)) : Without(s, i)[j] = s[l]
         /\ First(Without(s, i)) = (IF i = 1 THEN After(s, 1) ELSE s[1])
         /\ Final(Without(s, i)) = (IF i < Len(s) THEN s[Len(s)] ELSE IF i = 1 THEN NullSlot ELSE s[i - 1])
<1> DEFINE w == Without(s, i)
           n == Len(s)
<1>1. /\ n \in Nat /\ i \in 1..n /\ w \in Seq(S) /\ Len(w) = n - 1
      /\ \A j \in 1..(n - 1) : w[j] = (IF j < i THEN s[j] ELSE s[j + 1])
  BY WithoutIs
<1> HIDE DEF w
<1>2. ASSUME NEW j \in 1..Len(w)
      PROVE  /\ Place(i, j) \in 1..Len(s) /\ Place(i, j) # i /\ w[j] = s[Place(i, j)]
             /\ \A l \in 1..Len(w) : j < l => Place(i, j) < Place(i, l)
  BY <1>1 DEF Place
<1>3. ASSUME NEW j \in 1..Len(w)
      PROVE  After(w, j) = (IF Place(i, j) + 1 = i THEN After(s, i) ELSE After(s, Place(i, j)))
  <2>1. j \in 1..(n - 1)
    BY <1>1
  <2>2. CASE j < n - 1
    <3>1. j + 1 \in 1..(n - 1) /\ After(w, j) = w[j + 1]
      BY <1>1, <2>1, <2>2 DEF After
    <3>2. w[j + 1] = (IF j + 1 < i THEN s[j + 1] ELSE s[(j + 1) + 1])
      BY <1>1, <3>1
    <3> QED BY <1>1, <2>1, <2>2, <3>1, <3>2 DEF After, Place
  <2>3. CASE j = n - 1
    <3>1. After(w, j) = NullSlot
      BY <1>1, <2>3 DEF After
    <3> QED BY <1>1, <2>1, <2>3, <3>1 DEF After, Place
  <2> QED BY <2>1, <2>2, <2>3
<1>4. ASSUME NEW l \in 1..n, l # i PROVE \E j \in 1..Len(w) : w[j] = s[l]
  <2>1. CASE l < i
    <3>1. l \in 1..(n - 1) /\ w[l] = s[l]
      BY <1>1, <2>1
    <3> QED BY <1>1, <3>1
  <2>2. CASE l > i
    <3>1. l - 1 \in 1..(n - 1) /\ ~(l - 1 < i) /\ (l - 1) + 1 = l
      BY <1>1, <2>2
    <3>2. w[l - 1] = s[l]
      BY <1>1, <3>1
    <3> QED BY <1>1, <3>1, <3>2
  <2> QED BY <1>1, <1>4, <2>1, <2>2
<1>5. (w = <<>>) <=> n = 1
  BY <1>1
<1>6. First(w) = (IF i = 1 THEN After(s, 1) ELSE s[1])
  <2>1. CASE n = 1
    BY <1>1, <1>5, <2>1 DEF First, After
  <2>2. CASE n # 1
    <3>1. 1 \in 1..(n - 1) /\ w # <<>>
      BY <1>1, <1>5, <2>2
    <3>2. First(w) = w[1] /\ w[1] = (IF 1 < i THEN s[1] ELSE s[1 + 1])
      BY <1>1, <3>1 DEF First
    <3> QED BY <1>1, <2>2, <3>2 DEF After
  <2> QED BY <2>1, <2>2
<1>7. Final(w) = (IF i < n THEN s[n] ELSE IF i = 1 THEN NullSlot ELSE s[i - 1])
  <2>1. CASE n = 1
    BY <1>1, <1>5, <2>1 DEF Final
  <2>2. CASE n # 1
    <3>1. n - 1 \in 1..(n - 1) /\ w # <<>>
      BY <1>1, <1>5, <2>2
    <3>2. Final(w) = w[n - 1] /\ w[n - 1] = (IF n - 1 < i THEN s[n - 1] ELSE s[(n - 1) + 1])
      BY <1>1, <3>1 DEF Final
    <3> QED BY <1>1, <2>2, <3>2
  <2> QED BY <2>1, <2>2
<1> QED BY <1>2, <1>3, <1>4, <1>6, <1>7 DEF w

-----------------------------------------------------------------------------
\* The i-th slot below c is not linked any more; the links of out are stale.
Unlinked(g, c, i, out) ==
  [nodes |-> g.nodes, pending |-> g.pending \cup {g.kids[c][i]},
   kids |-> [g.kids EXCEPT ![c] = Without(@, i)], own |-> g.own, born |-> g.born,
   clock |-> g.clock, out |-> out]

LEMMA UnlinkedForest ==
  ASSUME NEW g, Forest(g), NEW c \in Live(g), NEW i \in 1..Len(g.kids[c]), NEW out \in SUBSET Ids
  PROVE  LET m == Unlinked(g, c, i, out)
         IN /\ Forest(m) /\ Live(m) = Live(g) /\ Placed(m) = Placed(g) \ {g.kids[c][i]}
            /\ m.kids[c] = Without(g.kids[c], i)
            /\ \A p \in Ids : p # c => m.kids[p] = g.kids[p]
<1> DEFINE m == Unlinked(g, c, i, out)
           x == g.kids[c][i]
           w == Without(g.kids[c], i)
<1>1. /\ m.nodes = g.nodes /\ m.pending = g.pending \cup {x} /\ m.clock = g.clock
      /\ m.kids = [g.kids EXCEPT ![c] = w] /\ m.own = g.own /\ m.born = g.born
  BY DEF Unlinked
<1>2. /\ c \in Ids /\ g.kids[c] \in Seq(Slots) /\ x \in Placed(g) /\ x \in Slots /\ g.own[x] = c
      /\ g.kids \in [Ids -> Seq(Slots)] /\ w \in Seq(Slots)
  <2>1. c \in Ids /\ g.kids[c] \in Seq(Slots) /\ x \in Placed(g) /\ x \in Slots /\ g.own[x] = c
    BY KidsPlaced
  <2> QED BY <2>1, GhostParts, WithoutIs
<1>3. m \in Ghosts
  <2>1. m.kids \in [Ids -> Seq(Slots)]
    BY <1>1, <1>2
  <2>2. /\ g.nodes \in SUBSET Slots /\ g.pending \cup {x} \in SUBSET Slots
        /\ g.own \in [Ids -> Ids] /\ g.born \in [Ids -> Nat] /\ g.clock \in Nat
    BY <1>2, GhostParts
  <2> QED BY <1>1, <2>1, <2>2 DEF Ghosts, Unlinked
<1> HIDE DEF m
<1>4. Live(m) = Live(g) /\ Placed(m) = Placed(g) \ {x} /\ m.pending \subseteq m.nodes
  BY <1>1, <1>2, GhostParts DEF Live, Placed
<1>5. m.kids[c] = w /\ \A p \in Ids : p # c => m.kids[p] = g.kids[p]
  BY <1>1, <1>2
<1>6. /\ \A j \in 1..Len(w) : /\ Place(i, j) \in 1..Len(g.kids[c]) /\ Place(i, j) # i
                              /\ w[j] = g.kids[c][Place(i, j)]
                              /\ \A l \in 1..Len(w) : j < l => Place(i, j) < Place(i, l)
      /\ \A l \in 1..Len(g.kids[c]) : l # i => \E j \in 1..Len(w) : w[j] = g.kids[c][l]
  <2> DEFINE s == g.kids[c]
  <2>1. s \in Seq(Slots) /\ i \in 1..Len(s)
    BY <1>2
  <2> HIDE DEF s
  <2>2. /\ \A j \in 1..Len(Without(s, i)) :
             /\ Place(i, j) \in 1..Len(s) /\ Place(i, j) # i /\ Without(s, i)[j] = s[Place(i, j)]
             /\ \A l \in 1..Len(Without(s, i)) : j < l => Place(i, j) < Place(i, l)
        /\ \A l \in 1..Len(s) : l # i => \E j \in 1..Len(Without(s, i)) : Without(s, i)[j] = s[l]
    BY <2>1, Places
  <2> QED BY <2>2 DEF s
<1> HIDE DEF w
<1>7. ASSUME NEW p \in Live(m), NEW j \in 1..Len(m.kids[p])
      PROVE  /\ m.kids[p][j] \in Placed(m) /\ m.own[m.kids[p][j]] = p
             /\ m.born[p] < m.born[m.kids[p][j]]
             /\ \A l \in 1..Len(m.kids[p]) : j < l => m.born[m.kids[p][j]] < m.born[m.kids[p][l]]
  <2>1. p \in Live(g) /\ p \in Ids
    BY <1>4, GhostParts
  <2>2. CASE p # c
    <3>1. m.kids[p] = g.kids[p] /\ j \in 1..Len(g.kids[p])
      BY <1>5, <2>1, <2>2
    <3>2. g.own[g.kids[p][j]] = p /\ g.kids[p][j] \in Placed(g)
      BY <2>1, <3>1, KidsPlaced
    <3>3. g.kids[p][j] # x
      BY <1>2, <2>2, <3>2
    <3>4. /\ g.born[p] < g.born[g.kids[p][j]]
          /\ \A l \in 1..Len(g.kids[p]) : j < l => g.born[g.kids[p][j]] < g.born[g.kids[p][l]]
      BY <2>1, <3>1 DEF Forest
    <3> QED BY <1>1, <1>4, <3>1, <3>2, <3>3, <3>4
  <2>3. CASE p = c
    <3>1. m.kids[p] = w /\ j \in 1..Len(w)
      BY <1>5, <2>3
    <3>2. Place(i, j) \in 1..Len(g.kids[c]) /\ Place(i, j) # i /\ w[j] = g.kids[c][Place(i, j)]
      BY <1>6, <3>1
    <3>3. w[j] \in Placed(g) /\ g.own[w[j]] = c /\ g.born[c] < g.born[w[j]]
      BY <3>2, KidsPlaced
    <3>4. w[j] # x
      BY <3>2, OnePlace
    <3>5. ASSUME NEW l \in 1..Len(w), j < l PROVE g.born[w[j]] < g.born[w[l]]
      <4>1. /\ Place(i, l) \in 1..Len(g.kids[c]) /\ Place(i, j) < Place(i, l)
            /\ w[l] = g.kids[c][Place(i, l)]
        BY <1>6, <3>1, <3>5
      <4> QED BY <3>2, <4>1 DEF Forest
    <3> QED BY <1>1, <1>4, <2>3, <3>1, <3>3, <3>4, <3>5
  <2> QED BY <2>2, <2>3
<1>8. ASSUME NEW y \in Placed(m)
      PROVE  m.own[y] \in Live(m) /\ \E j \in 1..Len(m.kids[m.own[y]]) : m.kids[m.own[y]][j] = y
  <2>1. y \in Placed(g) /\ y # x /\ m.own[y] = g.own[y]
    BY <1>1, <1>4
  <2>2. g.own[y] \in Live(g) /\ \E l \in 1..Len(g.kids[g.own[y]]) : g.kids[g.own[y]][l] = y
    BY <2>1 DEF Forest
  <2>3. CASE g.own[y] # c
    <3>1. m.kids[g.own[y]] = g.kids[g.own[y]]
      BY <1>5, <2>2, <2>3, GhostParts
    <3> QED BY <1>4, <2>1, <2>2, <3>1
  <2>4. CASE g.own[y] = c
    <3>1. PICK l \in 1..Len(g.kids[c]) : g.kids[c][l] = y
      BY <2>2, <2>4
    <3>2. \E j \in 1..Len(w) : w[j] = y
      BY <1>6, <2>1, <3>1
    <3> QED BY <1>4, <1>5, <2>1, <2>2, <2>4, <3>2
  <2> QED BY <2>3, <2>4
<1>9. \A p \in Live(m) : m.born[p] < m.clock
  BY <1>1, <1>4, GhostParts
<1>10. Forest(m)
  BY <1>3, <1>4, <1>7, <1>8, <1>9 DEF Forest
<1> QED BY <1>4, <1>5, <1>10 DEF m, w

\* Unlinking leaves a tree, but for the links that are named in out.
LEMMA UnlinkOK ==
  ASSUME NEW h, NEW g, Good(h, g), NEW c \in Live(g), c \notin g.pending, NEW i \in 1..Len(g.kids[c]),
         h.cell[c].type \in Collections, NEW out \in SUBSET Ids, g.kids[c][i] \in out,
         g.out \subseteq out \cup {c}, NEW k, Relinked(h, k), k.cell \in [Ids -> Cells],
         \A x \in Ids : k.cell[x].type = h.cell[x].type /\ k.cell[x].text = h.cell[x].text,
         \A x \in Ids : x # c => k.cell[x].head = h.cell[x].head /\ k.cell[x].tail = h.cell[x].tail,
         k.cell[c].head = (IF i = 1 THEN After(g.kids[c], 1) ELSE h.cell[c].head),
         c \in out \/ k.cell[c].tail = Final(Without(g.kids[c], i)),
         \A x \in Ids : k.cell[x].next = (IF i # 1 /\ x = g.kids[c][i - 1] THEN After(g.kids[c], i)
                                          ELSE h.cell[x].next)
  PROVE  Good(k, Unlinked(g, c, i, out))
<1> DEFINE m == Unlinked(g, c, i, out)
           s == g.kids[c]
           y == s[i]
           w == Without(s, i)
<1>1. /\ h \in Heaps /\ Forest(g) /\ Shows(h, g) /\ Memory(h, g) /\ Exact(h)
      /\ h.cell \in [Ids -> Cells] /\ ShowsAt(h, g, c)
  BY GoodParts, HeapParts
<1>2. c \in Ids /\ s \in Seq(Slots) /\ i \in 1..Len(s) /\ Len(s) \in Nat
  BY <1>1, KidsPlaced
<1>3. /\ Forest(m) /\ Live(m) = Live(g) /\ Placed(m) = Placed(g) \ {y} /\ m.kids[c] = w
      /\ \A p \in Ids : p # c => m.kids[p] = g.kids[p]
  BY <1>1, UnlinkedForest
<1>4. m.nodes = g.nodes /\ m.pending = g.pending \cup {y} /\ m.out = out
  BY DEF Unlinked
<1>5. /\ y \in out /\ y \in Ids /\ y \in Placed(g)
      /\ i # 1 => s[i - 1] \in Placed(g) /\ s[i - 1] \in Ids /\ g.own[s[i - 1]] = c
                  /\ i - 1 \in 1..Len(s)
      /\ \A j \in 1..Len(s) : s[j] \in Ids /\ h.cell[s[j]].next = After(s, j)
  <2>1. i # 1 => i - 1 \in 1..Len(s)
    BY <1>2
  <2> QED BY <1>1, <2>1, KidsPlaced DEF ShowsAt
<1> HIDE DEF m, s, w
<1>6. /\ \A j \in 1..Len(w) :
           /\ Place(i, j) \in 1..Len(s) /\ Place(i, j) # i /\ w[j] = s[Place(i, j)]
           /\ After(w, j) = (IF Place(i, j) + 1 = i THEN After(s, i) ELSE After(s, Place(i, j)))
      /\ First(w) = (IF i = 1 THEN After(s, 1) ELSE s[1])
  BY <1>2, Places DEF w
<1>7. ShowsAt(k, m, c)
  <2>1. k.cell[c].type \in Collections /\ k.cell[c].type # "Null"
        /\ k.cell[c].type \in VariantTypes \cup {"Extension"}
    BY <1>2 DEF Collections, VariantTypes
  <2>2. Below(k, c) = k.cell[c].head /\ Below(h, c) = h.cell[c].head
    BY <2>1 DEF Below
  <2>3. h.cell[c].head = s[1]
    <3>1. Below(h, c) = First(s) /\ s # <<>>
      BY <1>1, <1>2 DEF ShowsAt, s
    <3> QED BY <2>2, <3>1 DEF First
  <2>4. k.cell[c].head = First(w)
    BY <1>6, <2>3 DEF s
  <2>5. ASSUME NEW j \in 1..Len(w) PROVE k.cell[w[j]].next = After(w, j)
    <3> DEFINE l == Place(i, j)
    <3>1. l \in 1..Len(s) /\ w[j] = s[l] /\ s[l] \in Ids
      BY <1>5, <1>6
    <3>2. l \in Nat /\ i \in Nat
      BY <1>2, <3>1
    <3> HIDE DEF l
    <3>3. CASE l + 1 = i
      <4>1. i # 1 /\ i - 1 = l
        BY <3>1, <3>2, <3>3
      <4>2. k.cell[s[l]].next = After(s, i)
        BY <3>1, <4>1 DEF s
      <4> QED BY <1>6, <3>1, <3>3, <4>2 DEF l
    <3>4. CASE l + 1 # i
      <4>1. ~(i # 1 /\ s[l] = s[i - 1])
        <5> SUFFICES ASSUME i # 1, s[l] = s[i - 1] PROVE FALSE
          OBVIOUS
        <5>1. l = i - 1
          BY <1>1, <1>5, <3>1, OnePlace DEF s
        <5> QED BY <3>2, <3>4, <5>1
      <4>2. k.cell[s[l]].next = h.cell[s[l]].next
        BY <3>1, <4>1 DEF s
      <4> QED BY <1>5, <1>6, <3>1, <3>4, <4>2 DEF l
    <3> QED BY <3>3, <3>4
  <2>6. c \notin m.out => k.cell[c].tail = Final(w)
    BY <1>4 DEF w, s
  <2> QED BY <1>3, <2>1, <2>2, <2>4, <2>5, <2>6 DEF ShowsAt
<1>8. ASSUME NEW p \in Live(g), p # c PROVE ShowsAt(k, m, p)
  <2>1. /\ p \in Ids /\ ShowsAt(h, g, p) /\ m.kids[p] = g.kids[p]
        /\ \A j \in 1..Len(g.kids[p]) : g.kids[p][j] \in Ids /\ g.own[g.kids[p][j]] = p
    BY <1>1, <1>3, <1>8, KidsPlaced DEF Shows
  <2>2. \A j \in 1..Len(g.kids[p]) : k.cell[g.kids[p][j]].next = h.cell[g.kids[p][j]].next
    BY <1>5, <1>8, <2>1 DEF s
  <2>3. Below(k, p) = Below(h, p)
    BY <1>8, <2>1 DEF Below
  <2>4. p \notin m.out => p \notin g.out
    BY <1>4, <1>8
  <2> QED BY <1>8, <2>1, <2>2, <2>3, <2>4 DEF ShowsAt
<1>9. Shows(k, m)
  <2>1. ASSUME NEW x \in m.pending \ m.out PROVE k.cell[x].next = NullSlot
    <3>1. x \in g.pending /\ x \notin out /\ x \in Ids /\ x \notin Placed(g)
      BY <1>1, <1>4, <1>5, <2>1, GhostParts, Constants DEF Placed
    <3>2. h.cell[x].next = NullSlot
      <4>1. x \notin g.out \/ x = c
        BY <3>1
      <4>2. CASE x \notin g.out
        BY <1>1, <3>1, <4>2 DEF Shows
      <4>3. CASE x = c /\ x \in g.out
        BY <3>1, <4>3
      <4> QED BY <4>1, <4>2, <4>3
    <3>3. ~(i # 1 /\ x = s[i - 1])
      BY <1>5, <3>1
    <3> QED BY <3>1, <3>2, <3>3 DEF s
  <2>2. \A x \in Ids \ Live(m) : k.cell[x].type \notin InPool
    BY <1>1, <1>3 DEF Shows
  <2> QED BY <1>3, <1>7, <1>8, <2>1, <2>2 DEF Shows
<1>10. /\ k \in Heaps /\ Balanced(h, k) /\ k.free = h.free /\ k.lost = h.lost /\ Given(k) = Given(h)
  BY DEF Relinked, Grows, Given
<1>11. Memory(k, m)
  BY <1>1, <1>4, <1>10 DEF Memory
<1> QED BY <1>1, <1>3, <1>9, <1>10, <1>11, ExactStays DEF Good, m

\* freeVariant() of a variant that is not linked: it is gone with all below it.
LEMMA freeVariantDrops ==
  ASSUME NEW h, NEW g, Good(h, g), NEW id \in g.pending
  PROVE  LET k == freeVariant(h, id)
         IN /\ Grows(h, k) /\ k.pools = h.pools
            /\ \E m : /\ Good(k, m) /\ m.pending = g.pending \ {id} /\ m.out = g.out \ {id}
                      /\ Live(m) \subseteq Live(g) \ {id}
                      /\ \A p \in Live(g) : p # id /\ ~(g.born[id] < g.born[p]) => p \in Live(m)
                      /\ \A p \in Live(m) : /\ m.born[p] = g.born[p] /\ m.kids[p] = g.kids[p]
                                            /\ k.cell[p] = h.cell[p]
<1> DEFINE k == freeVariant(h, id)
           e == Clear(h, id)
           F == ToSet(Under(h, id))
           n == Cut(g, id, F)
           m == Dropped(n, {id})
<1>1. /\ h \in Heaps /\ Forest(g) /\ id \in Slots /\ id \in Live(g) /\ id \in Ids /\ id # Root
      /\ g.pending \subseteq g.nodes /\ Live(g) \subseteq Ids
  BY GoodParts, GhostParts, Constants DEF Live
<1>2. /\ Good(e, n) /\ e.pools = h.pools /\ F \subseteq Placed(g) /\ id \notin F
      /\ \A x \in F : g.born[id] < g.born[x]
      /\ Live(n) = Live(g) \ F /\ n.kids[id] = <<>>
      /\ \A p \in Live(n) : p # id => n.kids[p] = g.kids[p]
      /\ e.cell[id] = [NullVariant EXCEPT !.next = h.cell[id].next]
      /\ \A x \in Live(n) : x # id => e.cell[x] = h.cell[x]
  BY <1>1, ClearIsCut
<1>3. e.cell[id].type \notin InPool
  BY <1>2 DEF NullVariant, InPool
<1>4. n.nodes = g.nodes \ F /\ n.pending = g.pending /\ n.out = g.out /\ n.born = g.born
  BY DEF Cut
<1>5. /\ m.nodes = n.nodes \ {id} /\ m.pending = n.pending \ {id} /\ m.out = n.out \ {id}
      /\ m.kids = n.kids /\ m.born = n.born
  BY DEF Dropped
<1>6. Grows(h, k)
  BY <1>1, freeVariantGrows
<1>7. k = freeSlot(e, id)
  BY DEF freeVariant
<1> HIDE DEF k, e, F, n
<1>8. /\ Good(k, m) /\ k.pools = e.pools /\ \A x \in Ids : x # id => k.cell[x] = e.cell[x]
  <2>1. id \in n.pending
    BY <1>4
  <2>2. /\ Good(e, n) /\ n.kids[id] = <<>> /\ e.cell[id].type \notin InPool
    BY <1>2, <1>3
  <2>3. /\ Good(freeSlot(e, id), Dropped(n, {id})) /\ freeSlot(e, id).pools = e.pools
        /\ \A x \in Ids : x # id => freeSlot(e, id).cell[x] = e.cell[x]
    BY ONLY <2>1, <2>2, freeSlotDrops, Zenon
  <2> QED BY <1>7, <2>3
<1> HIDE DEF m
<1>9. Live(m) = Live(n) \ {id}
  BY <1>1, <1>5 DEF Live
<1>10. /\ m.pending = g.pending \ {id} /\ m.out = g.out \ {id} /\ Live(m) \subseteq Live(g) \ {id}
       /\ \A p \in Live(g) : p # id /\ ~(g.born[id] < g.born[p]) => p \in Live(m)
       /\ \A p \in Live(m) : m.born[p] = g.born[p] /\ m.kids[p] = g.kids[p] /\ k.cell[p] = h.cell[p]
  BY <1>1, <1>2, <1>4, <1>5, <1>8, <1>9
<1> QED BY <1>2, <1>6, <1>8, <1>10 DEF k

-----------------------------------------------------------------------------
\* The tree m has lost some of what was given out later than c, and c some of
\* what was below it.
Trimmed(h, g, k, m, c) ==
  /\ Live(m) \subseteq Live(g)
  /\ \A p \in Live(g) : g.born[p] <= g.born[c] => p \in Live(m)
  /\ \A p \in Live(m) : /\ m.born[p] = g.born[p] /\ k.cell[p].type = h.cell[p].type
                        /\ p # c => m.kids[p] = g.kids[p]

\* One removal after the other.
LEMMA TrimmedOn ==
  ASSUME NEW h, NEW g, NEW c \in Live(g), NEW k, NEW m, NEW l, NEW n,
         Trimmed(h, g, k, m, c), Trimmed(k, m, l, n, c), c \in Live(m)
  PROVE  Trimmed(h, g, l, n, c)
BY DEF Trimmed

\* A slot is unlinked, with some links not right yet, and freed.
LEMMA UnlinkAndFree ==
  ASSUME NEW h, NEW g, Good(h, g), NEW c \in Live(g), c \notin g.pending, NEW i \in 1..Len(g.kids[c]),
         h.cell[c].type \in Collections, NEW out \in SUBSET Ids, g.kids[c][i] \in out,
         g.out \subseteq out \cup {c}, NEW k, Relinked(h, k), k.cell \in [Ids -> Cells],
         \A x \in Ids : k.cell[x].type = h.cell[x].type /\ k.cell[x].text = h.cell[x].text,
         \A x \in Ids : x # c => k.cell[x].head = h.cell[x].head /\ k.cell[x].tail = h.cell[x].tail,
         k.cell[c].head = (IF i = 1 THEN After(g.kids[c], 1) ELSE h.cell[c].head),
         c \in out \/ k.cell[c].tail = Final(Without(g.kids[c], i)),
         \A x \in Ids : k.cell[x].next = (IF i # 1 /\ x = g.kids[c][i - 1] THEN After(g.kids[c], i)
                                          ELSE h.cell[x].next)
  PROVE  LET l == freeVariant(k, g.kids[c][i])
         IN /\ Grows(h, l) /\ l.pools = h.pools
            /\ \E m : /\ Good(l, m) /\ m.pending = g.pending /\ m.out = out \ {g.kids[c][i]}
                      /\ c \in Live(m) /\ m.kids[c] = Without(g.kids[c], i)
                      /\ Trimmed(h, g, l, m, c)
                      /\ \A p \in Live(m) : l.cell[p] = k.cell[p]
<1> DEFINE y == g.kids[c][i]
           n == Unlinked(g, c, i, out)
           l == freeVariant(k, y)
<1>1. /\ h \in Heaps /\ Forest(g) /\ Live(g) \subseteq Ids /\ g.pending \subseteq g.nodes
  BY GoodParts, GhostParts
<1>2. /\ y \in Slots /\ y \notin g.pending /\ g.born[c] < g.born[y] /\ g.born[c] \in Nat
      /\ g.born[y] \in Nat /\ y # c
  BY <1>1, KidsPlaced
<1>3. Good(k, n)
  BY UnlinkOK
<1>4. Live(n) = Live(g) /\ n.kids[c] = Without(g.kids[c], i)
      /\ \A p \in Ids : p # c => n.kids[p] = g.kids[p]
  BY <1>1, UnlinkedForest
<1>5. n.pending = g.pending \cup {y} /\ n.out = out /\ n.born = g.born
  BY DEF Unlinked
<1> HIDE DEF n, y, l
<1>6. /\ Grows(k, l) /\ l.pools = k.pools
      /\ \E m : /\ Good(l, m) /\ m.pending = n.pending \ {y} /\ m.out = n.out \ {y}
                /\ Live(m) \subseteq Live(n) \ {y}
                /\ \A p \in Live(n) : p # y /\ ~(n.born[y] < n.born[p]) => p \in Live(m)
                /\ \A p \in Live(m) : m.born[p] = n.born[p] /\ m.kids[p] = n.kids[p] /\ l.cell[p] = k.cell[p]
  <2>1. y \in n.pending
    BY <1>5
  <2> QED BY <1>3, <2>1, freeVariantDrops DEF l
<1>7. PICK m : /\ Good(l, m) /\ m.pending = n.pending \ {y} /\ m.out = n.out \ {y}
               /\ Live(m) \subseteq Live(n) \ {y}
               /\ \A p \in Live(n) : p # y /\ ~(n.born[y] < n.born[p]) => p \in Live(m)
               /\ \A p \in Live(m) : m.born[p] = n.born[p] /\ m.kids[p] = n.kids[p] /\ l.cell[p] = k.cell[p]
  BY <1>6
<1>8. m.pending = g.pending /\ m.out = out \ {y}
  BY <1>2, <1>5, <1>7
<1>9. \A p \in Live(g) : g.born[p] <= g.born[c] => p \in Live(m)
  <2> SUFFICES ASSUME NEW p \in Live(g), g.born[p] <= g.born[c] PROVE p \in Live(m)
    OBVIOUS
  <2>1. g.born[p] \in Nat
    BY <1>1, GhostParts
  <2>2. p # y /\ ~(g.born[y] < g.born[p])
    BY <1>2, <2>1
  <2> QED BY <1>4, <1>5, <1>7, <2>2
<1>10. c \in Live(m) /\ m.kids[c] = Without(g.kids[c], i)
  <2>1. c \in Live(m)
    BY <1>2, <1>9
  <2> QED BY <1>4, <1>7, <2>1
<1>11. Trimmed(h, g, l, m, c)
  <2>1. ASSUME NEW p \in Live(m)
        PROVE  /\ m.born[p] = g.born[p] /\ l.cell[p].type = h.cell[p].type
               /\ p # c => m.kids[p] = g.kids[p]
    <3>1. p \in Live(g) /\ p \in Ids
      BY <1>1, <1>4, <1>7
    <3> QED BY <1>4, <1>5, <1>7, <3>1
  <2> QED BY <1>4, <1>7, <1>9, <2>1 DEF Trimmed
<1>12. Grows(h, l) /\ l.pools = h.pools
  BY <1>1, <1>6, GrowsOn DEF Relinked
<1> QED BY <1>7, <1>8, <1>10, <1>11, <1>12 DEF y, l

\* removeOne(): the tail of the collection may be stale when the last slot is
\* removed.
LEMMA removeOneOK ==
  ASSUME NEW h, NEW g, Good(h, g), NEW c \in Live(g), c \notin g.pending, NEW i \in 1..Len(g.kids[c]),
         h.cell[c].type \in Collections, g.out \subseteq {c}, g.out = {} \/ i = Len(g.kids[c])
  PROVE  LET l == removeOne(h, c, g.kids[c][i])
         IN /\ Grows(h, l) /\ l.pools = h.pools
            /\ \E m : /\ Good(l, m) /\ m.pending = g.pending /\ m.out = {}
                      /\ c \in Live(m) /\ m.kids[c] = Without(g.kids[c], i)
                      /\ Trimmed(h, g, l, m, c)
<1> DEFINE s == g.kids[c]
           y == s[i]
           before == getPreviousSlot(h, c, y)
           after == h.cell[y].next
           d == IF before # NullSlot THEN [h.cell EXCEPT ![before] = [@ EXCEPT !.next = after]]
                ELSE [h.cell EXCEPT ![c] = [@ EXCEPT !.head = after]]
           e == IF after = NullSlot THEN [d EXCEPT ![c] = [@ EXCEPT !.tail = before]] ELSE d
           k == [h EXCEPT !.cell = e]
<1>1. /\ h \in Heaps /\ Forest(g) /\ Shows(h, g) /\ h.cell \in [Ids -> Cells] /\ ShowsAt(h, g, c)
      /\ \A x \in Ids : h.cell[x] \in Cells
  BY GoodParts, HeapParts
<1>2. /\ c \in Ids /\ s \in Seq(Slots) /\ i \in 1..Len(s) /\ Len(s) \in Nat /\ i \in Nat
      /\ y \in Ids /\ y \in Slots /\ NullSlot \notin Slots /\ y # c
      /\ i # 1 => /\ i - 1 \in 1..Len(s) /\ s[i - 1] \in Slots /\ s[i - 1] \in Ids /\ s[i - 1] # c
  <2>1. i # 1 => i - 1 \in 1..Len(g.kids[c])
    BY <1>1, KidsPlaced
  <2> QED BY <1>1, <2>1, KidsPlaced, Constants
<1>3. before = (IF i = 1 THEN NullSlot ELSE s[i - 1])
  <2>1. Children(h, c) = s
    BY <1>1, ChildrenOK
  <2>2. DOMAIN s = 1..Len(s) /\ \A j \in 1..Len(s) : s[j] = y <=> j = i
    BY <1>1, <1>2, OnePlace
  <2> DEFINE n == CHOOSE j \in DOMAIN Children(h, c) : Children(h, c)[j] = y
  <2> HIDE DEF s, y
  <2>3. \A j \in DOMAIN Children(h, c) : Children(h, c)[j] = y <=> j = i
    BY <2>1, <2>2
  <2>4. i \in DOMAIN Children(h, c)
    BY <1>2, <2>1, <2>2
  <2>5. n = i
    BY ONLY <2>3, <2>4
  <2>6. before = IF n = 1 THEN NullSlot ELSE Children(h, c)[n - 1]
    BY DEF getPreviousSlot
  <2> HIDE DEF n
  <2> QED BY <2>1, <2>5, <2>6
<1>4. after = After(s, i) /\ after \in Links /\ before \in Links
  <2>1. after = After(s, i)
    BY <1>1, <1>2 DEF ShowsAt
  <2>2. after \in Links
    BY <1>1, <1>2 DEF Cells
  <2> QED BY <1>2, <1>3, <2>1, <2>2, Constants DEF Links, Slots
<1>5. removeOne(h, c, y) = freeVariant(k, y)
  <2>1. h.cell = h.cell
    OBVIOUS
  <2> QED BY DEF removeOne
<1> HIDE DEF before, after, k, e, s, y
<1>6. /\ d \in [Ids -> Cells]
      /\ \A x \in Ids : /\ d[x].type = h.cell[x].type /\ d[x].text = h.cell[x].text
                        /\ d[x].tail = h.cell[x].tail
                        /\ x # c => d[x].head = h.cell[x].head
                        /\ d[x].next = (IF i # 1 /\ x = s[i - 1] THEN after ELSE h.cell[x].next)
      /\ d[c].head = (IF i = 1 THEN after ELSE h.cell[c].head)
  <2>1. ASSUME NEW x \in Cells, NEW z \in Links
        PROVE  /\ [x EXCEPT !.next = z] \in Cells /\ [x EXCEPT !.next = z].next = z
               /\ [x EXCEPT !.next = z].type = x.type /\ [x EXCEPT !.next = z].text = x.text
               /\ [x EXCEPT !.next = z].head = x.head /\ [x EXCEPT !.next = z].tail = x.tail
               /\ [x EXCEPT !.head = z] \in Cells /\ [x EXCEPT !.head = z].head = z
               /\ [x EXCEPT !.head = z].type = x.type /\ [x EXCEPT !.head = z].text = x.text
               /\ [x EXCEPT !.head = z].tail = x.tail /\ [x EXCEPT !.head = z].next = x.next
    BY DEF Cells
  <2>2. CASE i = 1
    <3> DEFINE z == [h.cell[c] EXCEPT !.head = after]
    <3>1. d = [h.cell EXCEPT ![c] = z]
      BY <1>3, <2>2
    <3>2. /\ z \in Cells /\ z.head = after /\ z.type = h.cell[c].type /\ z.text = h.cell[c].text
          /\ z.tail = h.cell[c].tail /\ z.next = h.cell[c].next
      <4>1. h.cell[c] \in Cells /\ after \in Links
        BY <1>1, <1>2, <1>4
      <4> QED BY ONLY <2>1, <4>1
    <3> HIDE DEF z, d
    <3> QED BY <1>1, <1>2, <2>2, <3>1, <3>2
  <2>3. CASE i # 1
    <3> DEFINE b == s[i - 1]
               z == [h.cell[b] EXCEPT !.next = after]
    <3>0. b \in Ids /\ b # c /\ before = b /\ b # NullSlot
      BY <1>2, <1>3, <2>3
    <3>1. d = [h.cell EXCEPT ![b] = z]
      BY <3>0
    <3>2. /\ z \in Cells /\ z.next = after /\ z.type = h.cell[b].type /\ z.text = h.cell[b].text
          /\ z.tail = h.cell[b].tail /\ z.head = h.cell[b].head
      <4>1. h.cell[b] \in Cells /\ after \in Links
        BY <1>1, <1>4, <3>0
      <4> QED BY ONLY <2>1, <4>1
    <3> HIDE DEF z, d
    <3>3. d \in [Ids -> Cells] /\ d[b] = z /\ \A x \in Ids : x # b => d[x] = h.cell[x]
      BY <1>1, <3>0, <3>1, <3>2
    <3> QED BY <1>2, <2>3, <3>0, <3>2, <3>3
  <2> QED BY <2>2, <2>3
<1> HIDE DEF d
<1>7. /\ e \in [Ids -> Cells]
      /\ \A x \in Ids : /\ e[x].type = h.cell[x].type /\ e[x].text = h.cell[x].text
                        /\ x # c => e[x].head = h.cell[x].head /\ e[x].tail = h.cell[x].tail
                        /\ e[x].next = (IF i # 1 /\ x = s[i - 1] THEN after ELSE h.cell[x].next)
      /\ e[c].head = (IF i = 1 THEN after ELSE h.cell[c].head)
      /\ e[c].tail = (IF after = NullSlot THEN before ELSE h.cell[c].tail)
  <2>1. CASE after # NullSlot
    <3>1. e = d
      BY <2>1 DEF e
    <3> QED BY <1>2, <1>6, <2>1, <3>1
  <2>2. CASE after = NullSlot
    <3> DEFINE z == [d[c] EXCEPT !.tail = before]
    <3>1. e = [d EXCEPT ![c] = z]
      BY <2>2 DEF e
    <3>2. /\ z \in Cells /\ z.tail = before /\ z.type = d[c].type /\ z.text = d[c].text
          /\ z.head = d[c].head /\ z.next = d[c].next
      <4>1. d[c] \in Cells
        BY <1>2, <1>6
      <4> QED BY <1>4, <4>1 DEF Cells
    <3> HIDE DEF z
    <3>3. e \in [Ids -> Cells] /\ e[c] = z /\ \A x \in Ids : x # c => e[x] = d[x]
      BY <1>2, <1>6, <3>1, <3>2
    <3> HIDE DEF e
    <3> QED BY <1>2, <1>6, <2>2, <3>2, <3>3
  <2> QED BY <2>1, <2>2
<1>8. Relinked(h, k) /\ k.cell = e
  BY <1>1, <1>7, Relinks DEF k
<1>9. k.cell[c].tail = Final(Without(s, i))
  <2>1. Final(Without(s, i)) = (IF i < Len(s) THEN s[Len(s)] ELSE IF i = 1 THEN NullSlot ELSE s[i - 1])
    BY <1>2, Places
  <2>2. after = NullSlot <=> ~(i < Len(s))
    <3>1. i < Len(s) => s[i + 1] \in Slots
      BY <1>2
    <3> QED BY <1>2, <1>4, <3>1 DEF After
  <2>3. CASE i < Len(s)
    <3>1. g.out = {}
      BY <1>2, <2>3 DEF s
    <3>2. h.cell[c].tail = Final(s) /\ s # <<>>
      BY <1>1, <1>2, <3>1 DEF ShowsAt, s
    <3> QED BY <1>7, <1>8, <2>1, <2>2, <2>3, <3>2 DEF Final
  <2>4. CASE ~(i < Len(s))
    BY <1>3, <1>7, <1>8, <2>1, <2>2, <2>4
  <2> QED BY <2>3, <2>4
<1>10. {y} \in SUBSET Ids /\ y \in {y} /\ g.out \subseteq {y} \cup {c}
  BY <1>2
<1>11. /\ k.cell \in [Ids -> Cells]
       /\ \A x \in Ids : k.cell[x].type = h.cell[x].type /\ k.cell[x].text = h.cell[x].text
       /\ \A x \in Ids : x # c => k.cell[x].head = h.cell[x].head /\ k.cell[x].tail = h.cell[x].tail
       /\ k.cell[c].head = (IF i = 1 THEN After(g.kids[c], 1) ELSE h.cell[c].head)
       /\ k.cell[c].tail = Final(Without(g.kids[c], i))
       /\ \A x \in Ids : k.cell[x].next = (IF i # 1 /\ x = g.kids[c][i - 1] THEN After(g.kids[c], i)
                                           ELSE h.cell[x].next)
  BY <1>4, <1>7, <1>8, <1>9 DEF s
<1>12. LET l == freeVariant(k, g.kids[c][i])
       IN /\ Grows(h, l) /\ l.pools = h.pools
          /\ \E m : /\ Good(l, m) /\ m.pending = g.pending /\ m.out = {y} \ {g.kids[c][i]}
                    /\ c \in Live(m) /\ m.kids[c] = Without(g.kids[c], i)
                    /\ Trimmed(h, g, l, m, c)
  <2> DEFINE out == {y}
  <2>1. out \in SUBSET Ids /\ g.kids[c][i] \in out /\ g.out \subseteq out \cup {c}
    BY <1>10 DEF y, s
  <2> HIDE DEF out
  <2>2. LET l == freeVariant(k, g.kids[c][i])
        IN /\ Grows(h, l) /\ l.pools = h.pools
           /\ \E m : /\ Good(l, m) /\ m.pending = g.pending /\ m.out = out \ {g.kids[c][i]}
                     /\ c \in Live(m) /\ m.kids[c] = Without(g.kids[c], i)
                     /\ Trimmed(h, g, l, m, c) /\ \A p \in Live(m) : l.cell[p] = k.cell[p]
    <3>1. /\ Good(h, g) /\ c \in Live(g) /\ c \notin g.pending /\ i \in 1..Len(g.kids[c])
          /\ h.cell[c].type \in Collections /\ Relinked(h, k)
      BY <1>8
    <3> QED BY ONLY <1>11, <2>1, <3>1, UnlinkAndFree, SMTT(60)
  <2> QED BY <2>2 DEF out
<1>13. {y} \ {g.kids[c][i]} = {}
  BY DEF y, s
<1> QED BY <1>5, <1>12, <1>13 DEF y, s

\* removePair(): the value, which is linked behind its key, and the key.
LEMMA removePairOK ==
  ASSUME NEW h, NEW g, Good(h, g), NEW c \in Live(g), c \notin g.pending, NEW i \in 1..Len(g.kids[c]),
         i + 1 \in 1..Len(g.kids[c]), h.cell[c].type \in Collections, g.out = {}
  PROVE  LET l == removePair(h, c, g.kids[c][i])
         IN /\ Grows(h, l) /\ l.pools = h.pools
            /\ \E m : /\ Good(l, m) /\ m.pending = g.pending /\ m.out = {}
                      /\ c \in Live(m) /\ Len(m.kids[c]) = Len(g.kids[c]) - 2
                      /\ Trimmed(h, g, l, m, c)
<1> DEFINE s == g.kids[c]
           key == s[i]
           value == s[i + 1]
           after == h.cell[value].next
           d == [h.cell EXCEPT ![key] = [@ EXCEPT !.next = after]]
           k == [h EXCEPT !.cell = d]
           out == IF after = NullSlot THEN {value, c} ELSE {value}
<1>1. /\ h \in Heaps /\ Forest(g) /\ h.cell \in [Ids -> Cells] /\ ShowsAt(h, g, c)
      /\ \A x \in Ids : h.cell[x] \in Cells
  BY GoodParts, HeapParts
<1>2. /\ c \in Ids /\ s \in Seq(Slots) /\ i \in 1..Len(s) /\ i + 1 \in 1..Len(s) /\ Len(s) \in Nat
      /\ key \in Slots /\ key \in Ids /\ value \in Slots /\ value \in Ids /\ NullSlot \notin Slots
      /\ key # c /\ value # c /\ i \in Nat /\ i + 1 # 1 /\ (i + 1) - 1 = i
  <2>1. /\ g.kids[c] \in Seq(Slots) /\ Len(g.kids[c]) \in Nat
        /\ \A j \in 1..Len(g.kids[c]) : g.kids[c][j] \in Slots /\ g.kids[c][j] \in Ids /\ g.kids[c][j] # c
    BY <1>1, KidsPlaced
  <2>2. c \in Ids /\ NullSlot \notin Slots
    BY <1>1, GhostParts, Constants
  <2> QED BY <2>1, <2>2
<1>3. h.cell[key].next = value /\ after = After(s, i + 1) /\ after \in Links
  <2>1. h.cell[key].next = After(s, i)
    BY <1>1, <1>2 DEF ShowsAt
  <2>2. after = After(s, i + 1)
    BY <1>1, <1>2 DEF ShowsAt
  <2>3. i < Len(s) /\ After(s, i) = value
    BY <1>2 DEF After
  <2>4. h.cell[value] \in Cells
    BY <1>1, <1>2
  <2> QED BY <2>1, <2>2, <2>3, <2>4 DEF Cells
<1>4. removePair(h, c, key) = removeOne(freeVariant(k, value), c, key)
  <2>1. value = h.cell[key].next
    BY <1>3
  <2> HIDE DEF value, key, s
  <2> QED BY <2>1 DEF removePair
<1> HIDE DEF after, k
<1>5. /\ d \in [Ids -> Cells]
      /\ \A x \in Ids : /\ d[x].type = h.cell[x].type /\ d[x].text = h.cell[x].text
                        /\ d[x].head = h.cell[x].head /\ d[x].tail = h.cell[x].tail
                        /\ d[x].next = (IF x = key THEN after ELSE h.cell[x].next)
  <2> DEFINE z == [h.cell[key] EXCEPT !.next = after]
  <2>1. /\ z \in Cells /\ z.next = after /\ z.type = h.cell[key].type /\ z.text = h.cell[key].text
        /\ z.tail = h.cell[key].tail /\ z.head = h.cell[key].head
    <3>1. h.cell[key] \in Cells /\ after \in Links
      BY <1>1, <1>2, <1>3
    <3> QED BY ONLY <3>1 DEF Cells
  <2>2. d = [h.cell EXCEPT ![key] = z]
    OBVIOUS
  <2> HIDE DEF z, key, d
  <2> QED BY <1>1, <1>2, <2>1, <2>2
<1> HIDE DEF d
<1>6. Relinked(h, k) /\ k.cell = d
  BY <1>1, <1>5, Relinks DEF k
<1>7. /\ Final(Without(s, i + 1)) = (IF i + 1 < Len(s) THEN s[Len(s)] ELSE s[i])
      /\ Len(Without(s, i + 1)) = Len(s) - 1 /\ Without(s, i + 1)[i] = key
      /\ Without(s, i + 1) \in Seq(Slots)
  <2>1. /\ \A j \in 1..Len(Without(s, i + 1)) :
             Without(s, i + 1)[j] = (IF j < i + 1 THEN s[j] ELSE s[j + 1])
        /\ Len(Without(s, i + 1)) = Len(s) - 1 /\ Without(s, i + 1) \in Seq(Slots)
    BY <1>2, WithoutIs
  <2>2. i \in 1..(Len(s) - 1) /\ i < i + 1
    BY <1>2
  <2>3. Final(Without(s, i + 1)) = (IF i + 1 < Len(s) THEN s[Len(s)]
                                    ELSE IF i + 1 = 1 THEN NullSlot ELSE s[(i + 1) - 1])
    <3>1. s \in Seq(Slots) /\ i + 1 \in 1..Len(s)
      BY <1>2
    <3> HIDE DEF s
    <3> QED  BY <3>1, Places
  <2> QED BY <1>2, <2>1, <2>2, <2>3
<1>8. after = NullSlot <=> i + 1 = Len(s)
  <2>1. i + 1 < Len(s) => s[(i + 1) + 1] \in Slots
    BY <1>2
  <2> QED BY <1>2, <1>3, <2>1 DEF After
<1>9. c \in out \/ k.cell[c].tail = Final(Without(s, i + 1))
  <2>1. CASE after = NullSlot
    BY <2>1
  <2>2. CASE after # NullSlot
    <3>1. i + 1 < Len(s)
      BY <1>2, <1>8, <2>2
    <3>2. h.cell[c].tail = Final(s) /\ s # <<>>
      BY <1>1, <1>2 DEF ShowsAt
    <3> QED BY <1>2, <1>5, <1>6, <1>7, <3>1, <3>2 DEF Final
  <2> QED BY <2>1, <2>2
<1>10. /\ out \in SUBSET Ids /\ value \in out
       /\ out \ {value} = IF after = NullSlot THEN {c} ELSE {}
  BY <1>2
<1> DEFINE e == freeVariant(k, value)
<1> HIDE DEF out, e
<1>11. /\ Grows(h, e) /\ e.pools = h.pools
       /\ \E n : /\ Good(e, n) /\ n.pending = g.pending /\ n.out = out \ {value}
                 /\ c \in Live(n) /\ n.kids[c] = Without(s, i + 1) /\ Trimmed(h, g, e, n, c)
  <2> DEFINE j == i + 1
  <2>1. j \in 1..Len(g.kids[c]) /\ j # 1 /\ j - 1 = i
    BY <1>2
  <2> HIDE DEF j
  <2>2. /\ Good(h, g) /\ c \in Live(g) /\ c \notin g.pending /\ h.cell[c].type \in Collections
        /\ Relinked(h, k) /\ k.cell \in [Ids -> Cells] /\ g.kids[c][j] \in out
        /\ out \in SUBSET Ids /\ g.out \subseteq out \cup {c}
    BY <1>5, <1>6, <1>10 DEF j
  <2>3. /\ \A x \in Ids : k.cell[x].type = h.cell[x].type /\ k.cell[x].text = h.cell[x].text
        /\ \A x \in Ids : x # c => k.cell[x].head = h.cell[x].head /\ k.cell[x].tail = h.cell[x].tail
        /\ k.cell[c].head = (IF j = 1 THEN After(g.kids[c], 1) ELSE h.cell[c].head)
        /\ c \in out \/ k.cell[c].tail = Final(Without(g.kids[c], j))
    BY <1>2, <1>5, <1>6, <1>9, <2>1 DEF j
  <2>4. \A x \in Ids : k.cell[x].next = (IF j # 1 /\ x = g.kids[c][j - 1] THEN After(g.kids[c], j)
                                         ELSE h.cell[x].next)
    BY <1>3, <1>5, <1>6, <2>1 DEF j
  <2>5. LET l == freeVariant(k, g.kids[c][j])
        IN /\ Grows(h, l) /\ l.pools = h.pools
           /\ \E m : /\ Good(l, m) /\ m.pending = g.pending /\ m.out = out \ {g.kids[c][j]}
                     /\ c \in Live(m) /\ m.kids[c] = Without(g.kids[c], j)
                     /\ Trimmed(h, g, l, m, c) /\ \A p \in Live(m) : l.cell[p] = k.cell[p]
    BY ONLY <2>1, <2>2, <2>3, <2>4, UnlinkAndFree, SMTT(60)
  <2> QED BY <2>5 DEF j, e
<1>12. PICK n : /\ Good(e, n) /\ n.pending = g.pending /\ n.out = out \ {value}
                /\ c \in Live(n) /\ n.kids[c] = Without(s, i + 1) /\ Trimmed(h, g, e, n, c)
  BY <1>11
<1>13. /\ i \in 1..Len(n.kids[c]) /\ n.kids[c][i] = key /\ Len(n.kids[c]) = Len(s) - 1
       /\ n.kids[c] \in Seq(Slots) /\ c \notin n.pending
       /\ e.cell[c].type \in Collections /\ n.out \subseteq {c} /\ (n.out = {} \/ i = Len(n.kids[c]))
  <2>1. i \in 1..(Len(s) - 1)
    BY <1>2
  <2>2. n.out \subseteq {c} /\ (n.out = {} \/ i = Len(s) - 1)
    BY <1>2, <1>8, <1>10, <1>12
  <2>3. e.cell[c].type = h.cell[c].type
    BY <1>12 DEF Trimmed
  <2> QED BY <1>7, <1>12, <2>1, <2>2, <2>3
<1> HIDE DEF key, s, value
<1>14. LET l == removeOne(e, c, n.kids[c][i])
       IN /\ Grows(e, l) /\ l.pools = e.pools
          /\ \E m : /\ Good(l, m) /\ m.pending = n.pending /\ m.out = {}
                    /\ c \in Live(m) /\ m.kids[c] = Without(n.kids[c], i) /\ Trimmed(e, n, l, m, c)
  BY <1>12, <1>13, removeOneOK
<1> DEFINE l == removeOne(e, c, key)
<1> HIDE DEF l
<1>15. PICK m : /\ Good(l, m) /\ m.pending = n.pending /\ m.out = {}
                /\ c \in Live(m) /\ m.kids[c] = Without(n.kids[c], i) /\ Trimmed(e, n, l, m, c)
  BY <1>13, <1>14 DEF l
<1>16. Grows(h, l) /\ l.pools = h.pools
  <2>1. Grows(e, l) /\ l.pools = e.pools
    BY <1>13, <1>14 DEF l
  <2> QED BY <1>1, <1>11, <2>1, GrowsOn
<1>17. Len(m.kids[c]) = Len(s) - 2
  <2>1. Len(Without(n.kids[c], i)) = Len(n.kids[c]) - 1
    BY <1>13, WithoutIs
  <2> QED BY <1>2, <1>13, <1>15, <2>1
<1>18. Trimmed(h, g, l, m, c)
  BY <1>12, <1>15, TrimmedOn
<1> QED BY <1>4, <1>12, <1>15, <1>16, <1>17, <1>18 DEF l, e, key, s

=============================================================================
