----------------------------- MODULE JsonProofs -----------------------------
(***************************************************************************)
(* Theorems about JsonReader: whatever is called and whichever request for *)
(* memory is refused, the slots of a document are a tree, each of them used*)
(* once, and its strings have the references that variants hold.           *)
(***************************************************************************)
EXTENDS JsonHeapProofs

\* Nothing is below a null.
LEMMA NullHasNone ==
  ASSUME NEW h, NEW g, Good(h, g), NEW v \in Live(g), h.cell[v].type = "Null"
  PROVE  /\ g.kids[v] = <<>> /\ h.cell[v].head = NullSlot
         /\ v \notin g.out => h.cell[v].tail = NullSlot
<1>1. ShowsAt(h, g, v) /\ Forest(g)
  BY GoodParts
<1>2. h.cell[v].head = NullSlot /\ First(g.kids[v]) = NullSlot
  BY <1>1 DEF ShowsAt, Below, Collections
<1>3. v \notin g.out => h.cell[v].tail = NullSlot
  BY <1>1 DEF ShowsAt, Collections
<1>4. g.kids[v] = <<>>
  <2> SUFFICES ASSUME g.kids[v] # <<>> PROVE FALSE
    OBVIOUS
  <2>1. g.kids[v] \in Seq(Slots)
    BY <1>1, KidsPlaced
  <2>2. g.kids[v][1] \in Slots
    BY <2>1
  <2> QED BY <1>2, <2>2, Constants DEF First
<1> QED BY <1>2, <1>3, <1>4

\* A null variant gets an extension.
LEMMA WidenOK ==
  ASSUME NEW h, NEW g, Good(h, g), NEW v, NEW id, Fresh(g, v, id), h.cell[v].type = "Null",
         NEW c, Content(c), c.type = "Wide", c.head = id, c.tail = h.cell[v].tail,
         c.next = h.cell[v].next, NEW k, Writes(h, k, v, c), Counted(h)
  PROVE  Good(k, Joins(g, v, id))
<1> DEFINE m == Joins(g, v, id)
<1>1. /\ h \in Heaps /\ Forest(g) /\ Shows(h, g) /\ Memory(h, g) /\ Exact(h)
      /\ h.cell \in [Ids -> Cells]
  BY GoodParts, HeapParts
<1>2. /\ v \in Live(g) /\ v \in Ids /\ v \notin g.out /\ id \in g.pending /\ id \in Slots /\ id \in Ids
      /\ id \notin g.out /\ g.pending \subseteq Slots
  BY <1>1, GhostParts, Constants DEF Fresh
<1>3. g.kids[v] = <<>> /\ h.cell[v].tail = NullSlot
  BY <1>2, NullHasNone
<1>4. /\ Forest(m) /\ Live(m) = Live(g) /\ Placed(m) = Placed(g) \cup {id}
      /\ m.kids[v] = Append(g.kids[v], id) /\ \A p \in Ids : p # v => m.kids[p] = g.kids[p]
  BY <1>1, JoinsForest
<1>5. m.nodes = g.nodes /\ m.pending = g.pending \ {id} /\ m.out = g.out
  BY DEF Joins
<1> HIDE DEF m
<1>6. m.kids[v] = <<id>> /\ m.kids[v] # <<>> /\ Len(m.kids[v]) = 1 /\ m.kids[v][1] = id
  <2>1. Append(g.kids[v], id) = <<id>>
    BY <1>3
  <2> QED BY <1>4, <2>1
<1>7. /\ k \in Heaps /\ k.pools = h.pools /\ k.free = h.free /\ k.lost = h.lost
      /\ k.cell = [h.cell EXCEPT ![v] = c]
  BY DEF Writes
<1>8. k.cell[v] = c /\ \A x \in Ids : x # v => k.cell[x] = h.cell[x]
  BY <1>1, <1>2, <1>7
<1>9. \A x \in Ids : k.cell[x].next = h.cell[x].next
  BY <1>2, <1>8
<1>10. Given(k) = Given(h) /\ Balanced(h, k)
  <2>1. h.cell[v].type \notin InPool
    BY DEF InPool
  <2> QED BY <1>1, <1>2, <1>7, <2>1, WritesOK DEF Given
<1>11. ShowsAt(k, m, v)
  <2>1. Below(k, v) = id /\ First(m.kids[v]) = id
    BY <1>6, <1>8 DEF Below, First
  <2>2. h.cell[id].next = NullSlot /\ \A i \in 1..Len(m.kids[v]) : i = 1 /\ After(m.kids[v], i) = NullSlot
    BY <1>1, <1>2, <1>6 DEF Shows, After
  <2> QED BY <1>2, <1>3, <1>6, <1>8, <1>9, <2>1, <2>2 DEF ShowsAt, VariantTypes, Collections
<1>12. ASSUME NEW p \in Live(g), p # v PROVE ShowsAt(k, m, p)
  <2>1. ShowsAt(h, g, p) /\ p \in Ids /\ \A i \in 1..Len(g.kids[p]) : g.kids[p][i] \in Ids
    BY <1>1, KidsPlaced DEF Shows
  <2>2. k.cell[p] = h.cell[p] /\ Below(k, p) = Below(h, p) /\ m.kids[p] = g.kids[p]
    BY <1>4, <1>8, <1>12, <2>1 DEF Below
  <2> QED BY <1>5, <1>9, <2>1, <2>2 DEF ShowsAt
<1>13. Shows(k, m)
  <2>1. \A x \in m.pending \ m.out : k.cell[x].next = NullSlot
    <3>1. \A x \in m.pending \ m.out : x \in Ids /\ x \in g.pending \ g.out
      BY <1>2, <1>5, Constants
    <3> QED BY <1>1, <1>9, <3>1 DEF Shows
  <2>2. \A x \in Ids \ Live(m) : k.cell[x].type \notin InPool
    BY <1>1, <1>2, <1>4, <1>8 DEF Shows
  <2> QED BY <1>4, <1>11, <1>12, <2>1, <2>2 DEF Shows
<1>14. Memory(k, m)
  BY <1>1, <1>5, <1>7, <1>10 DEF Memory
<1> QED BY <1>1, <1>4, <1>7, <1>10, <1>13, <1>14, ExactStays DEF Good, m

-----------------------------------------------------------------------------
(***************************************************************************)
(* What an operation makes of a heap and its tree.                         *)
(***************************************************************************)
\* An object's slots are keys and values in turn.
Even(h, g) == \A p \in Live(g) : h.cell[p].type = "Object" => Len(g.kids[p]) % 2 = 0

\* A heap as it is between two operations.
Sound(h, g) == Counted(h) /\ Good(h, g) /\ Even(h, g) /\ g.out = {}

\* What was given out before b is as it was.
Kept(h, g, k, m, b) ==
  \A x \in Live(g) : g.born[x] < b =>
    /\ x \in Live(m) /\ m.born[x] = g.born[x] /\ m.kids[x] = g.kids[x]
    /\ k.cell[x].type = h.cell[x].type

\* An operation on the slot v.
Leads(h, g, k, m, v) ==
  /\ Sound(k, m) /\ m.pending = g.pending /\ Kept(h, g, k, m, g.born[v])
  /\ v \in Live(m) /\ m.born[v] = g.born[v]

\* The parts of Sound.
LEMMA SoundParts ==
  ASSUME NEW h, NEW g, Sound(h, g)
  PROVE  /\ Counted(h) /\ Good(h, g) /\ Even(h, g) /\ g.out = {} /\ h \in Heaps /\ Forest(g)
         /\ Root \in Live(g) /\ Live(g) \subseteq Ids /\ (\A x \in Live(g) : g.born[x] \in Nat)
         /\ g.clock \in Nat /\ (\A x \in Live(g) : g.born[x] < g.clock)
         /\ g.pending \subseteq Live(g) /\ g.pending \subseteq Slots
<1>1. Counted(h) /\ Good(h, g) /\ Even(h, g) /\ g.out = {} /\ h \in Heaps /\ Forest(g)
  BY GoodParts DEF Sound
<1> QED BY <1>1, GhostParts DEF Live

\* One operation on a slot after the other.
LEMMA LeadsOn ==
  ASSUME NEW h, NEW g, NEW k, NEW m, NEW l, NEW n, NEW v,
         Leads(h, g, k, m, v), Leads(k, m, l, n, v)
  PROVE  Leads(h, g, l, n, v)
BY DEF Leads, Kept

\* An operation on a later slot leaves an earlier one alone.
LEMMA LeadsUp ==
  ASSUME NEW h, NEW g, Sound(h, g), NEW k, NEW m, NEW w \in Live(g), Leads(h, g, k, m, w),
         NEW v \in Live(g), g.born[v] < g.born[w]
  PROVE  Leads(h, g, k, m, v) /\ m.kids[v] = g.kids[v] /\ k.cell[v].type = h.cell[v].type
<1>1. \A x \in Live(g) : g.born[x] \in Nat
  BY SoundParts
<1>2. \A x \in Live(g) : g.born[x] < g.born[v] => g.born[x] < g.born[w]
  BY <1>1
<1> QED BY <1>2 DEF Leads, Kept

\* Nothing is done.
LEMMA LeadsNot ==
  ASSUME NEW h, NEW g, Sound(h, g), NEW v \in Live(g)
  PROVE  Leads(h, g, h, g, v)
BY DEF Leads, Kept

-----------------------------------------------------------------------------
(***************************************************************************)
(* What each operation on one slot makes of the tree.                      *)
(***************************************************************************)

\* A slot is given out to the tree, or none is.
LEMMA AllocSound ==
  ASSUME NEW h, NEW g, Sound(h, g), NEW c \in {NullVariant, Extension},
         Len(Filled(allocSlot(h), c).heap.pools) <= MaxPools
  PROVE  LET r == Filled(allocSlot(h), c)
         IN /\ r.heap \in Heaps /\ r.id \in Links
            /\ r.id = NullSlot => /\ r.heap.cell = h.cell /\ Sound(r.heap, g)
                                  /\ \A v \in Live(g) : Leads(h, g, r.heap, g, v)
            /\ r.id # NullSlot => /\ r.id \in Slots /\ r.id \notin g.nodes
                                  /\ Sound(r.heap, Held(g, r.id))
                                  /\ r.heap.cell = [h.cell EXCEPT ![r.id] = c]
<1> DEFINE r == Filled(allocSlot(h), c)
           k == r.heap
<1>1. /\ Counted(h) /\ Good(h, g) /\ Even(h, g) /\ g.out = {} /\ h \in Heaps /\ Forest(g)
      /\ Live(g) \subseteq Ids
  BY SoundParts
<1>2. Counted(k)
  <2>1. c \in Cells /\ c.type \notin InPool
    BY CellTypes DEF InPool
  <2> QED BY <1>1, <2>1, FilledOK DEF Grows
<1>3. /\ k \in Heaps /\ r.id \in Links
      /\ r.id = NullSlot => Good(k, g) /\ k.cell = h.cell
      /\ r.id # NullSlot => /\ r.id \in Slots /\ r.id \notin g.nodes
                            /\ Good(k, Held(g, r.id)) /\ k.cell = [h.cell EXCEPT ![r.id] = c]
  BY <1>1, AllocOK
<1> HIDE DEF r
<1>4. ASSUME r.id = NullSlot
      PROVE  Sound(k, g) /\ \A v \in Live(g) : Leads(h, g, k, g, v)
  <2>1. Sound(k, g)
    BY <1>1, <1>2, <1>3, <1>4 DEF Sound, Even
  <2> QED BY <1>3, <1>4, <2>1 DEF Leads, Kept
<1>5. ASSUME r.id # NullSlot PROVE Sound(k, Held(g, r.id))
  <2> DEFINE id == r.id
             m == Held(g, id)
  <2>1. id \in Slots /\ id \notin g.nodes /\ Good(k, m) /\ k.cell = [h.cell EXCEPT ![id] = c] /\ id \in Ids
    BY <1>3, <1>5, Constants
  <2>2. /\ Live(m) = Live(g) \cup {id} /\ id \notin Live(g)
        /\ \A p \in Live(g) : m.kids[p] = g.kids[p]
    BY <1>1, <2>1, HeldForest
  <2>3. m.out = {}
    BY <1>1 DEF Held
  <2> HIDE DEF m, id
  <2>4. k.cell[id] = c /\ \A x \in Ids : x # id => k.cell[x] = h.cell[x]
    BY <1>1, <2>1, HeapParts
  <2>5. Even(k, m)
    <3>1. c.type # "Object"
      BY CellTypes
    <3> QED BY <1>1, <2>2, <2>4, <3>1 DEF Even
  <2> QED BY <1>2, <2>1, <2>3, <2>5 DEF Sound, m, id
<1> QED BY <1>3, <1>4, <1>5 DEF r

\* The slot given out is later than all others.
LEMMA HeldParts ==
  ASSUME NEW h, NEW g, Sound(h, g), NEW id \in Slots, id \notin g.nodes
  PROVE  LET m == Held(g, id)
         IN /\ Live(m) = Live(g) \cup {id} /\ id \notin Live(g) /\ id \notin g.pending
            /\ m.pending = g.pending \cup {id} /\ m.out = {} /\ m.kids[id] = <<>>
            /\ m.born[id] = g.clock
            /\ \A p \in Live(g) : /\ m.kids[p] = g.kids[p] /\ m.born[p] = g.born[p]
                                  /\ m.born[p] < m.born[id]
<1>1. /\ Forest(g) /\ g.out = {} /\ (\A x \in Live(g) : g.born[x] < g.clock)
      /\ g.pending \subseteq Live(g)
  BY SoundParts
<1>2. /\ Live(Held(g, id)) = Live(g) \cup {id} /\ id \notin Live(g) /\ Held(g, id).kids[id] = <<>>
      /\ Held(g, id).born[id] = g.clock
      /\ \A p \in Live(g) : Held(g, id).kids[p] = g.kids[p] /\ Held(g, id).born[p] = g.born[p]
  BY <1>1, HeldForest
<1>3. Held(g, id).pending = g.pending \cup {id} /\ Held(g, id).out = {}
  BY <1>1 DEF Held
<1> QED BY <1>1, <1>2, <1>3

\* clear() touches nothing that was given out before the variant.
LEMMA ClearSound ==
  ASSUME NEW h, NEW g, Sound(h, g), NEW v \in Live(g)
  PROVE  LET k == Clear(h, v)
         IN /\ k \in Heaps /\ k.pools = h.pools /\ k.cell[v].type = "Null"
            /\ \E m : Leads(h, g, k, m, v) /\ m.kids[v] = <<>>
<1> DEFINE k == Clear(h, v)
           F == ToSet(Under(h, v))
           m == Cut(g, v, F)
<1>1. /\ Counted(h) /\ Good(h, g) /\ Even(h, g) /\ g.out = {} /\ h \in Heaps /\ v \in Ids
      /\ \A x \in Live(g) : g.born[x] \in Nat
  BY SoundParts
<1>2. /\ k \in Heaps /\ Good(k, m) /\ k.pools = h.pools
      /\ v \notin F /\ \A x \in F : g.born[v] < g.born[x]
      /\ Live(m) = Live(g) \ F /\ m.kids[v] = <<>>
      /\ \A p \in Live(m) : p # v => m.kids[p] = g.kids[p]
      /\ k.cell[v] = [NullVariant EXCEPT !.next = h.cell[v].next]
      /\ \A x \in Live(m) : x # v => k.cell[x] = h.cell[x]
  BY <1>1, ClearIsCut
<1>3. m.pending = g.pending /\ m.out = g.out /\ m.born = g.born
  BY DEF Cut
<1>4. Counted(k)
  BY <1>1, ClearOK DEF Grows
<1> HIDE DEF k, m, F
<1>5. k.cell[v].type = "Null"
  BY <1>2 DEF NullVariant
<1>6. Sound(k, m)
  <2>1. Even(k, m)
    <3> SUFFICES ASSUME NEW p \in Live(m), k.cell[p].type = "Object" PROVE Len(m.kids[p]) % 2 = 0
      BY DEF Even
    <3>1. p # v
      BY <1>5
    <3>2. p \in Live(g) /\ m.kids[p] = g.kids[p] /\ h.cell[p].type = "Object"
      BY <1>2, <3>1
    <3> QED BY <1>1, <3>2 DEF Even
  <2> QED BY <1>1, <1>2, <1>3, <1>4, <2>1 DEF Sound
<1>7. Kept(h, g, k, m, g.born[v])
  <2> SUFFICES ASSUME NEW x \in Live(g), g.born[x] < g.born[v]
               PROVE  /\ x \in Live(m) /\ m.born[x] = g.born[x] /\ m.kids[x] = g.kids[x]
                      /\ k.cell[x].type = h.cell[x].type
    BY DEF Kept
  <2>1. x # v /\ g.born[x] \in Nat /\ g.born[v] \in Nat
    BY <1>1
  <2>2. x \notin F
    <3> SUFFICES ASSUME x \in F PROVE FALSE
      OBVIOUS
    <3>1. g.born[v] < g.born[x]
      BY <1>2
    <3> QED BY <2>1, <3>1
  <2> QED BY <1>2, <1>3, <2>1, <2>2
<1>8. Leads(h, g, k, m, v)
  BY <1>2, <1>3, <1>6, <1>7 DEF Leads
<1> QED BY <1>2, <1>5, <1>8 DEF k

\* A null variant becomes something else; a collection is empty.
LEMMA WriteSound ==
  ASSUME NEW h, NEW g, Sound(h, g), NEW v \in Live(g), h.cell[v].type = "Null",
         NEW c, Content(c), c.type \in VariantTypes, c.head = h.cell[v].head,
         c.tail = h.cell[v].tail, c.next = h.cell[v].next, NEW k, Writes(h, k, v, c)
  PROVE  Leads(h, g, k, g, v) /\ k.cell[v] = c /\ k \in Heaps
<1>1. /\ Counted(h) /\ Good(h, g) /\ Even(h, g) /\ g.out = {} /\ h \in Heaps /\ v \in Ids
      /\ Live(g) \subseteq Ids /\ g.born[v] \in Nat
  BY SoundParts
<1>2. g.kids[v] = <<>>
  BY <1>1, NullHasNone
<1>3. /\ Good(k, g) /\ k \in Heaps /\ k.cell[v] = c
      /\ \A x \in Ids : x # v => k.cell[x] = h.cell[x]
  BY <1>1, WrittenOK
<1>4. Counted(k)
  BY <1>1, WritesOK DEF Grows
<1>5. Even(k, g)
  <2>1. Len(g.kids[v]) % 2 = 0
    BY <1>2
  <2> QED BY <1>1, <1>3, <2>1 DEF Even
<1>6. Kept(h, g, k, g, g.born[v])
  BY <1>1, <1>3 DEF Kept
<1> QED BY <1>1, <1>3, <1>4, <1>5, <1>6 DEF Leads, Sound

\* A null becomes a collection, or a value without an extension.
LEMMA TypedSound ==
  ASSUME NEW h, NEW g, Sound(h, g), NEW v \in Live(g), h.cell[v].type = "Null",
         NEW type \in VariantTypes \ InPool
  PROVE  /\ Leads(h, g, Typed(h, v, type), g, v) /\ Typed(h, v, type).cell[v].type = type
         /\ Typed(h, v, type).pools = h.pools
<1> DEFINE c == [h.cell[v] EXCEPT !.type = type]
           k == Typed(h, v, type)
<1>1. h \in Heaps /\ v \in Ids
  BY SoundParts
<1>2. Content(c) /\ c.type = type /\ Writes(h, k, v, c)
  BY <1>1, TypedOK
<1>3. c.head = h.cell[v].head /\ c.tail = h.cell[v].tail /\ c.next = h.cell[v].next
  BY <1>1, CellParts DEF Cells
<1> HIDE DEF c, k
<1>4. Leads(h, g, k, g, v) /\ k.cell[v] = c
  BY <1>2, <1>3, WriteSound
<1>5. k.pools = h.pools
  BY <1>2 DEF Writes
<1> QED BY <1>2, <1>4, <1>5 DEF k

\* A null becomes a number with an extension, unless there is no memory.
LEMMA setWideSound ==
  ASSUME NEW h, NEW g, Sound(h, g), NEW v \in Live(g), h.cell[v].type = "Null",
         Len(setWide(h, v).heap.pools) <= MaxPools
  PROVE  \E m : Leads(h, g, setWide(h, v).heap, m, v)
<1> DEFINE a == allocExtension(h)
           r == setWide(h, v)
           k == r.heap
           e == a.id
           n == Held(g, e)
           m == Joins(n, v, e)
           c == [a.heap.cell[v] EXCEPT !.type = "Wide", !.head = e]
<1>1. /\ Counted(h) /\ Good(h, g) /\ h \in Heaps /\ v \in Ids /\ Live(g) \subseteq Ids
      /\ g.pending \subseteq Live(g)
  BY SoundParts
<1>2. /\ Grows(h, k) /\ r.ok = (e # NullSlot)
      /\ IF r.ok THEN Writes(a.heap, k, v, c) ELSE k = a.heap
      /\ r.ok => Content(c)
  BY <1>1, setWideOK DEF WideSet
<1>3. k.pools = a.heap.pools /\ a = Filled(allocSlot(h), Extension) /\ Extension \in {NullVariant, Extension}
  BY <1>2 DEF Writes, allocExtension
<1> HIDE DEF a, r, c
<1>4. /\ a.heap \in Heaps /\ a.id \in Links
      /\ a.id = NullSlot => \A w \in Live(g) : Leads(h, g, a.heap, g, w)
      /\ a.id # NullSlot => /\ a.id \in Slots /\ a.id \notin g.nodes
                            /\ Sound(a.heap, Held(g, a.id))
                            /\ a.heap.cell = [h.cell EXCEPT ![a.id] = Extension]
  <2>1. Len(Filled(allocSlot(h), Extension).heap.pools) <= MaxPools
    BY <1>3 DEF r
  <2> QED BY <1>3, <2>1, AllocSound
<1>5. CASE e = NullSlot
  BY <1>2, <1>4, <1>5 DEF r
<1>6. CASE e # NullSlot
  <2>1. e \in Slots /\ e \notin g.nodes /\ Sound(a.heap, n) /\ e \in Ids
        /\ a.heap.cell = [h.cell EXCEPT ![e] = Extension]
    BY <1>4, <1>6, Constants
  <2>2. /\ Live(n) = Live(g) \cup {e} /\ e \notin Live(g) /\ e \notin g.pending
        /\ n.pending = g.pending \cup {e} /\ n.out = {} /\ n.kids[e] = <<>>
        /\ \A p \in Live(g) : n.kids[p] = g.kids[p] /\ n.born[p] = g.born[p] /\ n.born[p] < n.born[e]
    BY <2>1, HeldParts
  <2> HIDE DEF n, e, k
  <2>3. /\ Good(a.heap, n) /\ Counted(a.heap) /\ Forest(n) /\ Even(a.heap, n)
    BY <2>1, SoundParts
  <2>4. /\ a.heap.cell[e] = Extension /\ \A x \in Ids : x # e => a.heap.cell[x] = h.cell[x]
    BY <1>1, <2>1, HeapParts
  <2>5. g.kids[v] = <<>> /\ n.kids[v] = <<>> /\ v # e /\ a.heap.cell[v].type = "Null"
    <3>1. g.kids[v] = <<>>
      BY <1>1, NullHasNone
    <3> QED BY <1>1, <2>2, <2>4, <3>1
  <2>6. Fresh(n, v, e)
    <3>1. \A i \in 1..Len(n.kids[v]) : FALSE
      BY <2>5
    <3> QED BY <2>2, <3>1 DEF Fresh
  <2>7. Content(c) /\ Writes(a.heap, k, v, c)
    BY <1>2, <1>6 DEF k
  <2>8. c.type = "Wide" /\ c.head = e /\ c.tail = a.heap.cell[v].tail /\ c.next = a.heap.cell[v].next
    <3>1. a.heap.cell[v] \in Cells /\ e \in Links
      BY <1>1, <1>4, CellParts DEF e
    <3> QED BY <3>1 DEF c, Cells
  <2>9. Good(k, m)
    BY <2>3, <2>5, <2>6, <2>7, <2>8, WidenOK
  <2>10. /\ Live(m) = Live(n) /\ m.kids[v] = Append(n.kids[v], e)
         /\ \A p \in Ids : p # v => m.kids[p] = n.kids[p]
    BY <2>3, <2>6, JoinsForest
  <2>11. m.pending = n.pending \ {e} /\ m.out = n.out /\ m.born = n.born
    BY DEF Joins
  <2> HIDE DEF m
  <2>12. k.cell[v] = c /\ \A x \in Ids : x # v => k.cell[x] = a.heap.cell[x]
    BY <1>1, <1>4, <2>7, HeapParts DEF Writes
  <2>13. Counted(k)
    BY <1>1, <1>2 DEF Grows, k
  <2>14. Even(k, m)
    <3> SUFFICES ASSUME NEW p \in Live(m), k.cell[p].type = "Object" PROVE Len(m.kids[p]) % 2 = 0
      BY DEF Even
    <3>1. p # v /\ p \in Live(n) /\ p \in Ids
      BY <1>1, <2>1, <2>2, <2>8, <2>10, <2>12
    <3> QED BY <2>3, <2>10, <2>12, <3>1 DEF Even
  <2>15. m.pending = g.pending /\ v \in Live(m) /\ m.born[v] = g.born[v] /\ m.out = {}
    BY <2>2, <2>10, <2>11
  <2>16. Kept(h, g, k, m, g.born[v])
    <3> SUFFICES ASSUME NEW x \in Live(g), g.born[x] < g.born[v]
                 PROVE  /\ x \in Live(m) /\ m.born[x] = g.born[x] /\ m.kids[x] = g.kids[x]
                        /\ k.cell[x].type = h.cell[x].type
      BY DEF Kept
    <3>1. x # v /\ x # e /\ x \in Ids
      <4>1. g.born[v] \in Nat
        BY SoundParts
      <4> QED BY <1>1, <2>2, <4>1
    <3> QED BY <2>2, <2>4, <2>10, <2>11, <2>12, <3>1
  <2>17. Leads(h, g, k, m, v)
    BY <2>9, <2>13, <2>14, <2>15, <2>16 DEF Leads, Sound
  <2> QED BY <2>17 DEF k, r
<1> QED BY <1>5, <1>6

\* A setter of a string: it has written, or memory was refused.
LEMMA StringSetSound ==
  ASSUME NEW h, NEW g, Sound(h, g), NEW v \in Live(g), h.cell[v].type = "Null",
         NEW type \in VariantTypes, NEW text, NEW r, StringSet(h, r, v, type, text),
         Content(AsString(h.cell[v], type, text))
  PROVE  Leads(h, g, r.heap, g, v) /\ r.heap.pools = h.pools
         /\ \A x \in Ids : /\ r.heap.cell[x].next = h.cell[x].next
                           /\ x # v => r.heap.cell[x] = h.cell[x]
<1> DEFINE c == [h.cell[v] EXCEPT !.type = type, !.text = text]
<1>1. Counted(h) /\ Good(h, g) /\ Even(h, g) /\ g.out = {} /\ h \in Heaps /\ v \in Ids
  BY SoundParts
<1>2. CASE r.ok
  <2>1. Writes(h, r.heap, v, c) /\ Content(c)
    BY <1>2 DEF StringSet, AsString
  <2>2. /\ c.type = type /\ c.head = h.cell[v].head /\ c.tail = h.cell[v].tail
        /\ c.next = h.cell[v].next
    BY <1>1, CellParts DEF Cells
  <2> HIDE DEF c
  <2>3. Leads(h, g, r.heap, g, v)
    BY <2>1, <2>2, WriteSound
  <2>4. r.heap.pools = h.pools /\ r.heap.cell = [h.cell EXCEPT ![v] = c]
    BY <2>1 DEF Writes
  <2>5. r.heap.cell[v] = c /\ \A x \in Ids : x # v => r.heap.cell[x] = h.cell[x]
    BY <1>1, <2>4, HeapParts
  <2> QED BY <2>2, <2>3, <2>4, <2>5
<1>3. CASE ~r.ok
  <2>1. Grows(h, r.heap) /\ SamePools(h, r.heap)
    BY <1>3 DEF StringSet
  <2>2. r.heap \in Heaps /\ Counted(r.heap) /\ SameBut(h, r.heap) /\ r.heap.pools = h.pools
        /\ Given(r.heap) = Given(h) /\ r.heap.cell = h.cell
    BY <1>1, <2>1 DEF Grows, SamePools, SameBut, Given
  <2>3. Good(r.heap, g)
    BY <1>1, <2>2, SameGood
  <2> QED BY <1>1, <2>2, <2>3 DEF Leads, Sound, Even, Kept
<1> QED BY <1>2, <1>3 DEF StringSet

\* A null becomes what is set.
LEMMA SetClearedSound ==
  ASSUME NEW h, NEW g, Sound(h, g), NEW v \in Live(g), h.cell[v].type = "Null",
         NEW value, TreeOK(value), Len(SetCleared(h, v, value).heap.pools) <= MaxPools
  PROVE  \E m : Leads(h, g, SetCleared(h, v, value).heap, m, v)
<1>0. h \in Heaps /\ v \in Ids
  BY SoundParts
<1>1. CASE value.type = "Wide"
  <2>1. SetCleared(h, v, value) = setWide(h, v)
    BY <1>1 DEF SetCleared
  <2> QED BY <2>1, setWideSound
<1>2. CASE value.type = "String"
  <2> DEFINE type == IF value.text \in TinyTexts THEN "TinyString" ELSE "OwnedString"
  <2>1. SetCleared(h, v, value) = setString(h, v, value.text) /\ value.text \in Texts \cup TinyTexts
    BY <1>2 DEF SetCleared, TreeOK, Fits
  <2>2. /\ StringSet(h, setString(h, v, value.text), v, type, value.text)
        /\ Content(AsString(h.cell[v], type, value.text))
    BY <1>0, <2>1, setStringOK DEF AsString
  <2>3. type \in VariantTypes
    BY DEF VariantTypes
  <2> HIDE DEF type
  <2>4. Leads(h, g, setString(h, v, value.text).heap, g, v)
    BY <2>2, <2>3, StringSetSound
  <2> QED BY <2>1, <2>4
<1>3. CASE value.type = "Raw"
  <2>1. SetCleared(h, v, value) = setRawString(h, v, value.text) /\ value.text \in Texts
    BY <1>3 DEF SetCleared, TreeOK, Fits
  <2>2. /\ StringSet(h, setRawString(h, v, value.text), v, "RawString", value.text)
        /\ Content(AsString(h.cell[v], "RawString", value.text))
    BY <1>0, <2>1, setRawStringOK DEF AsString
  <2>3. "RawString" \in VariantTypes
    BY DEF VariantTypes
  <2>4. Leads(h, g, setRawString(h, v, value.text).heap, g, v)
    BY <2>2, <2>3, StringSetSound
  <2> QED BY <2>1, <2>4
<1>4. CASE value.type \notin {"Wide", "String", "Raw"}
  <2>1. SetCleared(h, v, value).heap = Typed(h, v, value.type)
    BY <1>4 DEF SetCleared
  <2>2. value.type \in VariantTypes \ InPool
    BY <1>4 DEF TreeOK, Fits, VariantTypes, InPool, Collections
  <2> QED BY <2>1, <2>2, TypedSound
<1> QED BY <1>1, <1>2, <1>3, <1>4

\* A variant is cleared, and set.
LEMMA SetSound ==
  ASSUME NEW h, NEW g, Sound(h, g), NEW v \in Live(g), NEW value, TreeOK(value),
         Len(Set(h, v, value).heap.pools) <= MaxPools
  PROVE  \E m : Leads(h, g, Set(h, v, value).heap, m, v)
<1> DEFINE k == Clear(h, v)
<1>1. k.cell[v].type = "Null" /\ \E n : Leads(h, g, k, n, v)
  BY ClearSound
<1>2. Set(h, v, value).heap = SetCleared(k, v, value).heap
  BY SetHeap
<1> HIDE DEF k
<1>3. PICK n : Leads(h, g, k, n, v)
  BY <1>1
<1>4. Sound(k, n) /\ v \in Live(n)
  BY <1>3 DEF Leads
<1>5. PICK m : Leads(k, n, SetCleared(k, v, value).heap, m, v)
  BY <1>1, <1>2, <1>4, SetClearedSound
<1> QED BY <1>2, <1>3, <1>5, LeadsOn

-----------------------------------------------------------------------------
(***************************************************************************)
(* Slots that are linked in a collection.                                  *)
(***************************************************************************)

\* The tail of a collection is another slot that is linked.
LEMMA TailParts ==
  ASSUME NEW h, NEW g, Good(h, g), NEW c \in Live(g) \ g.out, h.cell[c].type \in Collections
  PROVE  /\ h.cell[c].tail # c /\ h.cell[c].tail \notin g.pending
         /\ h.cell[c].tail # NullSlot => h.cell[c].tail \in Ids
<1> DEFINE t == h.cell[c].tail
           s == g.kids[c]
<1>1. /\ Forest(g) /\ c \in Ids /\ c # NullSlot /\ NullSlot \notin g.pending
  BY GoodParts, GhostParts, Constants
<1>2. t = Final(s)
  BY GoodParts DEF ShowsAt
<1>3. /\ s \in Seq(Slots) /\ Len(s) \in Nat
      /\ \A i \in 1..Len(s) : s[i] \in Ids /\ s[i] \notin g.pending /\ s[i] # c
  BY <1>1, KidsPlaced
<1> HIDE DEF s, t
<1>4. CASE s = <<>>
  BY <1>1, <1>2, <1>4 DEF Final, t
<1>5. CASE s # <<>>
  <2>1. Len(s) \in 1..Len(s) /\ t = s[Len(s)]
    BY <1>2, <1>3, <1>5 DEF Final
  <2> QED BY <1>3, <2>1 DEF t
<1> QED BY <1>4, <1>5

\* A slot that is linked in an array.
LEMMA JoinSound ==
  ASSUME NEW h, NEW g, Sound(h, g), NEW c, NEW id, Fresh(g, c, id), h.cell[c].type = "Array"
  PROVE  LET k == appendOne(h, c, id)
             m == Joins(g, c, id)
         IN /\ Sound(k, m) /\ m.pending = g.pending \ {id} /\ Live(m) = Live(g) /\ m.born = g.born
            /\ \A x \in Ids : x # c => m.kids[x] = g.kids[x]
            /\ \A x \in Ids : k.cell[x].type = h.cell[x].type
            /\ k.pools = h.pools
<1> DEFINE k == appendOne(h, c, id)
           m == Joins(g, c, id)
<1>1. /\ Counted(h) /\ Good(h, g) /\ Even(h, g) /\ g.out = {} /\ h \in Heaps /\ Forest(g)
      /\ Live(g) \subseteq Ids /\ g.pending \subseteq Slots
  BY SoundParts
<1>2. c \in Ids /\ id \in Slots
  BY <1>1 DEF Fresh
<1>3. Relinked(h, k) /\ k.cell = LinkCells(h.cell, c, id, id)
  BY <1>1, <1>2, appendOneOK
<1>4. /\ Live(m) = Live(g) /\ \A p \in Ids : p # c => m.kids[p] = g.kids[p]
  BY <1>1, JoinsForest
<1>5. m.pending = g.pending \ {id} /\ m.born = g.born /\ m.out = {}
  BY <1>1 DEF Joins
<1> HIDE DEF k, m
<1>6. Good(k, m) /\ \A x \in Ids : k.cell[x].type = h.cell[x].type
  <2>1. h.cell[c].type \in Collections
    BY DEF Collections
  <2> QED BY <1>1, <1>3, <2>1, JoinOK DEF m
<1>7. Counted(k) /\ k.pools = h.pools
  BY <1>1, <1>3 DEF Relinked, Grows
<1>8. Even(k, m)
  <2> SUFFICES ASSUME NEW p \in Live(m), k.cell[p].type = "Object" PROVE Len(m.kids[p]) % 2 = 0
    BY DEF Even
  <2>1. p \in Ids /\ h.cell[p].type = "Object" /\ p # c /\ p \in Live(g)
    BY <1>1, <1>4, <1>6
  <2> QED BY <1>1, <1>4, <2>1 DEF Even
<1> QED BY <1>4, <1>5, <1>6, <1>7, <1>8 DEF Sound, k, m

\* appendPair(): the key and then its value are the last ones.
LEMMA PairGood ==
  ASSUME NEW h, NEW g, Good(h, g), NEW c, NEW key, NEW value, Fresh(g, c, key), Fresh(g, c, value),
         g.born[key] < g.born[value], h.cell[c].type \in Collections
  PROVE  /\ Good(appendPair(h, c, key, value), Joins(Joins(g, c, key), c, value))
         /\ Fresh(Joins(g, c, key), c, value)
         /\ \A x \in Ids : appendPair(h, c, key, value).cell[x].type = h.cell[x].type
<1> DEFINE k == appendPair(h, c, key, value)
           n == Joins(g, c, key)
           m == Joins(n, c, value)
           d == LinkCells(h.cell, c, key, key)
           e == [h EXCEPT !.cell = d]
           f == appendOne(e, c, value)
<1>1. /\ h \in Heaps /\ h.cell \in [Ids -> Cells] /\ Forest(g) /\ Live(g) \subseteq Ids
      /\ g.pending \subseteq Live(g) /\ g.pending \subseteq Slots
      /\ (\A x \in Ids : g.born[x] \in Nat)
  BY GoodParts, HeapParts, GhostParts DEF Live
<1>2. /\ c \in Live(g) \ g.out /\ c \in Ids /\ key \in Slots /\ value \in Slots
      /\ key \in g.pending \ g.out /\ value \in g.pending \ g.out /\ key \in Ids /\ value \in Ids
  BY <1>1 DEF Fresh
<1>3. key # c /\ value # c /\ key # value
  BY <1>1, <1>2 DEF Fresh
<1>4. /\ h.cell[c].tail # c /\ h.cell[c].tail # key
      /\ h.cell[c].tail # NullSlot => h.cell[c].tail \in Ids
  BY <1>2, TailParts
<1>5. Relinked(h, k) /\ k.cell = LinkCells(d, c, value, value)
  <2>1. Relinked(h, k) /\ k.cell = PairCells(h.cell, c, key, value)
    BY <1>1, <1>2, appendPairOK
  <2> QED BY <1>1, <1>2, <1>3, <1>4, <2>1, PairIsTwo
<1>6. d \in [Ids -> Cells] /\ \A x \in Ids : d[x].type = h.cell[x].type /\ d[x].text = h.cell[x].text
  BY <1>1, <1>2, <1>4, LinkedCells
<1> HIDE DEF d
<1>7. Relinked(h, e) /\ e.cell = d
  BY <1>1, <1>6, Relinks
<1> HIDE DEF e
<1>8. Good(e, n) /\ e \in Heaps
  BY <1>2, <1>7, JoinOK DEF d
<1>9. Fresh(n, c, value)
  <2>1. /\ Live(n) = Live(g) /\ n.kids[c] = Append(g.kids[c], key) /\ Len(n.kids[c]) = Len(g.kids[c]) + 1
        /\ n.kids[c][Len(g.kids[c]) + 1] = key
        /\ \A i \in 1..Len(g.kids[c]) : n.kids[c][i] = g.kids[c][i]
    BY <1>1, JoinsForest
  <2>2. n.out = g.out /\ n.born = g.born /\ n.pending = g.pending \ {key}
    BY DEF Joins
  <2>3. Len(g.kids[c]) \in Nat
    BY <1>1, <1>2, GhostParts
  <2> HIDE DEF n
  <2>4. ASSUME NEW i \in 1..Len(n.kids[c]) PROVE g.born[n.kids[c][i]] < g.born[value]
    <3>1. i \in 1..Len(g.kids[c]) \/ i = Len(g.kids[c]) + 1
      BY <2>1, <2>3, <2>4
    <3> QED BY <2>1, <3>1 DEF Fresh
  <2> QED BY <1>2, <1>3, <2>1, <2>2, <2>4 DEF Fresh
<1>10. e.cell[c].type \in Collections
  BY <1>2, <1>6, <1>7
<1>11. Relinked(e, f) /\ f.cell = LinkCells(e.cell, c, value, value)
  BY <1>2, <1>8, appendOneOK
<1> HIDE DEF f, n
<1>12. Good(f, m) /\ \A x \in Ids : f.cell[x].type = e.cell[x].type
  BY <1>8, <1>9, <1>10, <1>11, JoinOK
<1>13. SameBut(f, k) /\ Given(k) = Given(f) /\ k \in Heaps
  BY <1>5, <1>7, <1>11 DEF SameBut, Relinked, Given, Grows
<1> HIDE DEF k, m
<1>14. Good(k, m)
  BY <1>12, <1>13, SameGood
<1>15. \A x \in Ids : k.cell[x].type = h.cell[x].type
  BY <1>6, <1>7, <1>12, <1>13 DEF SameBut
<1> QED BY <1>9, <1>14, <1>15 DEF k, m, n

\* The same, when the collection is an object.
LEMMA PairSound ==
  ASSUME NEW h, NEW g, Sound(h, g), NEW c, NEW key, NEW value, Fresh(g, c, key), Fresh(g, c, value),
         g.born[key] < g.born[value], h.cell[c].type = "Object"
  PROVE  LET k == appendPair(h, c, key, value)
             m == Joins(Joins(g, c, key), c, value)
         IN /\ Sound(k, m) /\ m.pending = g.pending \ {key, value} /\ Live(m) = Live(g)
            /\ m.born = g.born
            /\ \A x \in Ids : x # c => m.kids[x] = g.kids[x]
            /\ \A x \in Ids : k.cell[x].type = h.cell[x].type
            /\ k.pools = h.pools
<1> DEFINE k == appendPair(h, c, key, value)
           n == Joins(g, c, key)
           m == Joins(n, c, value)
<1>1. /\ Counted(h) /\ Good(h, g) /\ Even(h, g) /\ g.out = {} /\ h \in Heaps /\ Forest(g)
      /\ Live(g) \subseteq Ids /\ g.pending \subseteq Slots
  BY SoundParts
<1>2. c \in Live(g) /\ c \in Ids /\ key \in Slots /\ value \in Slots
  BY <1>1 DEF Fresh
<1>3. Good(k, m) /\ Fresh(n, c, value) /\ \A x \in Ids : k.cell[x].type = h.cell[x].type
  <2>1. h.cell[c].type \in Collections
    BY DEF Collections
  <2> QED BY <1>1, <2>1, PairGood
<1>4. k.pools = h.pools /\ Counted(k)
  BY <1>1, <1>2, appendPairOK DEF Relinked, Grows
<1>5. /\ Forest(n) /\ Live(n) = Live(g) /\ Len(n.kids[c]) = Len(g.kids[c]) + 1
      /\ \A p \in Ids : p # c => n.kids[p] = g.kids[p]
  BY <1>1, JoinsForest
<1>6. n.pending = g.pending \ {key} /\ n.born = g.born /\ n.out = {}
  BY <1>1 DEF Joins
<1>7. m.pending = n.pending \ {value} /\ m.born = n.born /\ m.out = n.out
  BY DEF Joins
<1> HIDE DEF n
<1>8. /\ Live(m) = Live(n) /\ Len(m.kids[c]) = Len(n.kids[c]) + 1
      /\ \A p \in Ids : p # c => m.kids[p] = n.kids[p]
  <2>1. Forest(n) /\ Fresh(n, c, value)
    BY <1>3, <1>5
  <2> QED BY <2>1, JoinsForest
<1> HIDE DEF m, k
<1>9. Even(k, m)
  <2> SUFFICES ASSUME NEW p \in Live(m), k.cell[p].type = "Object" PROVE Len(m.kids[p]) % 2 = 0
    BY DEF Even
  <2>1. p \in Ids /\ h.cell[p].type = "Object" /\ p \in Live(g)
    BY <1>1, <1>3, <1>5, <1>8
  <2>2. Len(g.kids[p]) % 2 = 0 /\ Len(g.kids[p]) \in Nat
    BY <1>1, <2>1, GhostParts DEF Even
  <2>3. p = c => Len(m.kids[p]) = Len(g.kids[p]) + 1 + 1
    BY <1>5, <1>8
  <2>4. p # c => Len(m.kids[p]) = Len(g.kids[p])
    BY <1>5, <1>8, <2>1
  <2> DEFINE a == Len(g.kids[p])
             b == Len(m.kids[p])
  <2>5. a \in Nat /\ a % 2 = 0 /\ (b = a + 1 + 1 \/ b = a)
    BY <2>2, <2>3, <2>4
  <2> HIDE DEF a, b
  <2>6. b % 2 = 0
    BY ONLY <2>5
  <2> QED BY <2>6 DEF b
<1> QED BY <1>3, <1>4, <1>5, <1>6, <1>7, <1>8, <1>9 DEF Sound, k, m, n

-----------------------------------------------------------------------------
(***************************************************************************)
(* Operations that give a new slot of a collection.                        *)
(***************************************************************************)

\* An operation on the collection c gives a slot that is later than c, or none.
Gives(h, g, r, m, c) ==
  /\ Leads(h, g, r.heap, m, c) /\ r.heap.cell[c].type = h.cell[c].type
  /\ r.id # NullSlot => r.id \in Live(m) /\ m.born[c] < m.born[r.id]

\* A slot id has been given out and is not linked yet; all else is as it was.
Grown(h, g, k, n, id) ==
  /\ Sound(k, n) /\ id \in Slots /\ id \notin Live(g) /\ id \notin g.pending
  /\ n.pending = g.pending \cup {id}
  /\ \A x \in Live(g) : /\ x \in Live(n) /\ n.born[x] = g.born[x] /\ n.kids[x] = g.kids[x]
                        /\ n.born[x] < n.born[id] /\ k.cell[x].type = h.cell[x].type

\* A slot is asked for.
LEMMA AllocGrown ==
  ASSUME NEW h, NEW g, Sound(h, g), Len(allocVariant(h).heap.pools) <= MaxPools
  PROVE  LET r == allocVariant(h)
         IN /\ r.heap \in Heaps
            /\ r.id = NullSlot => r.heap.cell = h.cell /\ Sound(r.heap, g)
                                  /\ \A v \in Live(g) : Gives(h, g, r, g, v)
            /\ r.id # NullSlot =>
                 /\ Grown(h, g, r.heap, Held(g, r.id), r.id) /\ r.id \notin g.nodes
                 /\ Held(g, r.id).kids[r.id] = <<>>
                 /\ r.heap.cell = [h.cell EXCEPT ![r.id] = NullVariant]
<1> DEFINE r == allocVariant(h)
           m == Held(g, r.id)
<1>1. r = Filled(allocSlot(h), NullVariant) /\ NullVariant \in {NullVariant, Extension}
  BY DEF allocVariant
<1>2. /\ h \in Heaps /\ Live(g) \subseteq Ids
  BY SoundParts
<1>3. /\ r.heap \in Heaps /\ r.id \in Links
      /\ r.id = NullSlot => /\ r.heap.cell = h.cell /\ Sound(r.heap, g)
                            /\ \A v \in Live(g) : Leads(h, g, r.heap, g, v)
      /\ r.id # NullSlot => /\ r.id \in Slots /\ r.id \notin g.nodes /\ Sound(r.heap, m)
                            /\ r.heap.cell = [h.cell EXCEPT ![r.id] = NullVariant]
  BY <1>1, AllocSound
<1> HIDE DEF r, m
<1>4. ASSUME r.id # NullSlot PROVE Grown(h, g, r.heap, m, r.id) /\ m.kids[r.id] = <<>>
  <2>1. /\ r.id \in Slots /\ r.id \notin g.nodes /\ Sound(r.heap, m)
        /\ r.heap.cell = [h.cell EXCEPT ![r.id] = NullVariant]
    BY <1>3, <1>4
  <2>2. /\ Live(m) = Live(g) \cup {r.id} /\ r.id \notin Live(g) /\ r.id \notin g.pending
        /\ m.pending = g.pending \cup {r.id} /\ m.kids[r.id] = <<>>
        /\ \A p \in Live(g) : /\ m.kids[p] = g.kids[p] /\ m.born[p] = g.born[p]
                              /\ m.born[p] < m.born[r.id]
    BY <2>1, HeldParts DEF m
  <2>3. \A x \in Live(g) : r.heap.cell[x] = h.cell[x]
    BY <1>2, <2>1, <2>2, HeapParts
  <2> QED BY <2>1, <2>2, <2>3 DEF Grown
<1> QED BY <1>3, <1>4 DEF Gives, r, m

LEMMA GrownParts ==
  ASSUME NEW h, NEW g, Sound(h, g), NEW k, NEW n, NEW id, Grown(h, g, k, n, id)
  PROVE  /\ Sound(k, n) /\ id \in Slots /\ id \in Live(n) /\ id \in n.pending /\ k \in Heaps
         /\ n.pending \ {id} = g.pending /\ Kept(h, g, k, n, g.clock)
         /\ \A c \in Live(g) : Fresh(n, c, id) /\ Kept(h, g, k, n, g.born[c])
<1>1. /\ Sound(k, n) /\ id \in Slots /\ id \in n.pending /\ id \in Live(n) /\ n.pending \ {id} = g.pending
      /\ n.out = {} /\ k \in Heaps
  BY SoundParts DEF Grown
<1>2. \A b : Kept(h, g, k, n, b)
  BY DEF Kept, Grown
<1>3. ASSUME NEW c \in Live(g) PROVE Fresh(n, c, id)
  <2>1. \A i \in 1..Len(g.kids[c]) : g.kids[c][i] \in Live(g)
    BY SoundParts, KidsPlaced
  <2> QED BY <1>1, <2>1 DEF Grown, Fresh
<1> QED BY <1>1, <1>2, <1>3

\* Something is done to it.
LEMMA GrownOn ==
  ASSUME NEW h, NEW g, Sound(h, g), NEW k, NEW n, NEW id, Grown(h, g, k, n, id),
         NEW l, NEW m, Leads(k, n, l, m, id)
  PROVE  Grown(h, g, l, m, id)
<1>1. Sound(l, m) /\ m.pending = n.pending /\ Kept(k, n, l, m, n.born[id]) /\ m.born[id] = n.born[id]
  BY DEF Leads
<1> QED BY <1>1 DEF Grown, Kept

\* It is linked.
LEMMA JoinGrown ==
  ASSUME NEW h, NEW g, Sound(h, g), NEW k, NEW n, NEW id, Grown(h, g, k, n, id),
         NEW c \in Live(g), h.cell[c].type = "Array"
  PROVE  /\ appendOne(k, c, id).pools = k.pools
         /\ \A x \in Ids : appendOne(k, c, id).cell[x].type = k.cell[x].type
         /\ \E m : Gives(h, g, [heap |-> appendOne(k, c, id), id |-> id], m, c)
<1> DEFINE l == appendOne(k, c, id)
           m == Joins(n, c, id)
<1>1. /\ Sound(k, n) /\ Fresh(n, c, id) /\ id \in Live(n) /\ n.pending \ {id} = g.pending
      /\ c \in Live(n) /\ n.born[c] = g.born[c] /\ k.cell[c].type = "Array" /\ n.born[c] < n.born[id]
      /\ Live(g) \subseteq Ids /\ g.born[c] \in Nat
  BY GrownParts, SoundParts DEF Grown
<1>2. /\ Sound(l, m) /\ m.pending = n.pending \ {id} /\ Live(m) = Live(n) /\ m.born = n.born
      /\ \A x \in Ids : x # c => m.kids[x] = n.kids[x]
      /\ \A x \in Ids : l.cell[x].type = k.cell[x].type
      /\ l.pools = k.pools
  BY <1>1, JoinSound
<1> HIDE DEF l, m
<1>3. Kept(h, g, l, m, g.born[c])
  BY <1>1, <1>2 DEF Kept, Grown
<1>4. l.cell[c].type = h.cell[c].type
  BY <1>1, <1>2
<1>5. Leads(h, g, l, m, c)
  BY <1>1, <1>2, <1>3 DEF Leads
<1>6. id \in Live(m) /\ m.born[c] < m.born[id]
  BY <1>1, <1>2
<1>7. Gives(h, g, [heap |-> l, id |-> id], m, c)
  BY ONLY <1>4, <1>5, <1>6 DEF Gives
<1> QED BY <1>2, <1>7 DEF l

\* It is given back.
LEMMA FreeGrown ==
  ASSUME NEW h, NEW g, Sound(h, g), NEW k, NEW n, NEW id, Grown(h, g, k, n, id), NEW c \in Live(g)
  PROVE  /\ freeVariant(k, id).pools = k.pools
         /\ \E m : Gives(h, g, [heap |-> freeVariant(k, id), id |-> NullSlot], m, c)
<1> DEFINE l == freeVariant(k, id)
<1>1. /\ Sound(k, n) /\ Good(k, n) /\ Counted(k) /\ Even(k, n) /\ n.out = {} /\ id \in n.pending
      /\ n.pending \ {id} = g.pending /\ Live(g) \subseteq Ids
      /\ (\A x \in Live(g) : g.born[x] \in Nat) /\ (\A x \in Live(n) : n.born[x] \in Nat)
  BY GrownParts, SoundParts
<1>2. id \in Live(n)
  BY GrownParts
<1>3. /\ Grows(k, l) /\ l.pools = k.pools
      /\ \E m : /\ Good(l, m) /\ m.pending = n.pending \ {id} /\ m.out = n.out \ {id}
                /\ Live(m) \subseteq Live(n) \ {id}
                /\ \A p \in Live(n) : p # id /\ ~(n.born[id] < n.born[p]) => p \in Live(m)
                /\ \A p \in Live(m) : /\ m.born[p] = n.born[p] /\ m.kids[p] = n.kids[p]
                                      /\ l.cell[p] = k.cell[p]
  <2>1. Good(k, n) /\ id \in n.pending
    BY <1>1
  <2> QED BY <2>1, freeVariantDrops, SMTT(60)
<1> HIDE DEF l
<1>4. PICK m : /\ Good(l, m) /\ m.pending = n.pending \ {id} /\ m.out = n.out \ {id}
               /\ Live(m) \subseteq Live(n) \ {id}
               /\ \A p \in Live(n) : p # id /\ ~(n.born[id] < n.born[p]) => p \in Live(m)
               /\ \A p \in Live(m) : /\ m.born[p] = n.born[p] /\ m.kids[p] = n.kids[p]
                                     /\ l.cell[p] = k.cell[p]
  BY <1>3
<1>5. Sound(l, m)
  <2>1. Even(l, m)
    BY <1>1, <1>4 DEF Even
  <2> QED BY <1>1, <1>3, <1>4, <2>1 DEF Sound, Grows
<1>6. \A x \in Live(g) : /\ x \in Live(m) /\ m.born[x] = g.born[x] /\ m.kids[x] = g.kids[x]
                         /\ l.cell[x].type = h.cell[x].type
  BY <1>1, <1>2, <1>4 DEF Grown
<1>7. Leads(h, g, l, m, c)
  BY <1>1, <1>4, <1>5, <1>6 DEF Leads, Kept
<1>8. Gives(h, g, [heap |-> l, id |-> NullSlot], m, c)
  BY <1>6, <1>7 DEF Gives
<1> QED BY <1>3, <1>8 DEF l

\* add() of an array gives a null in its last slot, or nothing.
LEMMA addElementSound ==
  ASSUME NEW h, NEW g, Sound(h, g), NEW c \in Live(g), h.cell[c].type = "Array",
         Len(addElement(h, c).heap.pools) <= MaxPools
  PROVE  LET r == addElement(h, c)
         IN (\E m : Gives(h, g, r, m, c)) /\ (r.id # NullSlot => r.heap.cell[r.id].type = "Null")
<1> DEFINE r == addElement(h, c)
           a == allocVariant(h)
           n == Held(g, a.id)
           l == appendOne(a.heap, c, a.id)
<1>1. h \in Heaps /\ c \in Ids
  BY SoundParts
<1>2. /\ r \in Results /\ r.id = a.id
      /\ r.id # NullSlot => r.heap = l
      /\ r.id = NullSlot => r.heap = a.heap
  BY <1>1, addElementGrows
<1>3. /\ a.heap \in Heaps /\ a.id \in Links /\ (a.id # NullSlot => a.id \in Slots)
  BY <1>1, allocVariantGrows DEF Grows
<1>4. a.heap.pools = r.heap.pools
  <2>1. a.id # NullSlot => l.pools = a.heap.pools
    BY <1>1, <1>3, appendOneOK DEF Relinked
  <2> HIDE DEF r, a, l
  <2> QED BY <1>2, <2>1
<1>5. /\ a.id = NullSlot => \A v \in Live(g) : Gives(h, g, a, g, v)
      /\ a.id # NullSlot => Grown(h, g, a.heap, n, a.id)
                            /\ a.heap.cell = [h.cell EXCEPT ![a.id] = NullVariant]
  BY <1>4, AllocGrown
<1>6. r = [heap |-> r.heap, id |-> r.id]
  BY <1>2 DEF Results
<1>7. CASE a.id = NullSlot
  <2>1. Gives(h, g, a, g, c)
    BY <1>5, <1>7
  <2> HIDE DEF r, a
  <2>2. Gives(h, g, r, g, c)
    BY <1>2, <1>7, <2>1 DEF Gives
  <2> QED BY <1>2, <1>7, <2>2 DEF r
<1>8. CASE a.id # NullSlot
  <2>1. /\ \E m : Gives(h, g, [heap |-> l, id |-> a.id], m, c)
        /\ \A x \in Ids : l.cell[x].type = a.heap.cell[x].type
    BY <1>5, <1>8, JoinGrown
  <2>2. r = [heap |-> l, id |-> a.id]
    BY ONLY <1>2, <1>6, <1>8
  <2>3. a.heap.cell[a.id].type = "Null" /\ a.id \in Ids
    BY <1>1, <1>3, <1>5, <1>8, CellTypes, Constants, HeapParts
  <2> HIDE DEF r, a, l
  <2>4. \E m : Gives(h, g, r, m, c)
    BY <2>1, <2>2
  <2>5. r.heap.cell[r.id].type = "Null"
    BY <1>2, <1>8, <2>1, <2>3
  <2> QED BY <2>4, <2>5 DEF r
<1> QED BY <1>7, <1>8

\* One operation on a collection after the other.
LEMMA GivesOn ==
  ASSUME NEW h, NEW g, NEW k, NEW m, NEW r, NEW n, NEW v,
         Leads(h, g, k, m, v), k.cell[v].type = h.cell[v].type, Gives(k, m, r, n, v)
  PROVE  Gives(h, g, r, n, v)
<1>1. Leads(k, m, r.heap, n, v)
  BY DEF Gives
<1>2. Leads(h, g, r.heap, n, v)
  BY <1>1, LeadsOn
<1> QED BY <1>2 DEF Gives

\* After any number of elements that are added.
LEMMA AddElementsSound ==
  ASSUME NEW h, NEW g, Sound(h, g), NEW c \in Live(g), h.cell[c].type = "Array",
         NEW n \in Nat \ {0}, Len(AddElements(h, c, n).heap.pools) <= MaxPools
  PROVE  \E m : Gives(h, g, AddElements(h, c, n), m, c)
<1>1. h \in Heaps /\ c \in Ids /\ c # NullSlot
  BY SoundParts, GhostParts
<1>2. PICK a : IsAdded(a, h, c, n) /\ AddElements(h, c, n) = a[n]
  BY <1>1, AddElementsIs
<1>3. \A k \in 0..n : a[k] \in Results /\ Grows(a[k].heap, a[n].heap)
  BY <1>1, <1>2, AddElementsGrows
<1>4. \A k \in 0..n : Len(a[k].heap.pools) <= MaxPools
  <2> TAKE k \in 0..n
  <2>1. /\ a[k].heap \in Heaps /\ a[n].heap \in Heaps /\ Len(a[k].heap.pools) <= Len(a[n].heap.pools)
        /\ Len(a[n].heap.pools) <= MaxPools
    <3>1. a[k] \in Results /\ Grows(a[k].heap, a[n].heap)
      BY <1>3
    <3> QED BY <1>2, <3>1 DEF Grows, Results
  <2>2. Len(a[k].heap.pools) \in Nat /\ Len(a[n].heap.pools) \in Nat
    <3>1. a[k].heap.pools \in Seq(Pools) /\ a[n].heap.pools \in Seq(Pools)
      BY <2>1, HeapParts
    <3> QED BY <3>1
  <2>3. MaxPools \in Nat
    BY LargestSlot
  <2> QED BY <2>1, <2>2, <2>3
<1> DEFINE S == {k \in Nat : k + 1 <= n => \E m : Gives(h, g, a[k + 1], m, c)}
<1>5. 0 \in S
  <2>1. a[0] = [heap |-> h, id |-> c] /\ a[1] = IF a[0].id = NullSlot THEN a[0] ELSE addElement(a[0].heap, c)
    BY <1>2 DEF IsAdded
  <2>2. a[1] = addElement(h, c) /\ Len(a[1].heap.pools) <= MaxPools
    BY <1>1, <1>4, <2>1
  <2>3. \E m : Gives(h, g, a[1], m, c)
    BY <2>2, addElementSound
  <2> QED BY <2>3
<1>6. ASSUME NEW k \in Nat, k \in S PROVE k + 1 \in S
  <2> SUFFICES ASSUME k + 1 + 1 <= n PROVE \E m : Gives(h, g, a[k + 1 + 1], m, c)
    OBVIOUS
  <2>1. PICK m : Gives(h, g, a[k + 1], m, c)
    BY <1>6
  <2>2. k + 1 + 1 \in 1..n /\ (k + 1 + 1) - 1 = k + 1
    OBVIOUS
  <2>3. a[k + 1 + 1] = IF a[k + 1].id = NullSlot THEN a[k + 1] ELSE addElement(a[k + 1].heap, c)
    BY <1>2, <2>2 DEF IsAdded
  <2>4. CASE a[k + 1].id = NullSlot
    BY <2>1, <2>3, <2>4
  <2>5. CASE a[k + 1].id # NullSlot
    <3>1. /\ Sound(a[k + 1].heap, m) /\ c \in Live(m) /\ a[k + 1].heap.cell[c].type = h.cell[c].type
          /\ Leads(h, g, a[k + 1].heap, m, c)
      BY <2>1 DEF Gives, Leads
    <3>2. Len(addElement(a[k + 1].heap, c).heap.pools) <= MaxPools
      BY <1>4, <2>2, <2>3, <2>5
    <3>3. PICK l : Gives(a[k + 1].heap, m, addElement(a[k + 1].heap, c), l, c)
      BY <3>1, <3>2, addElementSound
    <3>4. Gives(h, g, addElement(a[k + 1].heap, c), l, c)
      BY <3>1, <3>3, GivesOn
    <3> QED BY <2>3, <2>5, <3>4
  <2> QED BY <2>4, <2>5
<1>7. \A k \in Nat : k \in S
  <2> HIDE DEF S
  <2> QED BY <1>5, <1>6, Induction
<1>8. n - 1 \in Nat /\ (n - 1) + 1 = n
  OBVIOUS
<1>9. n - 1 \in S
  BY <1>7, <1>8
<1> QED BY <1>2, <1>8, <1>9

\* array[index]: the elements up to index are there, or memory was refused.
LEMMA getOrAddElementSound ==
  ASSUME NEW h, NEW g, Sound(h, g), NEW c \in Live(g), h.cell[c].type = "Array",
         NEW index \in Nat, Len(getOrAddElement(h, c, index).heap.pools) <= MaxPools
  PROVE  \E m : Gives(h, g, getOrAddElement(h, c, index), m, c)
<1> DEFINE s == g.kids[c]
<1>1. /\ Elements(h, c) = s /\ Len(s) \in Nat
      /\ \A i \in 1..Len(s) : s[i] \in Live(g) /\ g.born[c] < g.born[s[i]]
  <2>1. h.cell[c].type \in Collections
    BY DEF Collections
  <2> QED BY <2>1, SoundParts, GoodParts, ChildrenOK, KidsPlaced DEF Elements
<1> HIDE DEF s
<1>2. CASE index < Len(s)
  <2>1. index + 1 \in 1..Len(s)
    BY <1>1, <1>2
  <2>2. getOrAddElement(h, c, index) = [heap |-> h, id |-> s[index + 1]]
    BY <1>1, <1>2 DEF getOrAddElement
  <2>3. Leads(h, g, h, g, c)
    BY LeadsNot
  <2>4. Gives(h, g, getOrAddElement(h, c, index), g, c)
    BY <1>1, <2>1, <2>2, <2>3 DEF Gives
  <2> QED BY <2>4
<1>3. CASE ~(index < Len(s))
  <2> DEFINE n == index + 1 - Len(s)
  <2>1. n \in Nat \ {0} /\ getOrAddElement(h, c, index) = AddElements(h, c, n)
    BY <1>1, <1>3 DEF getOrAddElement
  <2> QED BY <2>1, AddElementsSound
<1> QED BY <1>2, <1>3

\* Two slots have been given out, the second one later.
Grown2(h, g, k, n, id, next) ==
  /\ Sound(k, n) /\ id \in Slots /\ next \in Slots /\ {id, next} \cap (g.pending \cup Live(g)) = {}
  /\ n.pending = g.pending \cup {id, next} /\ n.born[id] < n.born[next]
  /\ \A c \in Live(g) : Fresh(n, c, id) /\ Fresh(n, c, next)
  /\ \A x \in Live(g) : /\ x \in Live(n) /\ n.born[x] = g.born[x] /\ n.kids[x] = g.kids[x]
                        /\ n.born[x] < n.born[id] /\ n.born[x] < n.born[next]
                        /\ k.cell[x].type = h.cell[x].type

LEMMA TwoGrown ==
  ASSUME NEW h, NEW g, Sound(h, g), NEW a, NEW p, NEW id, Grown(h, g, a, p, id),
         NEW k, NEW n, NEW next, Grown(a, p, k, n, next)
  PROVE  Grown2(h, g, k, n, id, next)
<1>1. /\ Sound(a, p) /\ id \in Slots /\ id \in Live(p) /\ id \in p.pending
      /\ p.pending = g.pending \cup {id} /\ id \notin Live(g) /\ id \notin g.pending
      /\ \A c \in Live(g) : c \in Live(p) /\ Fresh(p, c, id)
  BY GrownParts DEF Grown
<1>2. /\ Sound(k, n) /\ next \in Slots /\ next \notin Live(p) /\ next \notin p.pending
      /\ n.pending = p.pending \cup {next} /\ n.out = {} /\ p.out = {}
      /\ \A c \in Live(p) : Fresh(n, c, next)
      /\ \A x \in Live(p) : /\ x \in Live(n) /\ n.born[x] = p.born[x] /\ n.kids[x] = p.kids[x]
                            /\ n.born[x] < n.born[next] /\ k.cell[x].type = a.cell[x].type
  BY <1>1, GrownParts, SoundParts DEF Grown
<1>3. \A x \in Live(g) : /\ x \in Live(p) /\ p.born[x] = g.born[x] /\ p.kids[x] = g.kids[x]
                         /\ p.born[x] < p.born[id] /\ a.cell[x].type = h.cell[x].type
  BY DEF Grown
<1>4. ASSUME NEW c \in Live(g) PROVE Fresh(n, c, id)
  <2>1. \A i \in 1..Len(p.kids[c]) : p.kids[c][i] \in Live(p)
    BY <1>1, SoundParts, KidsPlaced
  <2>2. n.born[c] = p.born[c] /\ n.kids[c] = p.kids[c] /\ n.born[id] = p.born[id] /\ c \in Live(n)
    BY <1>1, <1>2
  <2>3. /\ p.born[c] < p.born[id] /\ \A i \in 1..Len(p.kids[c]) : p.born[p.kids[c][i]] < p.born[id]
    BY <1>1 DEF Fresh
  <2>4. \A i \in 1..Len(n.kids[c]) : n.born[n.kids[c][i]] < n.born[id]
    BY <1>2, <2>1, <2>2, <2>3
  <2>5. id \in n.pending
    BY <1>1, <1>2
  <2> QED BY <1>2, <2>2, <2>3, <2>4, <2>5 DEF Fresh
<1>5. {id, next} \cap (g.pending \cup Live(g)) = {} /\ n.pending = g.pending \cup {id, next}
  BY <1>1, <1>2
<1> QED BY <1>1, <1>2, <1>3, <1>4, <1>5 DEF Grown2

\* Both are linked in an object.
LEMMA PairGrown ==
  ASSUME NEW h, NEW g, Sound(h, g), NEW k, NEW n, NEW key, NEW value, Grown2(h, g, k, n, key, value),
         NEW c \in Live(g), h.cell[c].type = "Object"
  PROVE  LET l == appendPair(k, c, key, value)
             m == Joins(Joins(n, c, key), c, value)
         IN /\ l.pools = k.pools
            /\ \A x \in Ids : l.cell[x].type = k.cell[x].type
            /\ Gives(h, g, [heap |-> l, id |-> value], m, c)
            /\ key \in Live(m) /\ m.born[c] < m.born[key] /\ m.born[key] < m.born[value]
<1> DEFINE l == appendPair(k, c, key, value)
           m == Joins(Joins(n, c, key), c, value)
<1>1. /\ Sound(k, n) /\ Fresh(n, c, key) /\ Fresh(n, c, value) /\ n.born[key] < n.born[value]
      /\ n.pending \ {key, value} = g.pending
      /\ c \in Live(n) /\ n.born[c] = g.born[c] /\ k.cell[c].type = "Object" /\ n.born[c] < n.born[value]
      /\ n.born[c] < n.born[key] /\ key \in n.pending /\ value \in n.pending
  BY DEF Grown2
<1>2. /\ Live(g) \subseteq Ids /\ g.born[c] \in Nat /\ key \in Live(n) /\ value \in Live(n)
  BY <1>1, SoundParts
<1>3. /\ Sound(l, m) /\ m.pending = n.pending \ {key, value} /\ Live(m) = Live(n) /\ m.born = n.born
      /\ \A x \in Ids : x # c => m.kids[x] = n.kids[x]
      /\ \A x \in Ids : l.cell[x].type = k.cell[x].type
      /\ l.pools = k.pools
  BY <1>1, PairSound
<1> HIDE DEF l, m
<1>4. Kept(h, g, l, m, g.born[c])
  BY <1>2, <1>3 DEF Kept, Grown2
<1>5. l.cell[c].type = h.cell[c].type
  BY <1>1, <1>2, <1>3
<1>6. Leads(h, g, l, m, c)
  BY <1>1, <1>3, <1>4 DEF Leads
<1>7. value \in Live(m) /\ m.born[c] < m.born[value]
  BY <1>1, <1>2, <1>3
<1>8. Gives(h, g, [heap |-> l, id |-> value], m, c)
  BY ONLY <1>5, <1>6, <1>7 DEF Gives
<1>9. key \in Live(m) /\ m.born[c] < m.born[key] /\ m.born[key] < m.born[value]
  BY <1>1, <1>2, <1>3
<1> QED BY <1>3, <1>8, <1>9 DEF l, m

\* Slots that nothing is below are lost.
LEMMA LosingSound ==
  ASSUME NEW h, NEW g, Sound(h, g), NEW k, NEW n, Sound(k, n), NEW S \in SUBSET n.pending,
         n.pending \ S = g.pending, S \cap Live(g) = {},
         \A x \in S : n.kids[x] = <<>> /\ k.cell[x].type \notin InPool,
         \A x \in Live(g) : /\ x \in Live(n) /\ n.born[x] = g.born[x] /\ n.kids[x] = g.kids[x]
                            /\ k.cell[x].type = h.cell[x].type,
         k.overflowed, NEW c \in Live(g)
  PROVE  Gives(h, g, [heap |-> Losing(k, S), id |-> NullSlot], Dropped(n, S), c)
<1> DEFINE l == Losing(k, S)
           m == Dropped(n, S)
<1>1. /\ Good(k, n) /\ Counted(k) /\ Even(k, n) /\ n.out = {} /\ Forest(n) /\ k \in Heaps
      /\ n.pending \subseteq Slots
  BY SoundParts
<1>2. l.cell = k.cell /\ Counted(l) /\ l.pools = k.pools
  BY <1>1, LosingOK DEF Grows
<1>3. Good(l, m)
  BY <1>1, LosingDrops
<1>4. Live(m) = Live(n) \ S
  BY <1>1, DroppedForest
<1>5. m.pending = n.pending \ S /\ m.out = {} /\ m.kids = n.kids /\ m.born = n.born
  BY <1>1 DEF Dropped
<1> HIDE DEF l, m
<1>6. Sound(l, m)
  <2>1. Even(l, m)
    BY ONLY <1>1, <1>2, <1>4, <1>5 DEF Even
  <2> QED BY <1>2, <1>3, <1>5, <2>1 DEF Sound
<1>7. Leads(h, g, l, m, c) /\ l.cell[c].type = h.cell[c].type
  BY <1>2, <1>4, <1>5, <1>6 DEF Leads, Kept
<1> QED BY <1>7 DEF Gives, l, m

\* The slot a, and then b, have been given out, or b not: then a is lost.
Pair(h, g, a, b, c) ==
  LET n == Held(Held(g, a.id), b.id)
  IN /\ b.id = NullSlot => Gives(h, g, [heap |-> Losing(b.heap, {a.id}), id |-> NullSlot],
                                 Dropped(Held(g, a.id), {a.id}), c)
     /\ b.id # NullSlot => /\ Grown2(h, g, b.heap, n, a.id, b.id)
                           /\ n.kids[a.id] = <<>> /\ n.kids[b.id] = <<>>
                           /\ b.heap.cell[a.id].type = "Null" /\ b.heap.cell[b.id].type = "Null"

\* A key's slot and then its value's are asked for.
LEMMA TwoAllocs ==
  ASSUME NEW h, NEW g, Sound(h, g), NEW a, a = allocVariant(h), NEW b, b = allocVariant(a.heap),
         a.id # NullSlot, Len(b.heap.pools) <= MaxPools, NEW c \in Live(g)
  PROVE  Pair(h, g, a, b, c)
<1> DEFINE p == Held(g, a.id)
           n == Held(p, b.id)
<1>1. h \in Heaps
  BY SoundParts
<1>2. /\ a.heap \in Heaps /\ Grows(a.heap, b.heap) /\ b.heap \in Heaps
      /\ b.id = NullSlot => b.heap.overflowed
  <2>1. a.heap \in Heaps
    BY <1>1, allocVariantGrows DEF Grows
  <2> QED BY <2>1, allocVariantGrows DEF Grows
<1>3. Len(a.heap.pools) <= MaxPools
  <2>1. Len(a.heap.pools) \in Nat /\ Len(b.heap.pools) \in Nat
    BY <1>2, HeapParts
  <2> QED BY <1>2, <2>1, LargestSlot DEF Grows
<1>4. /\ Grown(h, g, a.heap, p, a.id) /\ p.kids[a.id] = <<>>
      /\ a.heap.cell = [h.cell EXCEPT ![a.id] = NullVariant]
  BY <1>3, AllocGrown
<1> HIDE DEF p
<1>5. /\ Sound(a.heap, p) /\ a.id \in Slots /\ a.id \in Ids /\ a.id \in Live(p) /\ a.id \in p.pending
      /\ p.pending \ {a.id} = g.pending /\ a.id \notin Live(g)
  <2>1. /\ Sound(a.heap, p) /\ a.id \in Slots /\ a.id \in Live(p) /\ a.id \in p.pending
        /\ p.pending \ {a.id} = g.pending
    BY <1>4, GrownParts
  <2>2. a.id \notin Live(g)
    BY <1>4 DEF Grown
  <2> QED BY <2>1, <2>2, Constants
<1>6. a.heap.cell[a.id] = NullVariant
  BY <1>1, <1>4, <1>5, HeapParts
<1>7. /\ b.id = NullSlot => b.heap.cell = a.heap.cell /\ Sound(b.heap, p)
      /\ b.id # NullSlot =>
           /\ Grown(a.heap, p, b.heap, n, b.id) /\ n.kids[b.id] = <<>>
           /\ b.heap.cell = [a.heap.cell EXCEPT ![b.id] = NullVariant]
  BY <1>5, AllocGrown
<1> HIDE DEF n
<1>8. CASE b.id = NullSlot
  <2>1. \A x \in {a.id} : p.kids[x] = <<>> /\ b.heap.cell[x].type \notin InPool
    BY <1>4, <1>6, <1>7, <1>8, CellTypes DEF InPool
  <2>2. \A x \in Live(g) : /\ x \in Live(p) /\ p.born[x] = g.born[x] /\ p.kids[x] = g.kids[x]
                           /\ b.heap.cell[x].type = h.cell[x].type
    <3>1. b.heap.cell = a.heap.cell
      BY <1>7, <1>8
    <3>2. \A x \in Live(g) : /\ x \in Live(p) /\ p.born[x] = g.born[x] /\ p.kids[x] = g.kids[x]
                             /\ a.heap.cell[x].type = h.cell[x].type
      BY <1>4 DEF Grown
    <3> QED  BY <3>1, <3>2
  <2>3. {a.id} \in SUBSET p.pending /\ {a.id} \cap Live(g) = {}
    BY <1>5
  <2>4. Gives(h, g, [heap |-> Losing(b.heap, {a.id}), id |-> NullSlot], Dropped(p, {a.id}), c)
    BY <1>2, <1>5, <1>7, <1>8, <2>1, <2>2, <2>3, LosingSound
  <2> QED BY <1>8, <2>4 DEF Pair, p
<1>9. CASE b.id # NullSlot
  <2>1. Grown2(h, g, b.heap, n, a.id, b.id)
    BY <1>4, <1>7, <1>9, TwoGrown
  <2>2. n.kids[a.id] = p.kids[a.id] /\ b.heap.cell[a.id].type = a.heap.cell[a.id].type
    BY <1>5, <1>7, <1>9 DEF Grown
  <2>3. b.heap.cell[b.id] = NullVariant
    <3>1. b.id \in Ids
      BY <1>7, <1>9, Constants DEF Grown
    <3> QED BY <1>2, <1>7, <1>9, <3>1, HeapParts
  <2> QED BY <1>4, <1>6, <1>7, <1>9, <2>1, <2>2, <2>3, CellTypes DEF Pair, n, p
<1> QED BY <1>8, <1>9

\* A null is asked to become a string.
StringGiven(h, g, r, v, type, text) ==
  /\ Sound(h, g) /\ v \in Live(g) /\ h.cell[v].type = "Null" /\ type \in VariantTypes
  /\ StringSet(h, r, v, type, text) /\ Content(AsString(h.cell[v], type, text))

LEMMA StringGivenSound ==
  ASSUME NEW h, NEW g, NEW r, NEW v, NEW type, NEW text, StringGiven(h, g, r, v, type, text)
  PROVE  Leads(h, g, r.heap, g, v) /\ \A x \in Ids : x # v => r.heap.cell[x] = h.cell[x]
BY StringSetSound DEF StringGiven

\* addMember() leaves a tree at each of its returns.
LEMMA addMemberSound ==
  ASSUME NEW h, NEW g, Sound(h, g), NEW c \in Live(g), h.cell[c].type = "Object",
         NEW text \in Texts \cup TinyTexts, Len(addMember(h, c, text).heap.pools) <= MaxPools
  PROVE  \E m : Gives(h, g, addMember(h, c, text), m, c)
<1> DEFINE r == addMember(h, c, text)
           a == allocVariant(h)
           b == allocVariant(a.heap)
           s == setString(b.heap, a.id, text)
           n == Held(Held(g, a.id), b.id)
           type == IF text \in TinyTexts THEN "TinyString" ELSE "OwnedString"
<1>1. h \in Heaps /\ c \in Ids
  BY SoundParts
<1>2. IF a.id = NullSlot THEN r = a
      ELSE IF b.id = NullSlot THEN r = [heap |-> Losing(b.heap, {a.id}), id |-> NullSlot]
      ELSE IF ~s.ok THEN r = [heap |-> Losing(Losing(s.heap, {a.id, b.id}), {a.id}), id |-> NullSlot]
      ELSE r = [heap |-> appendPair(s.heap, c, a.id, b.id), id |-> b.id]
  BY <1>1, addMemberIs DEF MemberAdded
<1>3. r.heap \in Heaps /\ (a.id # NullSlot => Grows(b.heap, r.heap))
  BY <1>1, addMemberGrows DEF Sane, Grows
<1>4. CASE a.id = NullSlot
  <2>1. Gives(h, g, a, g, c)
    BY <1>2, <1>4, AllocGrown
  <2> QED BY <1>2, <1>4, <2>1
<1>5. CASE a.id # NullSlot
  <2>1. a.heap \in Heaps /\ b.heap \in Heaps /\ a.id \in Slots
    <3>1. a.heap \in Heaps /\ a.id \in Slots
      BY <1>1, <1>5, allocVariantGrows DEF Grows
    <3> QED BY <3>1, allocVariantGrows DEF Grows
  <2>2. Len(b.heap.pools) <= MaxPools
    <3>1. Len(b.heap.pools) \in Nat /\ Len(r.heap.pools) \in Nat
      BY <1>3, <2>1, HeapParts
    <3>3. Len(r.heap.pools) <= MaxPools
      OBVIOUS
    <3> HIDE DEF r, b, a
    <3>2. Len(b.heap.pools) <= Len(r.heap.pools) /\ Len(r.heap.pools) <= MaxPools
      BY <1>3, <1>5, <3>3 DEF Grows
    <3> QED BY <3>1, <3>2, LargestSlot
  <2>3. /\ b.id = NullSlot => Gives(h, g, [heap |-> Losing(b.heap, {a.id}), id |-> NullSlot],
                                    Dropped(Held(g, a.id), {a.id}), c)
        /\ b.id # NullSlot => /\ Grown2(h, g, b.heap, n, a.id, b.id)
                              /\ n.kids[a.id] = <<>> /\ n.kids[b.id] = <<>>
                              /\ b.heap.cell[a.id].type = "Null" /\ b.heap.cell[b.id].type = "Null"
    <3>1. Sound(h, g) /\ a = allocVariant(h) /\ b = allocVariant(a.heap) /\ c \in Live(g)
      OBVIOUS
    <3> HIDE DEF a, b
    <3>2. Pair(h, g, a, b, c)
      BY ONLY <1>5, <2>2, <3>1, TwoAllocs, Zenon
    <3> QED BY <3>2 DEF Pair
  <2>4. /\ Content([b.heap.cell[a.id] EXCEPT !.type = type, !.text = text])
        /\ StringSet(b.heap, s, a.id, type, text)
    BY <2>1, setStringOK, Constants
  <2>5. type \in VariantTypes
    BY DEF VariantTypes
  <2> HIDE DEF n, type, s, b, a, r
  <2>6. CASE b.id = NullSlot
    BY <1>2, <1>5, <2>3, <2>6 DEF r
  <2>7. CASE b.id # NullSlot
    <3>1. /\ Grown2(h, g, b.heap, n, a.id, b.id) /\ Sound(b.heap, n) /\ a.id \in Live(n)
          /\ n.pending = g.pending \cup {a.id, b.id} /\ {a.id, b.id} \cap (g.pending \cup Live(g)) = {}
          /\ b.heap.cell[a.id].type = "Null" /\ b.heap.cell[b.id].type = "Null"
          /\ Live(g) \subseteq Ids
      BY <2>3, <2>7, SoundParts DEF Grown2
    <3>2. /\ Leads(b.heap, n, s.heap, n, a.id)
          /\ \A x \in Ids : x # a.id => s.heap.cell[x] = b.heap.cell[x]
      <4> DEFINE e == b.heap
                 key == a.id
      <4>1. /\ Sound(e, n) /\ key \in Live(n) /\ e.cell[key].type = "Null" /\ type \in VariantTypes
            /\ StringSet(e, s, key, type, text)
            /\ Content(AsString(e.cell[key], type, text))
        BY <2>4, <2>5, <3>1 DEF AsString
      <4> HIDE DEF e, key
      <4>2. StringGiven(e, n, s, key, type, text)
        BY <4>1 DEF StringGiven
      <4>3. Leads(e, n, s.heap, n, key) /\ \A x \in Ids : x # key => s.heap.cell[x] = e.cell[x]
        BY <4>2, StringGivenSound
      <4> QED BY <4>3 DEF e, key
    <3>3. Sound(s.heap, n) /\ \A x \in Live(g) : s.heap.cell[x].type = b.heap.cell[x].type
      BY <3>1, <3>2 DEF Leads
    <3>4. Grown2(h, g, s.heap, n, a.id, b.id)
      BY <3>1, <3>3 DEF Grown2
    <3>5. CASE s.ok
      <4>1. Gives(h, g, [heap |-> appendPair(s.heap, c, a.id, b.id), id |-> b.id],
                  Joins(Joins(n, c, a.id), c, b.id), c)
        BY <3>4, PairGrown
      <4> QED BY <1>2, <1>5, <2>7, <3>5, <4>1 DEF r
    <3>6. CASE ~s.ok
      <4> DEFINE S == {a.id, b.id}
      <4>1. s.heap.cell = b.heap.cell /\ s.heap.overflowed
        BY <2>4, <3>6 DEF StringSet, SamePools, SameBut
      <4>2. \A x \in S : n.kids[x] = <<>> /\ s.heap.cell[x].type \notin InPool
        BY <2>3, <2>7, <4>1 DEF InPool
      <4>3. S \in SUBSET n.pending /\ n.pending \ S = g.pending /\ S \cap Live(g) = {}
        BY <3>1
      <4>4. \A x \in Live(g) : /\ x \in Live(n) /\ n.born[x] = g.born[x] /\ n.kids[x] = g.kids[x]
                               /\ s.heap.cell[x].type = h.cell[x].type
        BY <3>4 DEF Grown2
      <4>5. Gives(h, g, [heap |-> Losing(s.heap, S), id |-> NullSlot], Dropped(n, S), c)
        BY <3>3, <4>1, <4>2, <4>3, <4>4, LosingSound
      <4>6. Losing(Losing(s.heap, S), {a.id}) = Losing(s.heap, S)
        <5>1. s.heap \in Heaps
          BY <3>3, SoundParts
        <5> QED BY <5>1 DEF Losing, Heaps
      <4> QED BY <1>2, <1>5, <2>7, <3>6, <4>5, <4>6 DEF r
    <3> QED BY <3>5, <3>6
  <2> QED BY <2>6, <2>7
<1> QED BY <1>4, <1>5

\* The key that is found has its value behind it.
LEMMA findKeyOK ==
  ASSUME NEW h, NEW g, Sound(h, g), NEW c \in Live(g), h.cell[c].type = "Object", NEW text,
         findKey(h, c, text) # NullSlot
  PROVE  \E i \in 1..Len(g.kids[c]) :
           /\ i + 1 \in 1..Len(g.kids[c]) /\ findKey(h, c, text) = g.kids[c][i]
           /\ getMember(h, c, text) = g.kids[c][i + 1]
<1> DEFINE s == Children(h, c)
           found == {i \in DOMAIN s : i % 2 = 1 /\ h.cell[s[i]].text = text
                                      /\ h.cell[s[i]].type \in {"TinyString", "OwnedString"}}
<1>1. /\ Good(h, g) /\ Even(h, g) /\ Forest(g) /\ h \in Heaps
  BY SoundParts
<1>2. s = g.kids[c]
  <2>1. h.cell[c].type \in Collections
    BY DEF Collections
  <2> QED BY <1>1, <2>1, GoodParts, ChildrenOK
<1>3. s \in Seq(Slots) /\ Len(s) \in Nat /\ DOMAIN s = 1..Len(s)
  <2>1. g.kids[c] \in Seq(Slots)
    BY <1>1, KidsPlaced
  <2> QED BY ONLY <1>2, <2>1
<1>4. found # {}
  BY Zenon DEF findKey
<1>5. PICK i \in found : findKey(h, c, text) = s[i]
  <2>1. \E i \in found : \A j \in found : i <= j
    <3>1. found \subseteq Nat
      BY <1>3
    <3> HIDE DEF found
    <3> QED BY <1>4, <3>1, LeastNatural
  <2> QED BY <1>4, <2>1 DEF findKey
<1>6. i \in 1..Len(s) /\ i % 2 = 1
  BY <1>3
<1> HIDE DEF found, s
<1>7. i < Len(s) /\ i + 1 \in 1..Len(s)
  <2> DEFINE n == Len(s)
  <2>1. n \in Nat /\ n % 2 = 0 /\ i \in 1..n /\ i % 2 = 1
    BY <1>1, <1>2, <1>3, <1>6 DEF Even
  <2> HIDE DEF n
  <2>2. i < n /\ i + 1 \in 1..n
    BY ONLY <2>1
  <2> QED BY <2>2 DEF n
<1>8. h.cell[s[i]].next = s[i + 1]
  <2>1. h.cell[s[i]].next = After(s, i)
    BY <1>1, <1>2, <1>6, GoodParts DEF ShowsAt
  <2> QED BY <1>7, <2>1 DEF After
<1>9. getMember(h, c, text) = s[i + 1]
  BY <1>5, <1>8 DEF getMember
<1> QED BY <1>2, <1>5, <1>6, <1>7, <1>9

\* The value that is found is below the object.
LEMMA getMemberOK ==
  ASSUME NEW h, NEW g, Sound(h, g), NEW c \in Live(g), h.cell[c].type = "Object", NEW text
  PROVE  LET id == getMember(h, c, text)
         IN id # NullSlot => id \in Live(g) /\ g.born[c] < g.born[id]
<1>1. CASE findKey(h, c, text) = NullSlot
  BY <1>1 DEF getMember
<1>2. CASE findKey(h, c, text) # NullSlot
  <2>1. PICK i \in 1..Len(g.kids[c]) : i + 1 \in 1..Len(g.kids[c]) /\ getMember(h, c, text) = g.kids[c][i + 1]
    BY <1>2, findKeyOK
  <2>2. g.kids[c][i + 1] \in Live(g) /\ g.born[c] < g.born[g.kids[c][i + 1]]
    BY <2>1, SoundParts, KidsPlaced
  <2> QED BY <2>1, <2>2
<1> QED BY <1>1, <1>2

\* object[key], with a new member or an old one.
LEMMA getOrAddMemberSound ==
  ASSUME NEW h, NEW g, Sound(h, g), NEW c \in Live(g), h.cell[c].type = "Object",
         NEW text \in Texts \cup TinyTexts, Len(getOrAddMember(h, c, text).heap.pools) <= MaxPools
  PROVE  \E m : Gives(h, g, getOrAddMember(h, c, text), m, c)
<1>1. CASE getMember(h, c, text) # NullSlot
  <2>1. getOrAddMember(h, c, text) = [heap |-> h, id |-> getMember(h, c, text)]
    BY <1>1 DEF getOrAddMember
  <2>2. getMember(h, c, text) \in Live(g) /\ g.born[c] < g.born[getMember(h, c, text)]
    BY <1>1, getMemberOK
  <2>3. Gives(h, g, getOrAddMember(h, c, text), g, c)
    BY <2>1, <2>2, LeadsNot DEF Gives
  <2> QED BY <2>3
<1>2. CASE getMember(h, c, text) = NullSlot
  <2>1. getOrAddMember(h, c, text) = addMember(h, c, text)
    BY <1>2 DEF getOrAddMember
  <2> QED BY <2>1, addMemberSound
<1> QED BY <1>1, <1>2

\* A reader's new member.
LEMMA AddNamedPairSound ==
  ASSUME NEW h, NEW g, Sound(h, g), NEW c \in Live(g), h.cell[c].type = "Object",
         NEW text \in Texts \cup TinyTexts, Len(AddNamedPair(h, c, text).heap.pools) <= MaxPools
  PROVE  LET r == AddNamedPair(h, c, text)
         IN (\E m : Gives(h, g, r, m, c)) /\ (r.id # NullSlot => r.heap.cell[r.id].type = "Null")
<1> DEFINE r == AddNamedPair(h, c, text)
           a == allocVariant(h)
           b == allocVariant(a.heap)
           l == appendPair(b.heap, c, a.id, b.id)
           k == KeySaved(l, a.id, text)
           n == Held(Held(g, a.id), b.id)
           m == Joins(Joins(n, c, a.id), c, b.id)
<1>1. h \in Heaps /\ c \in Ids /\ Live(g) \subseteq Ids
  BY SoundParts
<1>2. IF a.id = NullSlot THEN r = a
      ELSE IF b.id = NullSlot THEN r = [heap |-> Losing(b.heap, {a.id}), id |-> NullSlot]
      ELSE r = [heap |-> k, id |-> b.id]
  BY <1>1, AddNamedPairIs DEF PairAdded
<1>3. r.heap \in Heaps /\ (a.id # NullSlot => Grows(b.heap, r.heap))
  BY <1>1, AddNamedPairGrows DEF Sane, Grows
<1>4. CASE a.id = NullSlot
  <2>1. Gives(h, g, a, g, c)
    BY <1>2, <1>4, AllocGrown
  <2> QED BY <1>2, <1>4, <2>1
<1>5. CASE a.id # NullSlot
  <2>1. a.heap \in Heaps /\ b.heap \in Heaps /\ a.id \in Slots /\ (b.id # NullSlot => b.id \in Slots)
    <3>1. a.heap \in Heaps /\ a.id \in Slots
      BY <1>1, <1>5, allocVariantGrows DEF Grows
    <3> QED BY <3>1, allocVariantGrows DEF Grows
  <2>2. Len(b.heap.pools) <= MaxPools
    <3>1. Len(b.heap.pools) \in Nat /\ Len(r.heap.pools) \in Nat
      BY <1>3, <2>1, HeapParts
    <3>3. Len(r.heap.pools) <= MaxPools
      OBVIOUS
    <3> HIDE DEF r, b, a
    <3>2. Len(b.heap.pools) <= Len(r.heap.pools) /\ Len(r.heap.pools) <= MaxPools
      BY <1>3, <1>5, <3>3 DEF Grows
    <3> QED BY <3>1, <3>2, LargestSlot
  <2>3. Pair(h, g, a, b, c)
    <3>1. Sound(h, g) /\ a = allocVariant(h) /\ b = allocVariant(a.heap) /\ c \in Live(g)
      OBVIOUS
    <3> HIDE DEF a, b
    <3> QED BY ONLY <1>5, <2>2, <3>1, TwoAllocs, Zenon
  <2> HIDE DEF b, a, r
  <2>4. CASE b.id = NullSlot
    <3>1. r = [heap |-> Losing(b.heap, {a.id}), id |-> NullSlot]
      BY <1>2, <1>5, <2>4
    <3>2. Gives(h, g, r, Dropped(Held(g, a.id), {a.id}), c)
      BY <2>3, <2>4, <3>1 DEF Pair
    <3>3. r.id = NullSlot
      BY <3>1
    <3> QED BY <3>2, <3>3 DEF r
  <2>5. CASE b.id # NullSlot
    <3>1. Grown2(h, g, b.heap, n, a.id, b.id) /\ b.heap.cell[a.id].type = "Null" /\ b.heap.cell[b.id].type = "Null"
      BY <2>3, <2>5 DEF Pair
    <3>2. /\ \A x \in Ids : l.cell[x].type = b.heap.cell[x].type
          /\ Gives(h, g, [heap |-> l, id |-> b.id], m, c)
          /\ a.id \in Live(m) /\ m.born[c] < m.born[a.id] /\ m.born[a.id] < m.born[b.id]
      BY <3>1, PairGrown
    <3>3. /\ a.id \in Ids /\ b.id \in Ids /\ a.id # b.id
      <4>1. a.id \in Ids /\ b.id \in Ids
        BY <2>1, <2>5, Constants
      <4>2. n.born[a.id] < n.born[b.id] /\ n.born[a.id] \in Nat /\ n.born[b.id] \in Nat
        <5>1. n.born[a.id] < n.born[b.id] /\ Sound(b.heap, n) /\ a.id \in Live(n) /\ b.id \in Live(n)
          BY <3>1, SoundParts DEF Grown2
        <5> QED BY <5>1, SoundParts
      <4> HIDE DEF n
      <4> QED BY <4>1, <4>2
    <3> HIDE DEF m, n, l
    <3>4. /\ Leads(h, g, l, m, c) /\ Sound(l, m) /\ l.cell[c].type = h.cell[c].type
          /\ b.id \in Live(m) /\ c \in Live(m) /\ l \in Heaps
      BY <2>5, <3>2, SoundParts DEF Gives, Leads
    <3> DEFINE x == AsString(l.cell[a.id], KeyType(text), text)
    <3>5. Content(x) /\ Writes(l, k, a.id, x)
      BY <3>3, <3>4, KeySavedOK
    <3>6. /\ x.type = KeyType(text) /\ x.head = l.cell[a.id].head /\ x.tail = l.cell[a.id].tail
          /\ x.next = l.cell[a.id].next
      BY <3>3, <3>4, CellParts DEF AsString, Cells
    <3>7. KeyType(text) \in VariantTypes
      BY DEF KeyType, VariantTypes
    <3>8. l.cell[a.id].type = "Null" /\ l.cell[b.id].type = "Null"
      BY <3>1, <3>2, <3>3
    <3> HIDE DEF x, k
    <3>9. Leads(l, m, k, m, a.id) /\ k \in Heaps
      BY <3>2, <3>4, <3>5, <3>6, <3>7, <3>8, WriteSound
    <3>10. Leads(l, m, k, m, c) /\ k.cell[c].type = l.cell[c].type
      BY <3>2, <3>4, <3>9, LeadsUp
    <3>11. Leads(h, g, k, m, c)
      BY <3>4, <3>10, LeadsOn
    <3>12. k.cell[b.id].type = "Null"
      <4>1. k.cell = [l.cell EXCEPT ![a.id] = x]
        BY <3>5 DEF Writes
      <4> QED BY <3>3, <3>4, <3>8, <4>1, HeapParts
    <3>13. r = [heap |-> k, id |-> b.id]
      BY <1>2, <1>5, <2>5
    <3>14. m.born[c] < m.born[b.id]
      BY <2>5, <3>2 DEF Gives
    <3>15. Gives(h, g, r, m, c)
      BY <3>4, <3>10, <3>11, <3>13, <3>14 DEF Gives
    <3> QED BY <3>12, <3>13, <3>15 DEF r
  <2> QED BY <2>4, <2>5
<1> QED BY <1>4, <1>5

-----------------------------------------------------------------------------
(***************************************************************************)
(* Copying a value leads from one tree to another.                         *)
(***************************************************************************)

\* The copy of an element is linked, or freed when it failed.
LEMMA LinkedSound ==
  ASSUME NEW h, NEW g, Sound(h, g), NEW r, NEW n, NEW id, Grown(h, g, r.heap, n, id),
         NEW c \in Live(g), h.cell[c].type = "Array"
  PROVE  \E m : Gives(h, g, Linked(r, c, id), m, c)
<1>1. CASE r.ok
  <2>1. Linked(r, c, id) = [heap |-> appendOne(r.heap, c, id), id |-> id]
    BY <1>1 DEF Linked
  <2> QED BY <2>1, JoinGrown
<1>2. CASE ~r.ok
  <2>1. Linked(r, c, id) = [heap |-> freeVariant(r.heap, id), id |-> NullSlot]
    BY <1>2 DEF Linked
  <2> QED BY <2>1, FreeGrown
<1> QED BY <1>1, <1>2

\* A way to copy values to slots does what an operation on the slot may do.
CopiesSound(copy) ==
  \A h, g : Sound(h, g) =>
    \A v \in Live(g) : \A tree \in Trees :
      Len(copy[h][v][tree].pools) <= MaxPools => \E m : Leads(h, g, copy[h][v][tree], m, v)

\* An operation on a collection leaves it one of the same type.
Goes(h, g, k, m, v) == Leads(h, g, k, m, v) /\ k.cell[v].type = h.cell[v].type

LEMMA GoesFurther ==
  ASSUME NEW h, NEW g, NEW k, NEW m, NEW l, NEW n, NEW v, Goes(h, g, k, m, v), Goes(k, m, l, n, v)
  PROVE  Goes(h, g, l, n, v)
<1>1. Leads(h, g, l, n, v)
  BY LeadsOn DEF Goes
<1> QED BY <1>1 DEF Goes

LEMMA FewerPools ==
  ASSUME NEW h \in Heaps, NEW k, Grows(h, k), Len(k.pools) <= MaxPools
  PROVE  Len(h.pools) <= MaxPools
<1>1. Len(h.pools) \in Nat /\ Len(k.pools) \in Nat /\ Len(h.pools) <= Len(k.pools)
  BY HeapParts DEF Grows
<1> QED BY <1>1, LargestSlot

\* One item is copied.
LEMMA CopyItemSound ==
  ASSUME NEW copy, Copies(copy), CopiesSound(copy), NEW h, NEW g, Sound(h, g), NEW v \in Live(g),
         NEW type, NEW item, ItemOK(type, item), h.cell[v].type = type,
         Len(CopyItem(copy, h, v, type, item).heap.pools) <= MaxPools
  PROVE  \E m : Goes(h, g, CopyItem(copy, h, v, type, item).heap, m, v)
<1> DEFINE r == IF type = "Array" THEN allocVariant(h) ELSE getOrAddMember(h, v, item.key)
           k == copy[r.heap][r.id][item.value]
           q == CopyItem(copy, h, v, type, item)
<1>1. h \in Heaps /\ v \in Ids
  BY SoundParts
<1>2. q = IF r.id = NullSlot THEN r
          ELSE IF type = "Array" THEN Linked(Answered(k), v, r.id)
          ELSE [heap |-> k, id |-> IF k.overflowed THEN NullSlot ELSE r.id]
  BY CopyItemIs
<1>3. r.heap \in Heaps /\ item.value \in Trees
  <2>1. allocVariant(h).heap \in Heaps
    BY <1>1, allocVariantGrows DEF Grows
  <2>2. type # "Array" => type = "Object" /\ item.key \in Texts \cup TinyTexts
    BY DEF ItemOK, Collections
  <2>3. type # "Array" => getOrAddMember(h, v, item.key).heap \in Heaps
    BY <1>1, <2>2, getOrAddMemberGrows DEF Sane, Grows
  <2> QED BY <2>1, <2>3 DEF ItemOK
<1>4. Len(q.heap.pools) <= MaxPools
  OBVIOUS
<1>5. CASE type = "Array"
  <2>1. r = allocVariant(h) /\ h.cell[v].type = "Array"
    BY <1>5
  <2> HIDE DEF k, q, r
  <2>2. CASE r.id = NullSlot
    <3>1. Len(r.heap.pools) <= MaxPools /\ q = r
      BY <1>2, <1>4, <2>2
    <3>2. Gives(h, g, r, g, v)
      BY <2>1, <2>2, <3>1, AllocGrown
    <3> QED BY <3>1, <3>2 DEF Gives, Goes, q
  <2>3. CASE r.id # NullSlot
    <3> DEFINE p == Held(g, r.id)
    <3>1. r.id \in Slots /\ r.id \in Ids /\ Grows(r.heap, k) /\ k \in Heaps
      <4>1. r.id \in Slots /\ r.id \in Ids
        BY <1>1, <2>1, <2>3, allocVariantGrows, Constants
      <4> QED BY <1>3, <4>1 DEF Copies, Grows, k
    <3>2. q = Linked(Answered(k), v, r.id) /\ Answered(k).heap = k
      BY <1>2, <1>5, <2>3 DEF Answered
    <3>3. Len(k.pools) <= MaxPools
      <4>1. Grows(k, q.heap)
        BY <1>1, <3>1, <3>2, LinkedGrows
      <4> QED BY <1>4, <3>1, <4>1, FewerPools
    <3>4. Len(r.heap.pools) <= MaxPools
      BY <1>3, <3>1, <3>3, FewerPools
    <3>5. Grown(h, g, r.heap, p, r.id)
      BY <2>1, <2>3, <3>4, AllocGrown
    <3>6. Sound(r.heap, p) /\ r.id \in Live(p)
      BY <3>5, GrownParts
    <3>7. PICK n : Leads(r.heap, p, k, n, r.id)
      BY <1>3, <3>3, <3>6 DEF CopiesSound, k
    <3>8. Grown(h, g, k, n, r.id)
      BY <3>5, <3>7, GrownOn
    <3>9. PICK m : Gives(h, g, q, m, v)
      BY <2>1, <3>2, <3>8, LinkedSound
    <3> QED BY <3>9 DEF Gives, Goes, q
  <2> QED BY <2>2, <2>3
<1>6. CASE type # "Array"
  <2>1. r = getOrAddMember(h, v, item.key) /\ h.cell[v].type = "Object" /\ item.key \in Texts \cup TinyTexts
    BY <1>6 DEF ItemOK, Collections
  <2>2. r.id # NullSlot => q.heap = k
    <3> HIDE DEF k, q, r
    <3> QED  BY <1>2, <1>6
  <2>3. r.id = NullSlot => q = r
    BY <1>2
  <2> HIDE DEF k, q, r
  <2>4. Sane(h, r)
    BY <1>1, <2>1, getOrAddMemberGrows
  <2>5. r.id # NullSlot => r.id \in Ids /\ Grows(r.heap, k)
    <3>1. r.id # NullSlot => r.id \in Ids
      BY <2>4, Constants DEF Sane
    <3> QED BY <1>3, <3>1 DEF Copies, k
  <2>6. Len(r.heap.pools) <= MaxPools
    BY <1>3, <1>4, <2>2, <2>3, <2>5, FewerPools
  <2>7. PICK m : Gives(h, g, r, m, v)
    BY <2>1, <2>6, getOrAddMemberSound
  <2>8. Goes(h, g, r.heap, m, v)
    BY <2>7 DEF Gives, Goes
  <2>9. CASE r.id = NullSlot
    BY <2>3, <2>8, <2>9 DEF q
  <2>10. CASE r.id # NullSlot
    <3>1. Sound(r.heap, m) /\ v \in Live(m) /\ r.id \in Live(m) /\ m.born[v] < m.born[r.id]
      BY <2>7, <2>10 DEF Gives, Leads
    <3>2. PICK n : Leads(r.heap, m, k, n, r.id)
      BY <1>3, <1>4, <2>2, <2>10, <3>1 DEF CopiesSound, k
    <3>3. Goes(r.heap, m, k, n, v)
      BY <3>1, <3>2, LeadsUp DEF Goes
    <3>4. Goes(h, g, k, n, v)
      BY <2>8, <3>3, GoesFurther
    <3> QED BY <2>2, <2>10, <3>4 DEF q
  <2> QED BY <2>9, <2>10
<1> QED BY <1>5, <1>6

\* to<JsonArray>(), to<JsonObject>() and what is written over an old value.
LEMMA RetypedSound ==
  ASSUME NEW h, NEW g, Sound(h, g), NEW v \in Live(g), NEW type \in VariantTypes \ InPool
  PROVE  LET k == Typed(Clear(h, v), v, type)
         IN /\ k.pools = h.pools /\ k.cell[v].type = type /\ k \in Heaps
            /\ \E m : Leads(h, g, k, m, v)
<1> DEFINE e == Clear(h, v)
<1>1. e \in Heaps /\ e.pools = h.pools /\ e.cell[v].type = "Null" /\ \E m : Leads(h, g, e, m, v)
  BY ClearSound
<1> HIDE DEF e
<1>2. PICK m : Leads(h, g, e, m, v)
  BY <1>1
<1>3. Sound(e, m) /\ v \in Live(m)
  BY <1>2 DEF Leads
<1>4. /\ Leads(e, m, Typed(e, v, type), m, v) /\ Typed(e, v, type).cell[v].type = type
      /\ Typed(e, v, type).pools = e.pools
  BY <1>1, <1>3, TypedSound
<1>5. Leads(h, g, Typed(e, v, type), m, v)
  BY <1>2, <1>4, LeadsOn
<1>6. Typed(e, v, type) \in Heaps
  BY <1>4, SoundParts DEF Leads
<1> QED BY <1>1, <1>4, <1>5, <1>6 DEF e

\* All items are copied, up to the first that fails.
LEMMA CopyItemsSound ==
  ASSUME NEW copy, Copies(copy), CopiesSound(copy), NEW h, NEW g, Sound(h, g), NEW v \in Live(g),
         NEW tree, TreeOK(tree), tree.type \in Collections,
         Len(CopyItems(copy, h, v, tree).pools) <= MaxPools
  PROVE  \E m : Leads(h, g, CopyItems(copy, h, v, tree), m, v)
<1> DEFINE n == Len(tree.items)
<1>1. h \in Heaps /\ v \in Ids /\ v # NullSlot
  BY SoundParts, GhostParts
<1>2. PICK a : IsCopied(a, copy, h, v, tree) /\ CopyItems(copy, h, v, tree) = a[n].heap
  BY <1>1, CopyItemsIs
<1>3. n \in Nat /\ \A k \in 1..n : ItemOK(tree.type, tree.items[k])
  BY ItemsOK
<1>4. \A k \in 0..n : a[k] \in Results /\ Grows(a[k].heap, a[n].heap)
  BY <1>1, <1>2, CopyItemsGrows
<1>5. /\ a[0] = [heap |-> Typed(Clear(h, v), v, tree.type), id |-> v]
      /\ \A k \in 1..n : a[k] = IF a[k - 1].id = NullSlot THEN a[k - 1]
                                ELSE CopyItem(copy, a[k - 1].heap, v, tree.type, tree.items[k])
  BY <1>2 DEF IsCopied, Copied1
<1> HIDE DEF n
<1>6. \A k \in 0..n : Len(a[k].heap.pools) <= MaxPools
  <2> TAKE k \in 0..n
  <2>1. a[k].heap \in Heaps /\ Grows(a[k].heap, a[n].heap) /\ Len(a[n].heap.pools) <= MaxPools
    BY <1>2, <1>4 DEF Results
  <2> QED BY <2>1, FewerPools
<1> DEFINE OK(k) == \E m : Leads(h, g, a[k].heap, m, v) /\ a[k].heap.cell[v].type = tree.type
           S == {k \in Nat : k <= n => OK(k)}
<1>7. 0 \in S
  <2>1. tree.type \in VariantTypes \ InPool
    BY DEF VariantTypes, InPool, Collections
  <2>2. PICK m : Leads(h, g, Typed(Clear(h, v), v, tree.type), m, v)
    BY <2>1, RetypedSound
  <2>3. Typed(Clear(h, v), v, tree.type).cell[v].type = tree.type
    BY <2>1, RetypedSound
  <2>4. Leads(h, g, a[0].heap, m, v) /\ a[0].heap.cell[v].type = tree.type
    BY <1>5, <2>2, <2>3
  <2>5. OK(0)
    BY <2>4
  <2> QED BY <2>5
<1>8. ASSUME NEW k \in Nat, k \in S PROVE k + 1 \in S
  <2> SUFFICES ASSUME k + 1 <= n PROVE OK(k + 1)
    OBVIOUS
  <2>1. k + 1 \in 1..n /\ (k + 1) - 1 = k /\ k \in 0..n /\ k + 1 \in 0..n
    BY <1>3
  <2>2. PICK m : Leads(h, g, a[k].heap, m, v) /\ a[k].heap.cell[v].type = tree.type
    BY <1>8, <2>1
  <2>3. a[k + 1] = IF a[k].id = NullSlot THEN a[k]
                   ELSE CopyItem(copy, a[k].heap, v, tree.type, tree.items[k + 1])
    BY <1>5, <2>1
  <2>4. CASE a[k].id = NullSlot
    BY <2>2, <2>3, <2>4
  <2>5. CASE a[k].id # NullSlot
    <3> DEFINE e == a[k].heap
               item == tree.items[k + 1]
               q == CopyItem(copy, e, v, tree.type, item)
    <3>1. a[k + 1] = q /\ Len(q.heap.pools) <= MaxPools
      BY <1>6, <2>1, <2>3, <2>5
    <3>2. Sound(e, m) /\ v \in Live(m) /\ e.cell[v].type = tree.type
          /\ ItemOK(tree.type, item)
      BY <1>3, <2>1, <2>2 DEF Leads
    <3>3. \E l : Goes(e, m, q.heap, l, v)
      <4> HIDE DEF e, item
      <4> QED BY <3>1, <3>2, CopyItemSound
    <3>4. PICK l : Goes(e, m, q.heap, l, v)
      BY <3>3
    <3>5. Leads(h, g, q.heap, l, v) /\ q.heap.cell[v].type = tree.type
      <4>1. Leads(h, g, e, m, v) /\ Leads(e, m, q.heap, l, v)
        BY <2>2, <3>4 DEF Goes
      <4> HIDE DEF e, q
      <4> QED BY <3>2, <3>4, <4>1, LeadsOn DEF Goes
    <3> QED BY <3>1, <3>5
  <2> QED BY <2>4, <2>5
<1>9. \A k \in Nat : k \in S
  <2> HIDE DEF S
  <2> QED BY <1>7, <1>8, Induction
<1>10. n \in S
  BY <1>3, <1>9
<1> QED BY <1>2, <1>3, <1>10

\* Any value is copied, by induction on its nesting.
LEMMA CopySound ==
  /\ \A n \in 0..MaxNesting : CopiesSound(CopyTo[n])
  /\ \A h, g : Sound(h, g) =>
       \A v \in Live(g) : \A tree \in Trees :
         Len(Copy(h, v, tree).pools) <= MaxPools => \E m : Leads(h, g, Copy(h, v, tree), m, v)
<1>1. \A n \in 0..MaxNesting : CopyTo[n] = CopyOnce(n, CopyTo[n - 1]) /\ Copies(CopyTo[n])
  BY CopyToIs, CopyGrows
<1>2. MaxNesting \in Nat
  BY NestingAssumption
<1> DEFINE S == {n \in Nat : n <= MaxNesting => CopiesSound(CopyTo[n])}
<1>3. ASSUME NEW n \in 0..MaxNesting, n # 0 => CopiesSound(CopyTo[n - 1]) PROVE CopiesSound(CopyTo[n])
  <2> SUFFICES ASSUME NEW h, NEW g, Sound(h, g), NEW v \in Live(g), NEW tree \in Trees,
                      Len(CopyTo[n][h][v][tree].pools) <= MaxPools
               PROVE  \E m : Leads(h, g, CopyTo[n][h][v][tree], m, v)
    BY DEF CopiesSound
  <2>1. h \in Heaps /\ v \in Ids /\ TreeOK(tree)
    BY SoundParts, TreesOK
  <2>2. CopyTo[n][h][v][tree] = IF n = 0 \/ tree.type \notin Collections THEN Set(h, v, tree).heap
                                ELSE CopyItems(CopyTo[n - 1], h, v, tree)
    BY <1>1, <2>1, CopyOnceIs
  <2>3. CASE n = 0 \/ tree.type \notin Collections
    BY <2>1, <2>2, <2>3, SetSound
  <2>4. CASE ~(n = 0 \/ tree.type \notin Collections)
    <3>1. n - 1 \in 0..MaxNesting
      BY <1>2, <2>4
    <3>2. Copies(CopyTo[n - 1]) /\ CopiesSound(CopyTo[n - 1]) /\ tree.type \in Collections
      BY <1>1, <1>3, <2>4, <3>1
    <3>3. CopyTo[n][h][v][tree] = CopyItems(CopyTo[n - 1], h, v, tree)
      BY <2>2, <2>4
    <3> QED BY <2>1, <3>2, <3>3, CopyItemsSound
  <2> QED BY <2>3, <2>4
<1>4. 0 \in S
  BY <1>2, <1>3
<1>5. ASSUME NEW n \in Nat, n \in S PROVE n + 1 \in S
  <2> SUFFICES ASSUME n + 1 <= MaxNesting PROVE CopiesSound(CopyTo[n + 1])
    OBVIOUS
  <2>1. n + 1 \in 0..MaxNesting /\ (n + 1) - 1 = n /\ CopiesSound(CopyTo[n])
    BY <1>2, <1>5
  <2> QED BY <1>3, <2>1
<1>6. \A n \in Nat : n \in S
  <2> HIDE DEF S
  <2> QED BY <1>4, <1>5, Induction
<1>7. \A n \in 0..MaxNesting : CopiesSound(CopyTo[n])
  BY <1>2, <1>6
<1>8. CopiesSound(CopyTo[MaxNesting])
  BY <1>2, <1>7
<1> QED BY <1>7, <1>8 DEF CopiesSound, Copy

\* array.add(value) leaves a tree.
LEMMA addValueSound ==
  ASSUME NEW h, NEW g, Sound(h, g), NEW c \in Live(g), h.cell[c].type = "Array", NEW value \in Trees,
         Len(addValue(h, c, value).heap.pools) <= MaxPools
  PROVE  \E m : Gives(h, g, addValue(h, c, value), m, c)
<1> DEFINE a == allocVariant(h)
           s == IF value.type \in Collections THEN Answered(Copy(a.heap, a.id, value))
                ELSE Set(a.heap, a.id, value)
           q == addValue(h, c, value)
           p == Held(g, a.id)
<1>1. h \in Heaps /\ c \in Ids
  BY SoundParts
<1>2. /\ Sane(h, q)
      /\ a.id # NullSlot => /\ Grows(a.heap, s.heap) /\ Grows(s.heap, q.heap) /\ q = Linked(s, c, a.id)
      /\ a.id = NullSlot => q = a
  BY <1>1, addValueGrows
<1>3. a.heap \in Heaps /\ Len(q.heap.pools) <= MaxPools
  BY <1>1, allocVariantGrows DEF Grows
<1>4. value.type \in Collections => s.heap = Copy(a.heap, a.id, value)
  BY DEF Answered
<1>5. value.type \notin Collections => s = Set(a.heap, a.id, value)
  OBVIOUS
<1> HIDE DEF s, q
<1>6. CASE a.id = NullSlot
  <2>1. Gives(h, g, a, g, c)
    BY <1>2, <1>3, <1>6, AllocGrown
  <2> QED BY <1>2, <1>6, <2>1 DEF q
<1>7. CASE a.id # NullSlot
  <2> HIDE DEF a, p
  <2>1. s.heap \in Heaps /\ Grows(a.heap, s.heap) /\ Grows(s.heap, q.heap) /\ q = Linked(s, c, a.id)
    BY <1>2, <1>7 DEF Grows
  <2>2. Len(s.heap.pools) <= MaxPools
    BY <1>3, <2>1, FewerPools
  <2>3. Len(a.heap.pools) <= MaxPools
    BY <1>3, <2>1, <2>2, FewerPools
  <2>4. Grown(h, g, a.heap, p, a.id)
    BY <1>7, <2>3, AllocGrown DEF a, p
  <2>5. Sound(a.heap, p) /\ a.id \in Live(p)
    BY <2>4, GrownParts
  <2>6. \E n : Leads(a.heap, p, s.heap, n, a.id)
    <3>1. CASE value.type \in Collections
      BY <1>4, <2>2, <2>5, <3>1, CopySound
    <3>2. CASE value.type \notin Collections
      <4>1. TreeOK(value)
        BY TreesOK
      <4> QED BY <1>5, <2>2, <2>5, <3>2, <4>1, SetSound
    <3> QED BY <3>1, <3>2
  <2>7. PICK n : Leads(a.heap, p, s.heap, n, a.id)
    BY <2>6
  <2>8. Grown(h, g, s.heap, n, a.id)
    BY <2>4, <2>7, GrownOn
  <2>9. \E m : Gives(h, g, q, m, c)
    BY <2>1, <2>8, LinkedSound
  <2> QED BY <2>9 DEF q
<1> QED BY <1>6, <1>7

-----------------------------------------------------------------------------
\* What the allocator will refuse, and how often it was asked, is no part of it.
LEMMA SameSound ==
  ASSUME NEW h, NEW g, Sound(h, g), NEW k \in Heaps, SameBut(h, k), k.pools = h.pools,
         k.capacity = h.capacity
  PROVE  Sound(k, g) /\ \A v \in Live(g) : Leads(h, g, k, g, v) /\ k.cell[v].type = h.cell[v].type
<1>1. Counted(h) /\ Good(h, g) /\ Even(h, g) /\ g.out = {} /\ h \in Heaps
  BY SoundParts
<1>2. k.cell = h.cell /\ k.refs = h.refs /\ Given(k) = Given(h)
  BY DEF SameBut, Given
<1>3. Good(k, g)
  BY <1>1, <1>2, SameGood
<1>4. Counted(k)
  BY <1>1, <1>2, SameHeap DEF Grows, SameBut
<1>5. Sound(k, g)
  BY <1>1, <1>2, <1>3, <1>4 DEF Sound, Even
<1> QED BY <1>2, <1>5 DEF Leads, Kept

\* shrinkToFit() moves no slot.
LEMMA shrinkToFitOK ==
  ASSUME NEW h \in Heaps
  PROVE  LET k == shrinkToFit(h)
         IN /\ k \in Heaps /\ Len(k.pools) = Len(h.pools) /\ (Counted(h) => Counted(k))
            /\ SameBut(h, k) /\ Given(k) = Given(h)
<1> DEFINE g == Malloc(h)
           L == Len(h.pools)
           cut == IF Granted(g) THEN [g EXCEPT !.pools[L].size = LastPool(h).used] ELSE g
           k == shrinkToFit(h)
<1>1. /\ g \in Heaps /\ g.pools = h.pools /\ SameBut(h, g) /\ g.capacity = h.capacity
      /\ (Counted(h) => Counted(g)) /\ h.pools \in Seq(Pools) /\ L \in Nat
  BY MallocOK, HeapParts DEF SameBut, Grows
<1> HIDE DEF g
<1>2. CASE h.pools = <<>>
  BY <1>2 DEF shrinkToFit, SameBut
<1>3. CASE h.pools # <<>>
  <2>1. L \in 1..L /\ \A n \in 1..L : h.pools[n] \in Pools
    BY <1>1, <1>3
  <2> DEFINE last == h.pools[L]
             p == [h.pools EXCEPT ![L] = [last EXCEPT !.size = last.used]]
  <2>2. last \in Pools /\ last.used \in 0..PoolCapacity /\ last.size \in 0..PoolCapacity
        /\ [last EXCEPT !.size = last.used] \in Pools
        /\ [last EXCEPT !.size = last.used].used = last.used
        /\ [last EXCEPT !.size = last.used].size = last.used
    <3>1. last \in Pools
      BY <2>1
    <3> HIDE DEF last
    <3> QED BY <3>1 DEF Pools
  <2>3. /\ p \in Seq(Pools) /\ Len(p) = L /\ DOMAIN p = 1..L
        /\ p[L].used = last.used /\ p[L].size = last.used
        /\ \A n \in 1..L : n # L => p[n] = h.pools[n]
    <3> DEFINE y == [last EXCEPT !.size = last.used]
    <3>1. y \in Pools
      BY <2>2
    <3> HIDE DEF y
    <3>2. LET s == [h.pools EXCEPT ![L] = y]
          IN /\ s \in Seq(Pools) /\ Len(s) = L /\ DOMAIN s = 1..L /\ s[L] = y
             /\ \A n \in 1..L : n # L => s[n] = h.pools[n]
      BY <1>1, <2>1, <3>1
    <3> QED BY <2>2, <3>2 DEF y
  <2> HIDE DEF p
  <2>4. cut.pools = p \/ cut.pools = h.pools
    BY <1>1 DEF LastPool, p
  <2>5. /\ cut \in Heaps /\ SameBut(h, cut) /\ cut.capacity = h.capacity
    <3>1. [g EXCEPT !.pools = p] \in Heaps
      BY <1>1, <2>3 DEF Heaps
    <3>2. cut = g \/ cut = [g EXCEPT !.pools = p]
      BY <1>1 DEF LastPool, p
    <3>3. SameBut(h, [g EXCEPT !.pools = p]) /\ [g EXCEPT !.pools = p].capacity = h.capacity
      BY <1>1 DEF SameBut
    <3> HIDE DEF cut
    <3> QED BY <1>1, <3>1, <3>2, <3>3
  <2>6. k = cut \/ k = [cut EXCEPT !.capacity = L]
    BY <1>3 DEF shrinkToFit, g
  <2> HIDE DEF cut, k
  <2>7. k \in Heaps /\ SameBut(h, k) /\ k.pools = cut.pools /\ k.capacity \in {h.capacity, L}
    <3>1. [cut EXCEPT !.capacity = L] \in Heaps
      BY <1>1, <2>5 DEF Heaps
    <3>2. SameBut(h, [cut EXCEPT !.capacity = L]) /\ [cut EXCEPT !.capacity = L].pools = cut.pools
          /\ [cut EXCEPT !.capacity = L].capacity = L
      BY <2>5 DEF SameBut, Heaps
    <3> QED BY <2>5, <2>6, <3>1, <3>2
  <2>8. /\ Len(k.pools) = L
        /\ \A n \in 1..L : /\ k.pools[n].used = h.pools[n].used
                           /\ \/ k.pools[n].size = h.pools[n].size
                              \/ n = L /\ k.pools[n].size = last.used
    <3>1. \A n \in 1..L : n # L => p[n] = h.pools[n]
      BY <2>3
    <3>2. \A n \in 1..L : p[n].used = h.pools[n].used
                          /\ (p[n].size = h.pools[n].size \/ (n = L /\ p[n].size = last.used))
      BY <2>3
    <3> QED BY <2>3, <2>4, <2>7, <3>2
  <2>9. Given(k) = Given(h)
    <3>1. \A n \in 1..Len(h.pools) : k.pools[n].used = h.pools[n].used
      BY <2>8
    <3> QED BY <2>7, <2>8, <3>1, GivenStays
  <2>10. Counted(h) => Counted(k)
    <3> SUFFICES ASSUME Counted(h) PROVE Counted(k)
      OBVIOUS
    <3>1. DOMAIN h.pools = 1..L /\ DOMAIN k.pools = 1..L
      <4>1. k.pools \in Seq(Pools)
        BY <2>7, HeapParts
      <4> QED BY <1>1, <2>8, <4>1
    <3>2. \A n \in 1..L : /\ h.pools[n].used <= h.pools[n].size
                          /\ n = MaxPools => h.pools[n].size < PoolCapacity
      BY <3>1 DEF Counted
    <3>3. \A n \in 1..L : /\ k.pools[n].used <= k.pools[n].size
                          /\ n = MaxPools => k.pools[n].size < PoolCapacity
      <4> TAKE n \in 1..L
      <4>1. h.pools[n].used \in Nat /\ h.pools[n].size \in Nat /\ PoolCapacity \in Nat
        BY <2>1, Constants DEF Pools
      <4>2. CASE k.pools[n].size = h.pools[n].size
        BY <2>8, <3>2, <4>2
      <4>3. CASE n = L /\ k.pools[n].size = last.used
        <5>1. k.pools[n].size = h.pools[n].used /\ k.pools[n].used = h.pools[n].used
          BY <2>8, <4>3
        <5>2. n = MaxPools => h.pools[n].used < PoolCapacity
          BY <3>2, <4>1
        <5> QED BY <4>1, <5>1, <5>2
      <4> QED BY <2>8, <4>2, <4>3
    <3>4. L <= k.capacity
      BY <1>1, <2>7 DEF Counted
    <3>5. \A t \in Texts : k.refs[t] >= Cardinality(Strings(k, t))
      <4>1. k.refs = h.refs /\ k.cell = h.cell
        BY <2>7 DEF SameBut
      <4> QED BY <4>1, SameStrings DEF Counted
    <3>6. k.lost # {} => k.overflowed
      BY <2>7 DEF SameBut, Counted
    <3> QED BY <2>8, <3>1, <3>3, <3>4, <3>5, <3>6 DEF Counted
  <2> QED BY <2>7, <2>8, <2>9, <2>10 DEF k
<1> QED BY <1>2, <1>3

(***************************************************************************)
(* The calls on a document.                                                *)
(***************************************************************************)
\* Between two calls a heap is in order, and while its pools have numbers it
\* holds a tree.
Holds(h) ==
  /\ h \in Heaps /\ Counted(h)
  /\ Len(h.pools) <= MaxPools => \E g : Sound(h, g) /\ g.pending = {}

\* The tree of an empty document.
EmptyTree ==
  [nodes |-> {}, pending |-> {}, kids |-> [id \in Ids |-> <<>>], own |-> [id \in Ids |-> id],
   born |-> [id \in Ids |-> 0], clock |-> 1, out |-> {}]

LEMMA EmptyHeapOK ==
  /\ EmptyHeap \in Heaps /\ Counted(EmptyHeap) /\ Sound(EmptyHeap, EmptyTree) /\ EmptyTree.pending = {}
  /\ Root \in Live(EmptyTree) /\ EmptyHeap.cell[Root].type = "Null" /\ EmptyHeap.pools = <<>>
<1> DEFINE h == EmptyHeap
           g == EmptyTree
           cell == [id \in Ids |-> IF id = Root THEN NullVariant ELSE Vacant]
           refs == [t \in Texts |-> 0]
           none == [id \in Ids |-> <<>>]
           nought == [id \in Ids |-> 0]
           self == [id \in Ids |-> id]
<1>1. /\ h.pools = <<>> /\ h.capacity = InitialPools /\ h.preallocated = TRUE /\ h.free = <<>>
      /\ h.cell = cell /\ h.refs = refs /\ h.overflowed = FALSE /\ h.lost = {} /\ h.bad = {} /\ h.tries = 0
  BY DEF EmptyHeap
<1>2. /\ g.nodes = {} /\ g.pending = {} /\ g.kids = none /\ g.own = self /\ g.born = nought
      /\ g.clock = 1 /\ g.out = {}
  BY DEF EmptyTree
<1>3. cell \in [Ids -> Cells] /\ refs \in [Texts -> Int]
  BY CellTypes
<1>4. /\ \A id \in Ids : none[id] = <<>> /\ nought[id] = 0
      /\ \A id \in Ids : cell[id] \in {NullVariant, Vacant}
      /\ Root \in Ids /\ cell[Root] = NullVariant
      /\ \A t \in Texts : refs[t] = 0
  BY Constants
<1>5. g \in Ghosts
  <2>1. none \in [Ids -> Seq(Slots)] /\ self \in [Ids -> Ids] /\ nought \in [Ids -> Nat]
    BY <1>4
  <2>2. {} \in SUBSET Slots /\ {} \in SUBSET Ids /\ 1 \in Nat
    OBVIOUS
  <2> HIDE DEF none, self, nought
  <2> QED BY <2>1, <2>2 DEF Ghosts, EmptyTree, none, self, nought
<1>6. h \in Heaps
  <2>1. <<>> \in Seq(Pools) /\ <<>> \in Seq(Slots) /\ InitialPools \in Nat /\ {} \in SUBSET Slots
        /\ {} \in SUBSET Nat /\ 0 \in Nat
    BY Constants
  <2> HIDE DEF cell, refs
  <2> QED BY <1>3, <2>1 DEF Heaps, EmptyHeap, cell, refs
<1> HIDE DEF cell, refs, none, nought, self, h, g
<1>7. Live(g) = {Root} /\ Placed(g) = {}
  BY <1>2 DEF Live, Placed
<1>8. Forest(g)
  <2>1. \A p \in Live(g) : g.kids[p] = <<>> /\ g.born[p] = 0
    BY <1>2, <1>4, <1>7
  <2>2. \A p \in Live(g) : \A i \in 1..Len(g.kids[p]) : FALSE
    BY <2>1
  <2> QED BY <1>2, <1>5, <1>7, <2>1, <2>2 DEF Forest
<1>9. Shows(h, g)
  <2>1. ShowsAt(h, g, Root)
    <3>1. g.kids[Root] = <<>> /\ h.cell[Root] = NullVariant
      BY <1>1, <1>2, <1>4
    <3>2. \A i \in 1..Len(g.kids[Root]) : FALSE
      BY <3>1
    <3> QED BY <3>1, <3>2, CellTypes DEF ShowsAt, Below, First, VariantTypes, Collections
  <2>2. \A x \in Ids : h.cell[x].type \notin InPool
    BY <1>1, <1>4, CellTypes DEF InPool
  <2> QED BY <1>2, <1>7, <2>1, <2>2 DEF Shows
<1>10. Given(h) = {}
  <2>1. \A n \in DOMAIN h.pools : FALSE
    BY <1>1
  <2> QED BY <2>1 DEF Given
<1>11. Memory(h, g)
  BY <1>1, <1>2, <1>10, SetOfNone DEF Memory
<1>12. \A t \in Texts : Strings(h, t) = {} /\ Cardinality(Strings(h, t)) = 0 /\ h.refs[t] = 0
  <2> TAKE t \in Texts
  <2>1. Strings(h, t) = {}
    BY <1>1, <1>4, CellTypes DEF Strings, Holders, InPool
  <2> QED BY <1>1, <1>4, <2>1, FS_EmptySet
<1>13. Good(h, g)
  BY <1>6, <1>8, <1>9, <1>11, <1>12 DEF Good, Exact
<1>14. Counted(h)
  <2>1. Len(h.pools) = 0 /\ \A n \in DOMAIN h.pools : FALSE
    BY <1>1
  <2> QED BY <1>1, <1>12, <2>1, Constants DEF Counted
<1>15. Even(h, g)
  BY <1>1, <1>4, <1>7, CellTypes DEF Even
<1>16. Sound(h, g) /\ h.cell[Root].type = "Null"
  BY <1>1, <1>2, <1>4, <1>13, <1>14, <1>15, CellTypes DEF Sound
<1> QED BY <1>1, <1>2, <1>6, <1>7, <1>14, <1>16 DEF h, g

LEMMA EmptyHolds == Holds(EmptyHeap)
  BY EmptyHeapOK DEF Holds

\* The allocator in the next call.
Asks(h, bad, tries) == [h EXCEPT !.bad = bad, !.tries = tries]

LEMMA AsksSame ==
  ASSUME NEW h \in Heaps, NEW bad \in SUBSET Nat, NEW tries \in Nat
  PROVE  LET k == Asks(h, bad, tries)
         IN k \in Heaps /\ SameBut(h, k) /\ k.pools = h.pools /\ k.capacity = h.capacity
            /\ Grows(h, k)
<1> DEFINE k == Asks(h, bad, tries)
<1>1. k \in Heaps /\ SameBut(h, k) /\ k.pools = h.pools /\ k.capacity = h.capacity
  BY DEF Asks, Heaps, SameBut
<1> HIDE DEF k
<1>2. Grows(h, k)
  BY <1>1, SameHeap DEF SameBut
<1> QED BY <1>1, <1>2 DEF k

LEMMA AsksSound ==
  ASSUME NEW h, NEW g, Sound(h, g), NEW bad \in SUBSET Nat, NEW tries \in Nat
  PROVE  LET k == Asks(h, bad, tries)
         IN /\ Sound(k, g) /\ k \in Heaps /\ k.pools = h.pools /\ k.cell = h.cell
            /\ \A v \in Live(g) : Leads(h, g, k, g, v)
<1>1. h \in Heaps
  BY SoundParts
<1> DEFINE k == Asks(h, bad, tries)
<1>2. k \in Heaps /\ SameBut(h, k) /\ k.pools = h.pools /\ k.capacity = h.capacity /\ k.cell = h.cell
  BY <1>1, AsksSame DEF SameBut
<1> HIDE DEF k
<1>3. Sound(k, g) /\ \A v \in Live(g) : Leads(h, g, k, g, v)
  BY <1>2, SameSound
<1> QED BY <1>2, <1>3 DEF k

LEMMA AsksHolds ==
  ASSUME NEW h, Holds(h), NEW bad \in SUBSET Nat, NEW tries \in Nat
  PROVE  Holds(Asks(h, bad, tries))
<1> DEFINE k == Asks(h, bad, tries)
<1>1. k \in Heaps /\ Counted(k) /\ k.pools = h.pools
  BY AsksSame DEF Holds, Grows
<1>2. ASSUME Len(k.pools) <= MaxPools PROVE \E g : Sound(k, g) /\ g.pending = {}
  <2>1. PICK g : Sound(h, g) /\ g.pending = {}
    BY <1>1, <1>2 DEF Holds
  <2>2. Sound(k, g)
    BY <2>1, AsksSound
  <2> QED BY <2>1, <2>2
<1> QED BY <1>1, <1>2 DEF Holds

\* After a call the heap is in order again.
LEMMA LeadsHolds ==
  ASSUME NEW h, NEW g, Sound(h, g), g.pending = {}, NEW k, Grows(h, k),
         Len(k.pools) <= MaxPools => \E m, v : Leads(h, g, k, m, v)
  PROVE  Holds(k)
<1>1. k \in Heaps /\ Counted(k)
  BY SoundParts DEF Grows
<1>2. ASSUME Len(k.pools) <= MaxPools PROVE \E m : Sound(k, m) /\ m.pending = {}
  BY <1>2 DEF Leads
<1> QED BY <1>1, <1>2 DEF Holds

\* What a call may make of a heap.
Fine(h, g, k) == Grows(h, k) /\ (Len(k.pools) <= MaxPools => \E m, v : Leads(h, g, k, m, v))

\* Nothing is done.
LEMMA FineNot ==
  ASSUME NEW h, NEW g, Sound(h, g)
  PROVE  Fine(h, g, h)
<1>1. Root \in Live(g) /\ h \in Heaps
  BY SoundParts
<1> QED BY <1>1, LeadsNot, GrowsNot DEF Fine

\* clear().
LEMMA ClearFine ==
  ASSUME NEW h, NEW g, Sound(h, g), NEW v \in Live(g)
  PROVE  Fine(h, g, Clear(h, v))
<1>1. h \in Heaps /\ v \in Ids
  BY SoundParts
<1>2. \E m : Leads(h, g, Clear(h, v), m, v)
  BY ClearSound
<1>3. Grows(h, Clear(h, v))
  BY <1>1, ClearOK
<1> QED BY <1>2, <1>3 DEF Fine

\* to<JsonArray>() and to<JsonObject>().
LEMMA RetypedFine ==
  ASSUME NEW h, NEW g, Sound(h, g), NEW v \in Live(g), NEW type \in Collections
  PROVE  Fine(h, g, Typed(Clear(h, v), v, type))
<1>1. h \in Heaps /\ v \in Ids /\ type \in VariantTypes \ InPool
  BY SoundParts DEF Collections, VariantTypes, InPool
<1>2. \E m : Leads(h, g, Typed(Clear(h, v), v, type), m, v)
  BY <1>1, RetypedSound
<1>3. Grows(h, Clear(h, v)) /\ Clear(h, v) \in Heaps
  BY <1>1, ClearOK DEF Grows
<1>4. Grows(Clear(h, v), Typed(Clear(h, v), v, type))
  BY <1>1, <1>3, TypedGrows
<1>5. Grows(h, Typed(Clear(h, v), v, type))
  BY <1>1, <1>3, <1>4, GrowsOn
<1> QED BY <1>2, <1>5 DEF Fine

\* set() with a value.
LEMMA CopyFine ==
  ASSUME NEW h, NEW g, Sound(h, g), NEW v \in Live(g), NEW value \in Trees
  PROVE  Fine(h, g, Copy(h, v, value))
<1>1. h \in Heaps /\ v \in Ids
  BY SoundParts
<1>2. Grows(h, Copy(h, v, value))
  BY <1>1, CopyGrows
<1>3. Len(Copy(h, v, value).pools) <= MaxPools => \E m : Leads(h, g, Copy(h, v, value), m, v)
  BY CopySound
<1> QED BY <1>2, <1>3 DEF Fine

\* A null becomes a collection.
LEMMA AsCollectionOK ==
  ASSUME NEW h, NEW g, Sound(h, g), NEW v \in Live(g), NEW type \in Collections
  PROVE  LET k == AsCollection(h, v, type)
         IN Leads(h, g, k, g, v) /\ Fine(h, g, k) /\ k \in Heaps /\ Grows(h, k)
<1> DEFINE k == AsCollection(h, v, type)
<1>1. h \in Heaps /\ v \in Ids /\ type \in VariantTypes \ InPool
  BY SoundParts DEF Collections, VariantTypes, InPool
<1>2. Leads(h, g, k, g, v) /\ Grows(h, k)
  <2>1. CASE IsNull(h, v)
    <3>1. k = Typed(h, v, type) /\ h.cell[v].type = "Null"
      BY <2>1 DEF AsCollection, IsNull
    <3> QED BY <1>1, <3>1, TypedSound, TypedGrows
  <2>2. CASE ~IsNull(h, v)
    BY <1>1, <2>2, LeadsNot, GrowsNot DEF AsCollection
  <2> QED BY <2>1, <2>2
<1> HIDE DEF k
<1> QED BY <1>2 DEF Fine, Grows, k

\* A call that does one thing after the other.
LEMMA FineOn ==
  ASSUME NEW h, NEW g, NEW k, NEW m, NEW v, Sound(h, g), Leads(h, g, k, m, v), Grows(h, k), NEW l,
         Grows(k, l), Len(l.pools) <= MaxPools => \E n : Leads(k, m, l, n, v)
  PROVE  Fine(h, g, l)
<1>1. Grows(h, l)
  BY SoundParts, GrowsOn
<1>2. ASSUME Len(l.pools) <= MaxPools PROVE \E n, w : Leads(h, g, l, n, w)
  <2>1. PICK n : Leads(k, m, l, n, v)
    BY <1>2
  <2>2. Leads(h, g, l, n, v)
    BY <2>1, LeadsOn
  <2> QED BY <2>2
<1> QED BY <1>1, <1>2 DEF Fine

\* add(value), of an array or of a null that becomes one.
LEMMA AddedFine ==
  ASSUME NEW h, NEW g, Sound(h, g), NEW v \in Live(g), NEW value \in Trees
  PROVE  LET k == AsCollection(h, v, "Array")
         IN Fine(h, g, IF k.cell[v].type = "Array" THEN addValue(k, v, value).heap ELSE k)
<1> DEFINE k == AsCollection(h, v, "Array")
           l == addValue(k, v, value)
<1>1. "Array" \in Collections /\ v \in Ids
  BY SoundParts DEF Collections
<1>2. Leads(h, g, k, g, v) /\ Fine(h, g, k) /\ k \in Heaps /\ Grows(h, k)
  BY <1>1, AsCollectionOK
<1> HIDE DEF k
<1>3. Sound(k, g)
  BY <1>2 DEF Leads
<1>4. ASSUME k.cell[v].type = "Array" PROVE Fine(h, g, l.heap)
  <2>1. Grows(k, l.heap)
    BY <1>1, <1>2, addValueGrows DEF Sane
  <2>2. Len(l.heap.pools) <= MaxPools => \E m : Leads(k, g, l.heap, m, v)
    BY <1>3, <1>4, addValueSound DEF Gives
  <2> HIDE DEF l
  <2> QED BY <1>2, <2>1, <2>2, FineOn
<1> QED BY <1>2, <1>4 DEF k

\* add(), likewise.
LEMMA AddedElementFine ==
  ASSUME NEW h, NEW g, Sound(h, g), NEW v \in Live(g)
  PROVE  LET k == AsCollection(h, v, "Array")
         IN Fine(h, g, IF k.cell[v].type = "Array" THEN addElement(k, v).heap ELSE k)
<1> DEFINE k == AsCollection(h, v, "Array")
           n == addElement(k, v)
<1>1. "Array" \in Collections /\ v \in Ids
  BY SoundParts DEF Collections
<1>2. Leads(h, g, k, g, v) /\ Fine(h, g, k) /\ k \in Heaps /\ Grows(h, k)
  BY <1>1, AsCollectionOK
<1> HIDE DEF k
<1>3. Sound(k, g)
  BY <1>2 DEF Leads
<1>4. ASSUME k.cell[v].type = "Array" PROVE Fine(h, g, n.heap)
  <2>1. Grows(k, n.heap)
    BY <1>1, <1>2, addElementGrows
  <2>2. Len(n.heap.pools) <= MaxPools => \E m : Leads(k, g, n.heap, m, v)
    BY <1>3, <1>4, addElementSound DEF Gives
  <2> HIDE DEF n
  <2> QED BY <1>2, <2>1, <2>2, FineOn
<1> QED BY <1>2, <1>4 DEF k

\* What a proxy has found, or made, is set.
FoundSet(r, value) == IF r.id = NullSlot THEN r.heap ELSE Copy(r.heap, r.id, value)

LEMMA FoundFine ==
  ASSUME NEW h, NEW g, Sound(h, g), NEW v \in Live(g), NEW value \in Trees, NEW r,
         Grows(h, r.heap), r.id \in Links,
         Len(r.heap.pools) <= MaxPools => \E m : Gives(h, g, r, m, v)
  PROVE  Fine(h, g, FoundSet(r, value))
<1>1. h \in Heaps /\ r.heap \in Heaps
  BY SoundParts DEF Grows
<1>2. CASE r.id = NullSlot
  BY <1>2 DEF FoundSet, Fine, Gives
<1>3. CASE r.id # NullSlot
  <2> DEFINE k == Copy(r.heap, r.id, value)
  <2>1. FoundSet(r, value) = k
    BY <1>3 DEF FoundSet
  <2>2. r.id \in Ids
    BY <1>3, Constants
  <2>3. Grows(r.heap, k)
    BY <1>1, <2>2, CopyGrows
  <2>4. Grows(h, k)
    BY <1>1, <2>3, GrowsOn
  <2>5. ASSUME Len(k.pools) <= MaxPools PROVE \E m, w : Leads(h, g, k, m, w)
    <3>1. Len(r.heap.pools) <= MaxPools
      BY <1>1, <2>3, <2>5, FewerPools
    <3>2. PICK m : Gives(h, g, r, m, v)
      BY <3>1
    <3>3. /\ Leads(h, g, r.heap, m, v) /\ Sound(r.heap, m) /\ v \in Live(m) /\ r.id \in Live(m)
          /\ m.born[v] < m.born[r.id]
      BY <1>3, <3>2 DEF Gives, Leads
    <3>4. PICK n : Leads(r.heap, m, k, n, r.id)
      BY <2>5, <3>3, CopySound
    <3> HIDE DEF k
    <3>5. Leads(r.heap, m, k, n, v)
      BY <3>3, <3>4, LeadsUp
    <3>6. Leads(h, g, k, n, v)
      BY <3>3, <3>5, LeadsOn
    <3> QED BY <3>6
  <2> QED BY <2>1, <2>4, <2>5 DEF Fine
<1> QED BY <1>2, <1>3

LEMMA FineHolds ==
  ASSUME NEW h, NEW g, Sound(h, g), g.pending = {}, NEW k, Fine(h, g, k)
  PROVE  Holds(k)
  BY LeadsHolds DEF Fine

\* array[index] = value and object[key] = value.
LEMMA SetElementHolds ==
  ASSUME NEW h, NEW g, Sound(h, g), g.pending = {}, NEW v \in Live(g), NEW value \in Trees,
         NEW index \in Nat
  PROVE  LET k == AsCollection(h, v, "Array")
         IN Holds(FoundSet(IF k.cell[v].type = "Array" THEN getOrAddElement(k, v, index)
                           ELSE [heap |-> k, id |-> NullSlot], value))
<1> DEFINE k == AsCollection(h, v, "Array")
           r == getOrAddElement(k, v, index)
           none == [heap |-> k, id |-> NullSlot]
<1>1. "Array" \in Collections /\ v \in Ids
  BY SoundParts DEF Collections
<1>2. Leads(h, g, k, g, v) /\ Fine(h, g, k) /\ k \in Heaps
  BY <1>1, AsCollectionOK
<1> HIDE DEF k
<1>3. Sound(k, g)
  BY <1>2 DEF Leads
<1>4. ASSUME k.cell[v].type = "Array" PROVE Holds(FoundSet(r, value))
  <2>1. Grows(k, r.heap) /\ r.id \in Links
    BY <1>1, <1>2, getOrAddElementGrows
  <2>2. Len(r.heap.pools) <= MaxPools => \E m : Gives(k, g, r, m, v)
    BY <1>3, <1>4, getOrAddElementSound
  <2> HIDE DEF r
  <2>3. Fine(k, g, FoundSet(r, value))
    BY <1>3, <2>1, <2>2, FoundFine
  <2> QED BY <1>3, <2>3, FineHolds
<1>5. Holds(FoundSet(none, value))
  <2>1. FoundSet(none, value) = k
    BY DEF FoundSet
  <2> QED BY <1>2, <2>1, FineHolds
<1> QED BY <1>4, <1>5 DEF k

LEMMA SetMemberHolds ==
  ASSUME NEW h, NEW g, Sound(h, g), g.pending = {}, NEW v \in Live(g), NEW value \in Trees,
         NEW key \in Texts \cup TinyTexts
  PROVE  LET k == AsCollection(h, v, "Object")
         IN Holds(FoundSet(IF k.cell[v].type = "Object" THEN getOrAddMember(k, v, key)
                           ELSE [heap |-> k, id |-> NullSlot], value))
<1> DEFINE k == AsCollection(h, v, "Object")
           r == getOrAddMember(k, v, key)
           none == [heap |-> k, id |-> NullSlot]
<1>1. "Object" \in Collections /\ v \in Ids
  BY SoundParts DEF Collections
<1>2. Leads(h, g, k, g, v) /\ Fine(h, g, k) /\ k \in Heaps
  BY <1>1, AsCollectionOK
<1> HIDE DEF k
<1>3. Sound(k, g)
  BY <1>2 DEF Leads
<1>4. ASSUME k.cell[v].type = "Object" PROVE Holds(FoundSet(r, value))
  <2>1. Grows(k, r.heap) /\ r.id \in Links
    BY <1>1, <1>2, getOrAddMemberGrows DEF Sane
  <2>2. Len(r.heap.pools) <= MaxPools => \E m : Gives(k, g, r, m, v)
    BY <1>3, <1>4, getOrAddMemberSound
  <2> HIDE DEF r
  <2>3. Fine(k, g, FoundSet(r, value))
    BY <1>3, <2>1, <2>2, FoundFine
  <2> QED BY <1>3, <2>3, FineHolds
<1>5. Holds(FoundSet(none, value))
  <2>1. FoundSet(none, value) = k
    BY DEF FoundSet
  <2> QED BY <1>2, <2>1, FineHolds
<1> QED BY <1>4, <1>5 DEF k

-----------------------------------------------------------------------------
\* After a removal the objects still have a value for each key.
LEMMA TrimmedHolds ==
  ASSUME NEW h, NEW g, Sound(h, g), g.pending = {}, NEW c \in Live(g), NEW l, NEW m, Grows(h, l),
         Good(l, m), m.pending = g.pending, m.out = {}, Trimmed(h, g, l, m, c),
         h.cell[c].type = "Object" => Len(m.kids[c]) % 2 = 0
  PROVE  Holds(l)
<1>1. Counted(l) /\ l \in Heaps
  BY SoundParts DEF Grows
<1>2. ASSUME NEW p \in Live(m), l.cell[p].type = "Object" PROVE Len(m.kids[p]) % 2 = 0
  <2>1. p \in Live(g) /\ h.cell[p].type = "Object" /\ (p # c => m.kids[p] = g.kids[p])
    BY <1>2 DEF Trimmed
  <2>2. Len(g.kids[p]) % 2 = 0
    BY <2>1 DEF Sound, Even
  <2>3. CASE p = c
    BY <2>1, <2>3
  <2>4. CASE p # c
    BY <2>1, <2>2, <2>4
  <2> QED BY <2>3, <2>4
<1>3. Sound(l, m)
  BY <1>1, <1>2 DEF Sound, Even
<1> QED BY <1>1, <1>3 DEF Holds

\* remove(index).
LEMMA RemoveElementHolds ==
  ASSUME NEW h, NEW g, Sound(h, g), g.pending = {}, NEW v \in Live(g), h.cell[v].type = "Array",
         NEW index \in Nat, index < Len(Elements(h, v))
  PROVE  Holds(removeOne(h, v, Elements(h, v)[index + 1]))
<1>1. Good(h, g) /\ h \in Heaps /\ Forest(g) /\ Shows(h, g) /\ g.out = {}
  BY SoundParts DEF Good
<1>2. Elements(h, v) = g.kids[v]
  BY <1>1, ChildrenOK DEF Elements, Collections
<1> DEFINE i == index + 1
           l == removeOne(h, v, g.kids[v][i])
<1>3. i \in 1..Len(g.kids[v])
  <2>1. Len(g.kids[v]) \in Nat
    BY <1>1, KidsPlaced
  <2> QED BY <1>2, <2>1
<1> HIDE DEF i
<1>4. h.cell[v].type \in Collections
  BY DEF Collections
<1>5. /\ Grows(h, l)
      /\ \E m : /\ Good(l, m) /\ m.pending = g.pending /\ m.out = {}
                /\ Trimmed(h, g, l, m, v)
  BY <1>1, <1>3, <1>4, removeOneOK
<1> HIDE DEF l
<1>6. Holds(l)
  BY <1>5, TrimmedHolds
<1> QED BY <1>2, <1>6 DEF l, i

\* remove(key).
LEMMA RemoveMemberHolds ==
  ASSUME NEW h, NEW g, Sound(h, g), g.pending = {}, NEW v \in Live(g), h.cell[v].type = "Object",
         NEW key, findKey(h, v, key) # NullSlot
  PROVE  Holds(removePair(h, v, findKey(h, v, key)))
<1>1. Good(h, g) /\ h \in Heaps /\ Forest(g) /\ g.out = {}
  BY SoundParts
<1>2. PICK i \in 1..Len(g.kids[v]) : i + 1 \in 1..Len(g.kids[v]) /\ findKey(h, v, key) = g.kids[v][i]
  BY findKeyOK
<1> DEFINE l == removePair(h, v, g.kids[v][i])
<1>3. h.cell[v].type \in Collections
  BY DEF Collections
<1>4. /\ Grows(h, l)
      /\ \E m : /\ Good(l, m) /\ m.pending = g.pending /\ m.out = {}
                /\ Len(m.kids[v]) = Len(g.kids[v]) - 2
                /\ Trimmed(h, g, l, m, v)
  BY <1>1, <1>2, <1>3, removePairOK
<1>5. Len(g.kids[v]) \in Nat /\ Len(g.kids[v]) % 2 = 0
  <2>1. Len(g.kids[v]) \in Nat
    BY <1>1, KidsPlaced
  <2> QED BY <2>1 DEF Sound, Even
<1> HIDE DEF l
<1>6. PICK m : /\ Good(l, m) /\ m.pending = g.pending /\ m.out = {}
               /\ Len(m.kids[v]) = Len(g.kids[v]) - 2
               /\ Trimmed(h, g, l, m, v)
  BY <1>4
<1>7. Len(m.kids[v]) % 2 = 0
  <2> DEFINE n == Len(g.kids[v])
             j == Len(m.kids[v])
  <2>1. n \in Nat /\ n % 2 = 0 /\ j = n - 2
    BY <1>5, <1>6
  <2> HIDE DEF n, j
  <2> QED BY ONLY <2>1 DEF j
<1>8. Holds(l)
  BY <1>4, <1>6, <1>7, TrimmedHolds
<1> QED BY <1>2, <1>8 DEF l

LEMMA ShrunkHolds ==
  ASSUME NEW h, Holds(h)
  PROVE  Holds(shrinkToFit(h))
<1> DEFINE k == shrinkToFit(h)
<1>1. h \in Heaps /\ Counted(h)
  BY DEF Holds
<1>2. /\ k \in Heaps /\ Len(k.pools) = Len(h.pools) /\ Counted(k)
      /\ SameBut(h, k) /\ Given(k) = Given(h)
  BY <1>1, shrinkToFitOK
<1> HIDE DEF k
<1>3. ASSUME Len(k.pools) <= MaxPools PROVE \E g : Sound(k, g) /\ g.pending = {}
  <2>1. PICK g : Sound(h, g) /\ g.pending = {}
    BY <1>2, <1>3 DEF Holds
  <2>2. Good(h, g) /\ Even(h, g) /\ g.out = {}
    BY <2>1, SoundParts
  <2>3. Good(k, g)
    BY <1>1, <1>2, <2>2, SameGood DEF SameBut
  <2>4. Even(k, g)
    BY <1>2, <2>2 DEF Even, SameBut
  <2> QED BY <1>2, <2>1, <2>2, <2>3, <2>4 DEF Sound
<1>4. Holds(k)
  BY <1>2, <1>3 DEF Holds
<1> QED BY <1>4 DEF k

\* The variants that can be reached are in the tree.
LEMMA VariantsLive ==
  ASSUME NEW h, NEW g, Sound(h, g), g.pending = {}, NEW v \in Variants(h)
  PROVE  v \in Live(g)
<1>1. Good(h, g) /\ h \in Heaps /\ Forest(g) /\ Shows(h, g)
  BY SoundParts DEF Good
<1>2. Reached(h) = g.nodes
  BY <1>1, Reaches DEF Reached
<1> QED BY <1>2 DEF Variants, Live

-----------------------------------------------------------------------------
(***************************************************************************)
(* The calls of DocNext, one after the other.                              *)
(***************************************************************************)

\* A call starts with a heap in order, in which the allocator refuses some
\* requests, and a reference to a variant.
LEMMA CallBegins ==
  ASSUME Holds(heap), PoolsNumbered, NEW v \in Variants(heap), NEW bad \in SUBSET Nat
  PROVE  \E g : /\ Sound(heap, g) /\ g.pending = {} /\ v \in Live(g)
                /\ Sound(Refusing(bad), g) /\ Refusing(bad).cell = heap.cell
<1>1. heap \in Heaps /\ heap.tries \in Nat
  BY HeapParts DEF Holds
<1>2. PICK g : Sound(heap, g) /\ g.pending = {}
  BY DEF Holds, PoolsNumbered
<1>3. Refusing(bad) = Asks(heap, bad, heap.tries)
  BY <1>1 DEF Refusing, Asks, Heaps
<1>4. Sound(Refusing(bad), g) /\ Refusing(bad).cell = heap.cell
  BY <1>1, <1>2, <1>3, AsksSound
<1> QED BY <1>2, <1>4, VariantsLive

LEMMA RefusingHolds ==
  ASSUME Holds(heap), NEW bad \in SUBSET Nat
  PROVE  Holds(Refusing(bad))
<1>1. heap \in Heaps /\ heap.tries \in Nat
  BY HeapParts DEF Holds
<1>2. Refusing(bad) = Asks(heap, bad, heap.tries)
  BY <1>1 DEF Refusing, Asks, Heaps
<1> QED BY <1>1, <1>2, AsksHolds

LEMMA LeavesHolds ==
  ASSUME NEW k, Holds(k), Leaves(k)
  PROVE  Holds(heap')
<1>1. heap' = Asks(k, {}, 0)
  BY DEF Leaves, Asks
<1>2. Holds(Asks(k, {}, 0))
  BY AsksHolds
<1> QED BY <1>1, <1>2

\* A document that is cleared: no more is asked of its heap than of an empty one.
LEMMA ClearedHolds ==
  ASSUME NEW h, Holds(h)
  PROVE  LET k == clearAll(h)
         IN /\ Holds(k) /\ Sound(k, EmptyTree) /\ k.cell = EmptyHeap.cell
            /\ k.pools = <<>> /\ EmptyTree.pending = {} /\ Root \in Live(EmptyTree)
<1>1. h \in Heaps /\ h.bad \in SUBSET Nat /\ h.tries \in Nat
  BY HeapParts DEF Holds
<1>2. clearAll(h) = Asks(EmptyHeap, h.bad, h.tries)
  BY DEF clearAll, Asks
<1>3. Holds(Asks(EmptyHeap, h.bad, h.tries))
  BY <1>1, EmptyHolds, AsksHolds
<1>4. /\ Sound(Asks(EmptyHeap, h.bad, h.tries), EmptyTree)
      /\ Asks(EmptyHeap, h.bad, h.tries).cell = EmptyHeap.cell
      /\ Asks(EmptyHeap, h.bad, h.tries).pools = EmptyHeap.pools
  BY <1>1, EmptyHeapOK, AsksSound
<1> QED BY <1>2, <1>3, <1>4, EmptyHeapOK

-----------------------------------------------------------------------------
\* A value is set to the whole document.
LEMMA SetDocumentHolds ==
  ASSUME Holds(heap), NEW bad \in Refusals, NEW value \in Values, SetDocument(bad, value)
  PROVE  Holds(heap')
<1>1. bad \in SUBSET Nat /\ value \in Trees
  BY ValueAssumption DEF Refusals
<1> DEFINE h == clearAll(Refusing(bad))
           k == Copy(h, Root, value)
<1>2. /\ Sound(h, EmptyTree) /\ EmptyTree.pending = {} /\ Root \in Live(EmptyTree)
  BY <1>1, RefusingHolds, ClearedHolds
<1> HIDE DEF h
<1>3. Holds(k)
  BY <1>1, <1>2, CopyFine, FineHolds
<1>4. Leaves(k)
  BY DEF SetDocument, h
<1> HIDE DEF k
<1> QED BY <1>3, <1>4, LeavesHolds

\* Calls through a reference.
LEMMA VariantCallHolds ==
  ASSUME Holds(heap), NEW v \in References, NEW bad \in Refusals, NEW value \in Values,
         SetVariant(bad, v, value) \/ AddValue(bad, v, value)
  PROVE  Holds(heap')
<1>1. bad \in SUBSET Nat /\ value \in Trees /\ v \in Variants(heap) /\ PoolsNumbered
  BY ValueAssumption DEF Refusals, References, SetVariant, AddValue, CallStarts, Counts
<1> DEFINE h == Refusing(bad)
           k == AsCollection(h, v, "Array")
           c == Copy(h, v, value)
           a == IF k.cell[v].type = "Array" THEN addValue(k, v, value).heap ELSE k
<1>2. PICK g : Sound(h, g) /\ g.pending = {} /\ v \in Live(g)
  BY <1>1, CallBegins
<1>3. Leaves(c) \/ Leaves(a)
  BY DEF SetVariant, AddValue
<1> HIDE DEF h
<1>4. Holds(c)
  BY <1>1, <1>2, CopyFine, FineHolds
<1>5. Fine(h, g, a)
  BY <1>1, <1>2, AddedFine
<1> HIDE DEF k, c, a
<1>6. Holds(a)
  BY <1>2, <1>5, FineHolds
<1> QED BY <1>3, <1>4, <1>6, LeavesHolds

LEMMA AddElementHolds ==
  ASSUME Holds(heap), NEW v \in References, NEW bad \in Refusals, AddElement(bad, v)
  PROVE  Holds(heap')
<1>1. bad \in SUBSET Nat /\ v \in Variants(heap) /\ PoolsNumbered
  BY DEF Refusals, References, AddElement, CallStarts, Counts
<1> DEFINE h == Refusing(bad)
           k == AsCollection(h, v, "Array")
           e == IF k.cell[v].type = "Array" THEN addElement(k, v).heap ELSE k
<1>2. PICK g : Sound(h, g) /\ g.pending = {} /\ v \in Live(g)
  BY <1>1, CallBegins
<1>3. Leaves(e)
  BY DEF AddElement
<1> HIDE DEF h
<1>4. Fine(h, g, e)
  BY <1>2, AddedElementFine
<1> HIDE DEF k, e
<1>5. Holds(e)
  BY <1>2, <1>4, FineHolds
<1> QED BY <1>3, <1>5, LeavesHolds

\* Calls through array[index] and object[key].
LEMMA ProxyCallHolds ==
  ASSUME Holds(heap), NEW v \in References, NEW bad \in Refusals, NEW value \in Values,
         \/ \E index \in 0..MaxIndex : SetElement(bad, v, index, value)
         \/ \E key \in Texts \cup TinyTexts : SetMember(bad, v, key, value)
  PROVE  Holds(heap')
<1>1. bad \in SUBSET Nat /\ value \in Trees /\ v \in Variants(heap) /\ PoolsNumbered
  BY ValueAssumption DEF Refusals, References, SetElement, SetMember, CallStarts, Counts
<1> DEFINE h == Refusing(bad)
<1>2. PICK g : Sound(h, g) /\ g.pending = {} /\ v \in Live(g)
  BY <1>1, CallBegins
<1>3. ASSUME NEW index \in 0..MaxIndex, SetElement(bad, v, index, value) PROVE Holds(heap')
  <2> DEFINE k == AsCollection(h, v, "Array")
             r == IF k.cell[v].type = "Array" THEN getOrAddElement(k, v, index)
                  ELSE [heap |-> k, id |-> NullSlot]
             f == FoundSet(r, value)
  <2>1. Leaves(f)
    BY <1>3 DEF SetElement, SetFound, FoundSet
  <2>2. index \in Nat
    OBVIOUS
  <2> HIDE DEF h
  <2>3. Holds(f)
    BY <1>1, <1>2, <2>2, SetElementHolds
  <2> HIDE DEF f
  <2> QED BY <2>1, <2>3, LeavesHolds
<1>4. ASSUME NEW key \in Texts \cup TinyTexts, SetMember(bad, v, key, value) PROVE Holds(heap')
  <2> DEFINE k == AsCollection(h, v, "Object")
             r == IF k.cell[v].type = "Object" THEN getOrAddMember(k, v, key)
                  ELSE [heap |-> k, id |-> NullSlot]
             f == FoundSet(r, value)
  <2>1. Leaves(f)
    BY <1>4 DEF SetMember, SetFound, FoundSet
  <2> HIDE DEF h
  <2>3. Holds(f)
    BY <1>1, <1>2, SetMemberHolds
  <2> HIDE DEF f
  <2> QED BY <2>1, <2>3, LeavesHolds
<1> QED BY <1>3, <1>4

\* Calls that ask for no memory.
LEMMA ClearingCallHolds ==
  ASSUME Holds(heap), NEW v \in References,
         \/ ClearVariant(v) \/ ToArray(v) \/ ToObject(v)
         \/ \E index \in 0..MaxIndex : RemoveElement(v, index)
         \/ \E key \in Texts \cup TinyTexts : RemoveMember(v, key)
  PROVE  Holds(heap')
<1>1. v \in Variants(heap) /\ PoolsNumbered /\ {} \in SUBSET Nat
  BY DEF References, ClearVariant, ToArray, ToObject, RemoveElement, RemoveMember, CallStarts, Counts
<1>2. PICK g : Sound(heap, g) /\ g.pending = {} /\ v \in Live(g)
  BY <1>1, CallBegins
<1>3. CASE ClearVariant(v)
  <2>1. Leaves(Clear(heap, v)) /\ Holds(Clear(heap, v))
    BY <1>2, <1>3, ClearFine, FineHolds DEF ClearVariant
  <2> QED BY <2>1, LeavesHolds
<1>4. CASE ToArray(v)
  <2>1. Leaves(Typed(Clear(heap, v), v, "Array"))
    BY <1>4 DEF ToArray, toArray
  <2>2. Holds(Typed(Clear(heap, v), v, "Array"))
    BY <1>2, RetypedFine, FineHolds DEF Collections
  <2> QED BY <2>1, <2>2, LeavesHolds
<1>5. CASE ToObject(v)
  <2>1. Leaves(Typed(Clear(heap, v), v, "Object"))
    BY <1>5 DEF ToObject, toObject
  <2>2. Holds(Typed(Clear(heap, v), v, "Object"))
    BY <1>2, RetypedFine, FineHolds DEF Collections
  <2> QED BY <2>1, <2>2, LeavesHolds
<1>6. ASSUME NEW index \in 0..MaxIndex, RemoveElement(v, index) PROVE Holds(heap')
  <2> DEFINE k == removeOne(heap, v, Elements(heap, v)[index + 1])
  <2>1. /\ Leaves(k) /\ heap.cell[v].type = "Array" /\ index < Len(Elements(heap, v))
        /\ index \in Nat
    BY <1>6 DEF RemoveElement
  <2>2. Holds(k)
    BY <1>2, <2>1, RemoveElementHolds
  <2> HIDE DEF k
  <2> QED BY <2>1, <2>2, LeavesHolds
<1>7. ASSUME NEW key \in Texts \cup TinyTexts, RemoveMember(v, key) PROVE Holds(heap')
  <2> DEFINE k == removePair(heap, v, findKey(heap, v, key))
  <2>1. /\ Leaves(k) /\ heap.cell[v].type = "Object" /\ findKey(heap, v, key) # NullSlot
    BY <1>7 DEF RemoveMember
  <2>2. Holds(k)
    BY <1>2, <2>1, RemoveMemberHolds
  <2> HIDE DEF k
  <2> QED BY <2>1, <2>2, LeavesHolds
<1> QED BY <1>3, <1>4, <1>5, <1>6, <1>7

\* Every call leaves a heap in order; none is made while a reader is at work.
LEMMA DocStep ==
  ASSUME Holds(heap), DocNext
  PROVE  Holds(heap') /\ reader' = reader /\ reader.at = "idle"
<1>1. reader' = reader /\ reader.at = "idle"
  <2>1. CallStarts \/ ClearDocument
    BY DEF DocNext, ShrinkToFit, SetDocument, ClearVariant, ToArray, ToObject,
           RemoveElement, RemoveMember, AddElement, SetVariant, AddValue, SetElement, SetMember
  <2> QED BY <2>1 DEF CallStarts, Counts, ClearDocument
<1>2. CASE ClearDocument
  BY <1>2, EmptyHolds DEF ClearDocument
<1>3. ASSUME NEW bad \in RefusalOfFirst, ShrinkToFit(bad) PROVE Holds(heap')
  <2>1. Leaves(shrinkToFit(Refusing(bad))) /\ bad \in SUBSET Nat
    BY <1>3 DEF ShrinkToFit, RefusalOfFirst
  <2>2. Holds(shrinkToFit(Refusing(bad)))
    BY <2>1, RefusingHolds, ShrunkHolds
  <2> QED BY <2>1, <2>2, LeavesHolds
<1>4. ASSUME NEW bad \in Refusals, NEW value \in Values, SetDocument(bad, value) PROVE Holds(heap')
  BY <1>4, SetDocumentHolds
<1>5. ASSUME NEW v \in References, NEW bad \in Refusals, AddElement(bad, v) PROVE Holds(heap')
  BY <1>5, AddElementHolds
<1>6. ASSUME NEW v \in References, NEW bad \in Refusals, NEW value \in Values,
             \/ SetVariant(bad, v, value) \/ AddValue(bad, v, value)
             \/ \E index \in 0..MaxIndex : SetElement(bad, v, index, value)
             \/ \E key \in Texts \cup TinyTexts : SetMember(bad, v, key, value)
      PROVE Holds(heap')
  BY <1>6, VariantCallHolds, ProxyCallHolds
<1>7. ASSUME NEW v \in References,
             \/ ClearVariant(v) \/ ToArray(v) \/ ToObject(v)
             \/ \E index \in 0..MaxIndex : RemoveElement(v, index)
             \/ \E key \in Texts \cup TinyTexts : RemoveMember(v, key)
      PROVE Holds(heap')
  BY <1>7, ClearingCallHolds
<1> QED BY <1>1, <1>2, <1>3, <1>4, <1>5, <1>6, <1>7 DEF DocNext

(***************************************************************************)
(* A reader at work.  The collections on its stack are in the tree, one    *)
(* given out later than the other.                                         *)
(***************************************************************************)
Pinned(h, g, s) ==
  \A i \in 1..Len(s) : s[i].node # NullSlot =>
    /\ s[i].node \in Live(g) /\ h.cell[s[i].node].type = s[i].type
    /\ \A j \in 1..Len(s) : i < j /\ s[j].node # NullSlot => g.born[s[i].node] < g.born[s[j].node]
\* The slot v was given out later than they.
Above(g, s, v) == \A i \in 1..Len(s) : s[i].node # NullSlot => g.born[s[i].node] < g.born[v]

LEMMA PinnedSame ==
  ASSUME NEW h, NEW g, NEW s, Pinned(h, g, s), NEW k, k.cell = h.cell
  PROVE  Pinned(k, g, s)
  BY DEF Pinned

\* The stack's filters and counts are no part of it.
LEMMA SameFrames ==
  ASSUME NEW h, NEW g, NEW s, NEW t, Len(t) = Len(s),
         \A i \in 1..Len(s) : t[i].node = s[i].node /\ t[i].type = s[i].type
  PROVE  /\ Pinned(h, g, s) => Pinned(h, g, t)
         /\ \A v : Above(g, s, v) => Above(g, t, v)
  BY DEF Pinned, Above

\* What is done to a later slot leaves them alone.
LEMMA PinnedStays ==
  ASSUME NEW h, NEW g, NEW s, Pinned(h, g, s), NEW k, NEW m, NEW v, Leads(h, g, k, m, v), Above(g, s, v)
  PROVE  Pinned(k, m, s) /\ Above(m, s, v)
<1>1. \A i \in 1..Len(s) : s[i].node # NullSlot =>
        /\ s[i].node \in Live(m) /\ m.born[s[i].node] = g.born[s[i].node]
        /\ k.cell[s[i].node].type = h.cell[s[i].node].type
  BY DEF Pinned, Above, Leads, Kept
<1>2. m.born[v] = g.born[v]
  BY DEF Leads
<1> QED BY <1>1, <1>2 DEF Pinned, Above

\* What is done to the last one of them, too.
LEMMA PinnedAtTop ==
  ASSUME NEW h, NEW g, Sound(h, g), NEW S, NEW s \in Seq(S), s # <<>>, Pinned(h, g, s), NEW k, NEW m,
         s[Len(s)].node # NullSlot, Leads(h, g, k, m, s[Len(s)].node),
         k.cell[s[Len(s)].node].type = h.cell[s[Len(s)].node].type
  PROVE  /\ Pinned(k, m, s)
         /\ \A v \in Live(m) : m.born[s[Len(s)].node] < m.born[v] => Above(m, s, v)
<1> DEFINE c == s[Len(s)].node
           n == Len(s)
<1>1. n \in Nat /\ n \in 1..n
  <2>1. Len(s) \in Nat /\ Len(s) # 0
    BY SetOf
  <2> QED BY <2>1
<1>2. c \in Live(g) /\ k.cell[c].type = h.cell[c].type /\ Leads(h, g, k, m, c)
  BY <1>1 DEF Pinned
<1>3. c \in Live(m) /\ m.born[c] = g.born[c] /\ Kept(h, g, k, m, g.born[c]) /\ Sound(k, m)
  BY <1>2 DEF Leads
<1>4. \A i \in 1..n : s[i].node # NullSlot =>
        /\ s[i].node \in Live(m) /\ m.born[s[i].node] = g.born[s[i].node]
        /\ k.cell[s[i].node].type = h.cell[s[i].node].type
        /\ s[i].node = c \/ m.born[s[i].node] < m.born[c]
  <2> SUFFICES ASSUME NEW i \in 1..n, s[i].node # NullSlot
               PROVE  /\ s[i].node \in Live(m) /\ m.born[s[i].node] = g.born[s[i].node]
                      /\ k.cell[s[i].node].type = h.cell[s[i].node].type
                      /\ s[i].node = c \/ m.born[s[i].node] < m.born[c]
    OBVIOUS
  <2>1. CASE i = n
    BY <1>2, <1>3, <2>1
  <2>2. CASE i # n
    <3>1. i < n
      BY <1>1, <2>2
    <3>2. g.born[s[i].node] < g.born[c] /\ s[i].node \in Live(g)
      BY <1>1, <3>1 DEF Pinned
    <3> QED BY <1>3, <3>2 DEF Kept
  <2> QED BY <2>1, <2>2
<1>5. Pinned(k, m, s)
  BY <1>4 DEF Pinned
<1>6. \A x \in Live(m) : m.born[x] \in Nat
  BY <1>3, SoundParts
<1>7. ASSUME NEW v \in Live(m), m.born[c] < m.born[v] PROVE Above(m, s, v)
  <2> SUFFICES ASSUME NEW i \in 1..Len(s), s[i].node # NullSlot
               PROVE  m.born[s[i].node] < m.born[v]
    BY DEF Above
  <2>1. s[i].node = c \/ m.born[s[i].node] < m.born[c]
    BY <1>4
  <2>2. m.born[s[i].node] \in Nat /\ m.born[c] \in Nat /\ m.born[v] \in Nat
    BY <1>3, <1>4, <1>6
  <2>3. CASE s[i].node = c
    BY <1>7, <2>3
  <2>4. CASE m.born[s[i].node] < m.born[c]
    <3> DEFINE x == m.born[s[i].node]
               y == m.born[c]
               z == m.born[v]
    <3>1. x \in Nat /\ y \in Nat /\ z \in Nat /\ x < y /\ y < z
      BY <1>7, <2>2, <2>4
    <3> HIDE DEF x, y, z
    <3>2. x < z
      BY ONLY <3>1
    <3> QED BY <3>2 DEF x, z
  <2> QED BY <2>1, <2>3, <2>4
<1> QED BY <1>5, <1>7

-----------------------------------------------------------------------------
\* A sequence with one entry more.
LEMMA Pushed ==
  ASSUME NEW S, NEW s \in Seq(S), NEW f
  PROVE  /\ Append(s, f) \in Seq(S \cup {f}) /\ Len(Append(s, f)) = Len(s) + 1 /\ Append(s, f) # <<>>
         /\ Len(s) \in Nat /\ Append(s, f)[Len(s) + 1] = f
         /\ \A i \in 1..Len(s) : Append(s, f)[i] = s[i]
<1>1. s \in Seq(S \cup {f}) /\ f \in S \cup {f}
  OBVIOUS
<1> DEFINE T == S \cup {f}
<1>2. s \in Seq(T) /\ f \in T
  BY <1>1
<1> HIDE DEF T
<1>3. /\ Append(s, f) \in Seq(T) /\ Len(Append(s, f)) = Len(s) + 1
      /\ Len(s) \in Nat /\ Append(s, f)[Len(s) + 1] = f
      /\ \A i \in 1..Len(s) : Append(s, f)[i] = s[i]
  BY <1>2
<1>4. Append(s, f) # <<>>
  BY <1>3
<1> QED BY <1>3, <1>4 DEF T

\* A collection later than all of them is put on the stack.
LEMMA PinnedMore ==
  ASSUME NEW h, NEW g, NEW S, NEW s \in Seq(S), Pinned(h, g, s), NEW f,
         f.node # NullSlot => f.node \in Live(g) /\ h.cell[f.node].type = f.type /\ Above(g, s, f.node)
  PROVE  Pinned(h, g, Append(s, f))
<1> DEFINE t == Append(s, f)
           n == Len(s)
<1>1. /\ n \in Nat /\ Len(t) = n + 1 /\ t[n + 1] = f
      /\ \A i \in 1..n : t[i] = s[i]
  BY Pushed
<1> HIDE DEF t
<1>2. \A i \in 1..Len(t) : i = n + 1 \/ i \in 1..n
  BY <1>1
<1>3. ASSUME NEW i \in 1..Len(t), t[i].node # NullSlot
      PROVE  /\ t[i].node \in Live(g) /\ h.cell[t[i].node].type = t[i].type
             /\ \A j \in 1..Len(t) : i < j /\ t[j].node # NullSlot => g.born[t[i].node] < g.born[t[j].node]
  <2>1. CASE i = n + 1
    <3>1. t[i] = f
      BY <1>1, <2>1
    <3>2. \A j \in 1..Len(t) : ~(i < j)
      BY <1>1, <2>1
    <3> QED BY <1>3, <3>1, <3>2
  <2>2. CASE i \in 1..n
    <3>1. t[i] = s[i]
      BY <1>1, <2>2
    <3>2. ASSUME NEW j \in 1..Len(t), i < j, t[j].node # NullSlot
          PROVE  g.born[t[i].node] < g.born[t[j].node]
      <4>1. CASE j = n + 1
        BY <1>1, <1>3, <2>2, <3>1, <3>2, <4>1 DEF Above
      <4>2. CASE j \in 1..n
        BY <1>1, <1>3, <2>2, <3>1, <3>2, <4>2 DEF Pinned
      <4> QED BY <1>2, <4>1, <4>2
    <3> QED BY <1>3, <2>2, <3>1, <3>2 DEF Pinned
  <2> QED BY <1>2, <2>1, <2>2
<1> QED BY <1>3 DEF Pinned, t

\* The last one is taken off.
LEMMA PinnedLess ==
  ASSUME NEW h, NEW g, NEW S, NEW s \in Seq(S), Pinned(h, g, s), s # <<>>
  PROVE  LET t == SubSeq(s, 1, Len(s) - 1)
         IN t \in Seq(S) /\ Pinned(h, g, t) /\ \A i \in 1..Len(t) : t[i] = s[i]
<1> DEFINE t == SubSeq(s, 1, Len(s) - 1)
           n == Len(s)
<1>1. n \in Nat /\ n # 0
  BY SetOf
<1>2. t \in Seq(S) /\ Len(t) = n - 1 /\ \A i \in 1..(n - 1) : t[i] = s[i]
  <2> DEFINE e == n - 1
  <2>1. e \in Nat /\ e <= Len(s) /\ t = SubSeq(s, 1, e)
    BY <1>1
  <2> HIDE DEF e, t
  <2>2. SubSeq(s, 1, e) \in Seq(S)
    BY <2>1
  <2>3. Len(SubSeq(s, 1, e)) = e
    BY <2>1
  <2>4. \A i \in 1..e : SubSeq(s, 1, e)[i] = s[i]
    BY <2>1
  <2> QED BY <2>1, <2>2, <2>3, <2>4 DEF e
<1> HIDE DEF t
<1>3. \A i \in 1..Len(t) : i \in 1..Len(s)
  BY <1>1, <1>2
<1>4. \A i \in 1..Len(t) : t[i] = s[i]
  BY <1>2
<1> QED BY <1>2, <1>3, <1>4 DEF Pinned, t

IsFrame(f) == DOMAIN f = {"node", "type", "filter", "left"}
\* A reader at work: what it has not read yet are tokens.
IsReader(r) ==
  /\ DOMAIN r = {"at", "input", "rest", "whole", "dst", "filter", "limit", "stack", "target",
                 "sub", "buffer", "result"}
  /\ r.at # "idle" /\ r.rest \in Seq(Tokens)
  /\ (\E S : r.stack \in Seq(S)) /\ \A i \in 1..Len(r.stack) : IsFrame(r.stack[i])

\* Where it is: an item's value comes next, to a slot that is null and later
\* than the collections it is in, or it is left out; or an item comes next.
Reads(h, g, r) ==
  /\ r.at \in {"value", "next"} => Pinned(h, g, r.stack)
  /\ r.at = "next" => r.stack # <<>>
  /\ r.at = "value" =>
       IF r.target = NullSlot THEN r.sub = Nothing
       ELSE /\ r.target \in Live(g) /\ h.cell[r.target].type = "Null" /\ Above(g, r.stack, r.target)

\* Where the reader is depends on the cells of the heap only.
LEMMA ReadsSame ==
  ASSUME NEW h, NEW g, NEW r, Reads(h, g, r), NEW k, k.cell = h.cell
  PROVE  Reads(k, g, r)
  BY PinnedSame DEF Reads

\* A reader that has failed is nowhere.
LEMMA FailedOK ==
  ASSUME NEW r, IsReader(r), NEW error
  PROVE  /\ IsReader(Failed(r, error)) /\ \A h, g : Reads(h, g, Failed(r, error))
         /\ IsReader([Failed(r, error) EXCEPT !.buffer = FALSE])
         /\ \A h, g : Reads(h, g, [Failed(r, error) EXCEPT !.buffer = FALSE])
<1> DEFINE f == Failed(r, error)
           b == [f EXCEPT !.buffer = FALSE]
<1>1. DOMAIN f = DOMAIN r /\ f.at = "end" /\ f.rest = r.rest /\ f.stack = r.stack
  BY DEF IsReader, Failed
<1> HIDE DEF f
<1>2. DOMAIN b = DOMAIN f /\ b.at = f.at /\ b.rest = f.rest /\ b.stack = f.stack
  BY <1>1 DEF IsReader
<1> HIDE DEF b
<1>3. /\ f.at = "end" /\ f.rest = r.rest /\ f.stack = r.stack
      /\ b.at = "end" /\ b.rest = r.rest /\ b.stack = r.stack
  BY <1>1, <1>2
<1>4. IsReader(f) /\ IsReader(b)
  BY <1>1, <1>2, <1>3 DEF IsReader
<1>5. \A h, g : Reads(h, g, f) /\ Reads(h, g, b)
  BY <1>3 DEF Reads
<1> QED BY <1>4, <1>5 DEF f, b

\* A value has been passed: the next item comes, or the end.
LEMMA PassedOK ==
  ASSUME NEW r, IsReader(r)
  PROVE  /\ IsReader(Passed(r)) /\ Passed(r).stack = r.stack
         /\ \A h, g : Pinned(h, g, r.stack) => Reads(h, g, Passed(r))
<1> DEFINE p == Passed(r)
<1>2. /\ DOMAIN p = DOMAIN r /\ p.at = (IF r.stack = <<>> THEN "end" ELSE "next")
      /\ p.rest = r.rest /\ p.stack = r.stack
  BY DEF IsReader, Passed
<1> HIDE DEF p
<1>3. IsReader(p)
  BY <1>2 DEF IsReader
<1>4. \A h, g : Pinned(h, g, r.stack) => Reads(h, g, p)
  BY <1>2 DEF Reads
<1> QED BY <1>2, <1>3, <1>4 DEF p

\* A token has been read.
LEMMA EatenOK ==
  ASSUME NEW r, IsReader(r), r.rest # <<>>
  PROVE  LET e == Eaten(r)
         IN IsReader(e) /\ e.stack = r.stack /\ e.at = r.at /\ e.buffer = r.buffer
<1> DEFINE e == Eaten(r)
<1>2. /\ DOMAIN e = DOMAIN r /\ e.at = r.at /\ e.rest = Tail(r.rest) /\ e.stack = r.stack
      /\ e.buffer = r.buffer
  BY DEF IsReader, Eaten
<1> HIDE DEF e
<1>3. e.rest \in Seq(Tokens)
  <2> HIDE DEF Tokens
  <2> QED BY <1>2 DEF IsReader
<1>4. IsReader(e)
  BY <1>2, <1>3 DEF IsReader
<1> QED BY <1>2, <1>4 DEF e

LEMMA BufferOK ==
  ASSUME NEW r, IsReader(r), NEW buffer
  PROVE  LET b == [r EXCEPT !.buffer = buffer]
         IN IsReader(b) /\ b.stack = r.stack /\ b.at = r.at
<1> DEFINE b == [r EXCEPT !.buffer = buffer]
<1>2. DOMAIN b = DOMAIN r /\ b.at = r.at /\ b.rest = r.rest /\ b.stack = r.stack
  BY DEF IsReader
<1> HIDE DEF b
<1>4. IsReader(b)
  BY <1>2 DEF IsReader
<1> QED BY <1>2, <1>4 DEF b

\* A reader with another stack.
LEMMA OpenedOK ==
  ASSUME NEW r, IsReader(r), NEW at, at # "idle", NEW s, \E S : s \in Seq(S),
         \A i \in 1..Len(s) : IsFrame(s[i])
  PROVE  LET b == [r EXCEPT !.at = at, !.stack = s] IN IsReader(b) /\ b.stack = s /\ b.at = at
<1> DEFINE b == [r EXCEPT !.at = at, !.stack = s]
<1>1. DOMAIN b = DOMAIN r /\ b.at = at /\ b.rest = r.rest /\ b.stack = s
  BY DEF IsReader
<1> HIDE DEF b
<1>2. IsReader(b)
  BY <1>1 DEF IsReader
<1> QED BY <1>1, <1>2 DEF b

LEMMA UpOK ==
  ASSUME NEW r, IsReader(r), NEW s, \E S : s \in Seq(S), \A i \in 1..Len(s) : IsFrame(s[i])
  PROVE  LET c == [r EXCEPT !.stack = s] IN IsReader(c) /\ c.stack = s /\ c.rest = r.rest
<1> DEFINE c == [r EXCEPT !.stack = s]
<1>1. DOMAIN c = DOMAIN r /\ c.at = r.at /\ c.rest = r.rest /\ c.stack = s
  BY DEF IsReader
<1> HIDE DEF c
<1>2. IsReader(c)
  BY <1>1 DEF IsReader
<1> QED BY <1>1, <1>2 DEF c

\* One item less is to come in the last frame.
OneLess(s) == [s EXCEPT ![Len(s)].left = @ - 1]

LEMMA OneLessOK ==
  ASSUME NEW S, NEW s \in Seq(S), s # <<>>, \A i \in 1..Len(s) : IsFrame(s[i])
  PROVE  LET t == OneLess(s)
         IN /\ \E T : t \in Seq(T) /\ Len(t) = Len(s) /\ t # <<>>
            /\ \A i \in 1..Len(s) : IsFrame(t[i]) /\ t[i].node = s[i].node /\ t[i].type = s[i].type
<1> DEFINE n == Len(s)
           f == [s[n] EXCEPT !.left = @ - 1]
           t == [s EXCEPT ![n] = f]
           T == S \cup {f}
<1>1. OneLess(s) = t
  BY DEF OneLess
<1>2. n \in Nat /\ n # 0 /\ n \in 1..n /\ DOMAIN s = 1..n
  <2>1. Len(s) \in Nat /\ Len(s) # 0 /\ DOMAIN s = 1..Len(s)
    BY SetOf
  <2> QED BY <2>1
<1>3. IsFrame(f) /\ f.node = s[n].node /\ f.type = s[n].type
  <2>1. DOMAIN s[n] = {"node", "type", "filter", "left"}
    BY <1>2 DEF IsFrame
  <2> DEFINE x == s[n]
  <2> HIDE DEF n
  <2>2. DOMAIN f = DOMAIN x /\ f.node = x.node /\ f.type = x.type
    BY <2>1
  <2> QED BY <2>1, <2>2 DEF IsFrame
<1> HIDE DEF f
<1>4. t \in Seq(T) /\ Len(t) = n /\ \A i \in 1..n : t[i] = IF i = n THEN f ELSE s[i]
  <2>1. s \in Seq(T) /\ f \in T
    OBVIOUS
  <2> HIDE DEF T
  <2> QED BY <1>2, <2>1
<1> HIDE DEF t, T
<1>5. t # <<>>
  <2> HIDE DEF n
  <2>1. n # 0
    BY <1>2
  <2>2. Len(t) = n
    BY <1>4
  <2> QED BY <2>1, <2>2
<1>6. \A i \in 1..n : IsFrame(t[i]) /\ t[i].node = s[i].node /\ t[i].type = s[i].type
  BY <1>3, <1>4
<1> QED BY <1>1, <1>4, <1>5, <1>6 DEF T, n

\* The value of an item comes next.
LEMMA GoesOnOK ==
  ASSUME NEW r, IsReader(r), r.stack # <<>>, NEW target, NEW filter
  PROVE  LET q == GoesOn(r, target, filter)
         IN /\ IsReader(q)
            /\ \A h, g : /\ Pinned(h, g, r.stack)
                         /\ IF target = NullSlot THEN filter = Nothing
                            ELSE target \in Live(g) /\ h.cell[target].type = "Null" /\ Above(g, r.stack, target)
                         => Reads(h, g, q)
<1> DEFINE q == GoesOn(r, target, filter)
           t == OneLess(r.stack)
<1>1. /\ DOMAIN q = DOMAIN r /\ q.at = "value" /\ q.rest = r.rest /\ q.stack = t
      /\ q.target = target /\ q.sub = filter
  BY DEF IsReader, GoesOn, OneLess
<1>2. /\ \E T : t \in Seq(T) /\ Len(t) = Len(r.stack) /\ t # <<>>
      /\ \A i \in 1..Len(r.stack) : /\ IsFrame(t[i]) /\ t[i].node = r.stack[i].node
                                    /\ t[i].type = r.stack[i].type
  BY OneLessOK DEF IsReader
<1> HIDE DEF q, t
<1>4. IsReader(q)
  BY <1>1, <1>2 DEF IsReader
<1>5. \A h, g : /\ Pinned(h, g, r.stack) => Pinned(h, g, t)
                /\ \A v : Above(g, r.stack, v) => Above(g, t, v)
  BY <1>2, SameFrames
<1> QED BY <1>1, <1>4, <1>5 DEF Reads, q

\* A string that a reader puts together takes no slot.
LEMMA BuildStringOK ==
  ASSUME NEW h \in Heaps, NEW text
  PROVE  LET k == BuildString(h, text).heap
         IN k \in Heaps /\ SameBut(h, k) /\ k.pools = h.pools /\ k.capacity = h.capacity /\ Grows(h, k)
<1> DEFINE grows == text \notin TinyTexts /\ (Json \/ reader.buffer)
           made == IF reader.buffer THEN h ELSE Malloc(h)
           grown == IF grows THEN Malloc(made) ELSE made
           over == [grown EXCEPT !.overflowed = TRUE]
           k == BuildString(h, text).heap
<1>1. made \in Heaps /\ SameBut(h, made) /\ made.pools = h.pools /\ made.capacity = h.capacity
  BY MallocOK DEF SameBut
<1> HIDE DEF made
<1>2. grown \in Heaps /\ SameBut(made, grown) /\ grown.pools = made.pools /\ grown.capacity = made.capacity
  BY <1>1, MallocOK DEF SameBut
<1>3. k = grown \/ k = over
  BY DEF BuildString, made
<1> HIDE DEF grown
<1>4. over \in Heaps /\ SameBut(grown, over) /\ over.pools = grown.pools /\ over.capacity = grown.capacity
  BY <1>2, Overflow DEF Heaps, SameBut
<1> HIDE DEF k, over
<1>5. k \in Heaps /\ SameBut(h, k) /\ k.pools = h.pools /\ k.capacity = h.capacity
  BY <1>1, <1>2, <1>3, <1>4 DEF SameBut
<1>6. Grows(h, k)
  BY <1>5, SameHeap DEF SameBut
<1> QED BY <1>5, <1>6 DEF k

LEMMA BuildStringSound ==
  ASSUME NEW h, NEW g, Sound(h, g), NEW text
  PROVE  LET k == BuildString(h, text).heap
         IN /\ k \in Heaps /\ k.cell = h.cell /\ k.pools = h.pools /\ Grows(h, k) /\ Sound(k, g)
            /\ \A v \in Live(g) : Leads(h, g, k, g, v)
<1> DEFINE k == BuildString(h, text).heap
<1>1. h \in Heaps
  BY SoundParts
<1>2. /\ k \in Heaps /\ SameBut(h, k) /\ k.pools = h.pools /\ k.capacity = h.capacity
      /\ Grows(h, k) /\ k.cell = h.cell
  BY <1>1, BuildStringOK DEF SameBut
<1> HIDE DEF k
<1>3. Sound(k, g) /\ \A v \in Live(g) : Leads(h, g, k, g, v)
  BY <1>2, SameSound
<1> QED BY <1>2, <1>3 DEF k

LEMMA WrittenStringSound ==
  ASSUME NEW h, NEW g, Sound(h, g), NEW v \in Live(g), h.cell[v].type = "Null",
         NEW type \in VariantTypes, NEW text, Content(AsString(h.cell[v], type, text)), NEW k,
         Writes(h, k, v, AsString(h.cell[v], type, text))
  PROVE  Leads(h, g, k, g, v) /\ Grows(h, k)
<1> DEFINE c == AsString(h.cell[v], type, text)
<1>1. h \in Heaps /\ v \in Ids
  BY SoundParts
<1>2. c.type = type /\ c.head = h.cell[v].head /\ c.tail = h.cell[v].tail /\ c.next = h.cell[v].next
  BY <1>1, CellParts DEF AsString, Cells
<1> HIDE DEF c
<1>3. Content(c) /\ Writes(h, k, v, c)
  BY DEF c
<1>4. Leads(h, g, k, g, v)
  BY <1>2, <1>3, WriteSound
<1>5. Grows(h, k)
  BY <1>1, <1>3, WritesOK
<1> QED BY <1>4, <1>5

\* What a reader saves in a slot that is null.
LEMMA SavedStringSound ==
  ASSUME NEW h, NEW g, Sound(h, g), NEW v \in Live(g), h.cell[v].type = "Null",
         NEW type \in {"String", "Raw"}, NEW text \in Texts \cup TinyTexts,
         type = "Raw" => text \in Texts
  PROVE  LET k == SavedString(h, v, text, type) IN Leads(h, g, k, g, v) /\ Grows(h, k)
<1> DEFINE k == SavedString(h, v, text, type)
<1>1. h \in Heaps /\ v \in Ids
  BY SoundParts
<1>2. CASE type = "String" /\ text \in TinyTexts
  <2>1. KeySaved(h, v, text) = k
    BY <1>2 DEF KeySaved, SavedString
  <2>2. KeyType(text) \in VariantTypes
    BY DEF KeyType, VariantTypes
  <2>3. /\ Content(AsString(h.cell[v], KeyType(text), text))
        /\ Writes(h, k, v, AsString(h.cell[v], KeyType(text), text))
    BY <1>1, <2>1, KeySavedOK
  <2> HIDE DEF k
  <2>4. Leads(h, g, k, g, v) /\ Grows(h, k)
    BY <2>2, <2>3, WrittenStringSound
  <2> QED BY <2>4 DEF k
<1>3. CASE ~(type = "String" /\ text \in TinyTexts)
  <2> DEFINE stored == IF type = "Raw" THEN "RawString" ELSE "OwnedString"
  <2>1. text \in Texts /\ stored \in InPool /\ stored \in VariantTypes
    BY <1>3 DEF InPool, VariantTypes
  <2>2. HasCommitted(h, k, v, text, stored)
    BY <1>3 DEF SavedString, HasCommitted
  <2> HIDE DEF stored, k
  <2>3. Content(AsString(h.cell[v], stored, text)) /\ Writes(h, k, v, AsString(h.cell[v], stored, text))
    BY <1>1, <2>1, <2>2, Committed
  <2>4. Leads(h, g, k, g, v) /\ Grows(h, k)
    BY <2>1, <2>3, WrittenStringSound
  <2> QED BY <2>4 DEF k
<1> QED BY <1>2, <1>3

-----------------------------------------------------------------------------
(***************************************************************************)
(* The steps of a reader.                                                  *)
(***************************************************************************)
\* The heap and the reader between two steps: the inductive invariant.
Between(h, r) ==
  /\ h \in Heaps /\ Counted(h) /\ (r.at # "idle" => IsReader(r))
  /\ Len(h.pools) <= MaxPools => \E g : Sound(h, g) /\ g.pending = {} /\ Reads(h, g, r)

\* A step that leaves this heap and this reader.
LEMMA StepLeaves ==
  ASSUME NEW k, NEW q, Leaves(k), reader' = q, k \in Heaps, Counted(k), q.at # "idle" => IsReader(q),
         Len(k.pools) <= MaxPools => \E g : Sound(k, g) /\ g.pending = {} /\ Reads(k, g, q)
  PROVE  Between(heap', reader')
<1> DEFINE l == Asks(k, {}, 0)
<1>1. heap' = l /\ reader' = q
  BY DEF Leaves, Asks
<1>2. l \in Heaps /\ Counted(l) /\ l.pools = k.pools /\ l.cell = k.cell
  BY AsksSame DEF Grows, SameBut
<1> HIDE DEF l
<1>3. ASSUME Len(l.pools) <= MaxPools PROVE \E g : Sound(l, g) /\ g.pending = {} /\ Reads(l, g, q)
  <2>1. PICK g : Sound(k, g) /\ g.pending = {} /\ Reads(k, g, q)
    BY <1>2, <1>3
  <2>2. Sound(l, g)
    BY <2>1, AsksSound DEF l
  <2>3. Reads(l, g, q)
    BY <1>2, <2>1, ReadsSame
  <2> QED BY <2>1, <2>2, <2>3
<1> QED BY <1>1, <1>2, <1>3 DEF Between

\* A step of a reader that changes a heap in order, if anything.
LEMMA StepFine ==
  ASSUME NEW h, NEW g, Sound(h, g), g.pending = {}, NEW k, NEW q, Step(k, q), Grows(h, k), IsReader(q),
         Len(k.pools) <= MaxPools => \E m, v : Leads(h, g, k, m, v) /\ Reads(k, m, q)
  PROVE  Between(heap', reader')
<1>1. k \in Heaps /\ Counted(k)
  BY SoundParts DEF Grows
<1>2. Len(k.pools) <= MaxPools => \E m : Sound(k, m) /\ m.pending = {} /\ Reads(k, m, q)
  BY DEF Leads
<1> QED BY <1>1, <1>2, StepLeaves DEF Step

\* A step that leaves the heap alone.
LEMMA StepSame ==
  ASSUME Between(heap, reader), NEW q, Step(heap, q), IsReader(q),
         \A g : Reads(heap, g, reader) => Reads(heap, g, q)
  PROVE  Between(heap', reader')
<1>1. /\ heap \in Heaps /\ Counted(heap)
      /\ Len(heap.pools) <= MaxPools => \E g : Sound(heap, g) /\ g.pending = {} /\ Reads(heap, g, q)
  BY DEF Between
<1> QED BY <1>1, StepLeaves DEF Step

-----------------------------------------------------------------------------
(***************************************************************************)
(* A reader at a value.                                                    *)
(***************************************************************************)

\* Without a filter nothing is wanted.
LEMMA NothingAllowed ==
  ~allowValue(Nothing) /\ ~allowArray(Nothing) /\ ~allowObject(Nothing)
<1>1. True.type = "True" /\ Nothing.type = "Null"
  BY DEF True, Nothing, Leaf
<1> QED BY <1>1 DEF allowValue, allowArray, allowObject

\* The reader has a slot for the value that comes next.
Targeted(h, g, r) ==
  /\ r.target # NullSlot /\ r.target \in Live(g) /\ h.cell[r.target].type = "Null"
  /\ Above(g, r.stack, r.target)

\* What is known when a value comes next.
LEMMA AtValueParts ==
  ASSUME Between(heap, reader), NEW types, AtValue(types)
  PROVE  /\ heap \in Heaps /\ IsReader(reader) /\ reader.rest # <<>> /\ reader.at = "value"
         /\ Token1 \in Tokens /\ Token1.type \in types
         /\ \E g : /\ Sound(heap, g) /\ g.pending = {} /\ Pinned(heap, g, reader.stack)
                   /\ allowValue(reader.sub) \/ allowArray(reader.sub) \/ allowObject(reader.sub)
                        => Targeted(heap, g, reader)
<1>1. /\ heap \in Heaps /\ reader.at = "value" /\ reader.rest # <<>> /\ Token1.type \in types
      /\ Len(heap.pools) <= MaxPools
  BY DEF Between, AtValue, PoolsNumbered
<1>2. IsReader(reader)
  BY <1>1 DEF Between
<1>3. Token1 \in Tokens
  <2>1. reader.rest \in Seq(Tokens)
    BY <1>2 DEF IsReader
  <2> HIDE DEF Tokens
  <2> QED BY <1>1, <2>1 DEF Token1
<1>4. PICK g : Sound(heap, g) /\ g.pending = {} /\ Reads(heap, g, reader)
  BY <1>1 DEF Between
<1>5. /\ Pinned(heap, g, reader.stack)
      /\ IF reader.target = NullSlot THEN reader.sub = Nothing
         ELSE /\ reader.target \in Live(g) /\ heap.cell[reader.target].type = "Null"
              /\ Above(g, reader.stack, reader.target)
  BY <1>1, <1>4 DEF Reads
<1>6. allowValue(reader.sub) \/ allowArray(reader.sub) \/ allowObject(reader.sub)
        => Targeted(heap, g, reader)
  BY <1>5, NothingAllowed DEF Targeted
<1> QED BY <1>1, <1>2, <1>3, <1>4, <1>5, <1>6

LEMMA RefusingSound ==
  ASSUME NEW g, Sound(heap, g), NEW bad \in SUBSET Nat
  PROVE  /\ Sound(Refusing(bad), g) /\ Refusing(bad).cell = heap.cell
         /\ Grows(heap, Refusing(bad)) /\ Refusing(bad) \in Heaps
<1>1. heap \in Heaps /\ heap.tries \in Nat
  BY SoundParts, HeapParts
<1>2. Refusing(bad) = Asks(heap, bad, heap.tries)
  BY <1>1 DEF Refusing, Asks, Heaps
<1> DEFINE k == Asks(heap, bad, heap.tries)
<1>3. Sound(k, g) /\ k.cell = heap.cell /\ k \in Heaps
  BY <1>1, AsksSound
<1>4. Grows(heap, k)
  BY <1>1, AsksSame
<1> QED BY <1>2, <1>3, <1>4

\* The value has been read, to its slot.
LEMMA ValueRead ==
  ASSUME NEW h, NEW g, NEW r, Pinned(h, g, r.stack), Targeted(h, g, r), NEW k, NEW m,
         Leads(h, g, k, m, r.target), NEW q, IsReader(q), q.stack = r.stack
  PROVE  Reads(k, m, Passed(q))
<1>1. Pinned(k, m, r.stack)
  BY PinnedStays DEF Targeted
<1> QED BY <1>1, PassedOK

-----------------------------------------------------------------------------
\* A value that the filter leaves out.
LEMMA SkipValueStep ==
  ASSUME Between(heap, reader), SkipValue
  PROVE  Between(heap', reader')
<1> DEFINE q == Passed(Eaten(reader))
<1>1. /\ IsReader(reader) /\ reader.rest # <<>> /\ reader.at = "value" /\ Step(heap, q)
  BY AtValueParts DEF SkipValue
<1>2. /\ IsReader(q)
      /\ \A g : Pinned(heap, g, reader.stack) => Reads(heap, g, q)
  BY <1>1, EatenOK, PassedOK
<1> HIDE DEF q
<1>3. \A g : Reads(heap, g, reader) => Reads(heap, g, q)
  BY <1>1, <1>2 DEF Reads
<1> QED BY <1>1, <1>2, <1>3, StepSame

\* A value is written to its slot.
LEMMA TypedStep ==
  ASSUME Between(heap, reader), AtValue({"Inline"}), allowValue(reader.sub), NEW q,
         Step(Typed(heap, reader.target, "Inline"), q), IsReader(q),
         q = Passed(Eaten(reader)) \/ \A h, g : Reads(h, g, q)
  PROVE  Between(heap', reader')
<1> DEFINE v == reader.target
           k == Typed(heap, v, "Inline")
<1>1. heap \in Heaps /\ IsReader(reader) /\ reader.rest # <<>>
  BY AtValueParts
<1>2. PICK g : Sound(heap, g) /\ g.pending = {} /\ Pinned(heap, g, reader.stack) /\ Targeted(heap, g, reader)
  BY AtValueParts
<1>3. v \in Live(g) /\ heap.cell[v].type = "Null" /\ v \in Ids /\ "Inline" \in VariantTypes \ InPool
  BY <1>2, SoundParts DEF Targeted, VariantTypes, InPool
<1>4. Leads(heap, g, k, g, v) /\ Grows(heap, k)
  BY <1>1, <1>2, <1>3, TypedSound, TypedGrows
<1> HIDE DEF k
<1>5. Reads(k, g, q)
  <2>1. CASE q = Passed(Eaten(reader))
    BY <1>1, <1>2, <1>4, <2>1, EatenOK, ValueRead
  <2>2. CASE \A h, m : Reads(h, m, q)
    BY <2>2
  <2> QED BY <2>1, <2>2
<1>6. Step(k, q)
  BY DEF k
<1> QED BY <1>2, <1>4, <1>5, <1>6, StepFine

LEMMA ReadInlineStep ==
  ASSUME Between(heap, reader), ReadInline
  PROVE  Between(heap', reader')
<1> DEFINE q == Passed(Eaten(reader))
<1>1. AtValue({"Null"}) \/ AtValue({"Inline"})
  BY DEF ReadInline
<1>2. IsReader(reader) /\ reader.rest # <<>> /\ reader.at = "value"
  BY <1>1, AtValueParts
<1>3. /\ IsReader(q)
      /\ \A g : Pinned(heap, g, reader.stack) => Reads(heap, g, q)
  BY <1>2, EatenOK, PassedOK
<1>4. CASE Token1.type = "Null"
  <2>1. Step(heap, q)
    BY <1>4 DEF ReadInline
  <2> HIDE DEF q
  <2>2. \A g : Reads(heap, g, reader) => Reads(heap, g, q)
    BY <1>2, <1>3 DEF Reads
  <2> QED BY <1>3, <2>1, <2>2, StepSame
<1>5. CASE Token1.type # "Null"
  <2>1. /\ Step(Typed(heap, reader.target, "Inline"), q) /\ AtValue({"Inline"}) /\ allowValue(reader.sub)
    BY <1>5 DEF ReadInline, AtValue
  <2>2. q = Passed(Eaten(reader))
    OBVIOUS
  <2> HIDE DEF q
  <2> QED BY <1>3, <2>1, <2>2, TypedStep
<1> QED BY <1>4, <1>5

\* A word of JSON is cut off: its value is written all the same.
LEMMA CutKeywordStep ==
  ASSUME Between(heap, reader), CutKeyword
  PROVE  Between(heap', reader')
<1>1. PICK error : Step(Typed(heap, reader.target, "Inline"), Failed(reader, error))
  BY DEF CutKeyword
<1>2. AtValue({"Inline"}) /\ allowValue(reader.sub)
  BY DEF CutKeyword
<1>3. IsReader(reader)
  BY <1>2, AtValueParts
<1> DEFINE q == Failed(reader, error)
<1>4. IsReader(q) /\ \A h, g : Reads(h, g, q)
  BY <1>3, FailedOK
<1> HIDE DEF q
<1>5. Step(Typed(heap, reader.target, "Inline"), q)
  BY <1>1 DEF q
<1> QED BY <1>2, <1>4, <1>5, TypedStep

LEMMA ReadWideStep ==
  ASSUME Between(heap, reader), NEW bad \in SUBSET Nat, ReadWide(bad)
  PROVE  Between(heap', reader')
<1> DEFINE v == reader.target
           h == Refusing(bad)
           r == setWide(h, v)
           read == Passed(Eaten(reader))
           failed == Failed(reader, "NoMemory")
           q == IF r.ok THEN read ELSE failed
<1>1. AtValue({"Wide"}) /\ allowValue(reader.sub) /\ Step(r.heap, q)
  BY DEF ReadWide
<1>2. heap \in Heaps /\ IsReader(reader) /\ reader.rest # <<>>
  BY <1>1, AtValueParts
<1>3. PICK g : Sound(heap, g) /\ g.pending = {} /\ Pinned(heap, g, reader.stack) /\ Targeted(heap, g, reader)
  BY <1>1, AtValueParts
<1>4. Sound(h, g) /\ h.cell = heap.cell /\ Grows(heap, h) /\ h \in Heaps
  BY <1>3, RefusingSound
<1> HIDE DEF h
<1>5. /\ v \in Live(g) /\ h.cell[v].type = "Null" /\ v \in Ids
      /\ Targeted(h, g, reader) /\ Pinned(h, g, reader.stack)
  BY <1>3, <1>4, SoundParts, PinnedSame DEF Targeted
<1>6. Grows(h, r.heap)
  BY <1>4, <1>5, setWideOK
<1>7. Len(r.heap.pools) <= MaxPools => \E m : Leads(h, g, r.heap, m, v)
  BY <1>4, <1>5, setWideSound
<1>8. IsReader(read) /\ IsReader(failed) /\ IsReader(q)
  BY <1>2, EatenOK, PassedOK, FailedOK
<1> HIDE DEF r
<1>9. ASSUME NEW m, Leads(h, g, r.heap, m, v) PROVE Reads(r.heap, m, q)
  <2>1. Reads(r.heap, m, read)
    BY <1>2, <1>5, <1>9, EatenOK, ValueRead
  <2>2. Reads(r.heap, m, failed)
    BY <1>2, FailedOK
  <2> HIDE DEF read, failed
  <2> QED BY <2>1, <2>2
<1> HIDE DEF q, v
<1> QED BY <1>1, <1>3, <1>4, <1>6, <1>7, <1>8, <1>9, StepFine

LEMMA ReadStringStep ==
  ASSUME Between(heap, reader), NEW bad \in SUBSET Nat, ReadString(bad)
  PROVE  Between(heap', reader')
<1> DEFINE v == reader.target
           text == Token1.text
           type == Token1.type
           h == Refusing(bad)
           r == BuildString(h, text)
           k == SavedString(r.heap, v, text, type)
           eaten == [Eaten(reader) EXCEPT !.buffer = KeepsBuffer(heap, text)]
           read == Passed(eaten)
           failed == Failed(reader, "NoMemory")
<1>1. /\ AtValue({"String", "Raw"}) /\ allowValue(reader.sub)
      /\ IF r.ok THEN Step(k, read) ELSE Step(r.heap, failed)
  BY DEF ReadString
<1>2. heap \in Heaps /\ IsReader(reader) /\ reader.rest # <<>> /\ Token1 \in Tokens /\ type \in {"String", "Raw"}
  BY <1>1, AtValueParts
<1>3. text \in Texts \cup TinyTexts /\ (type = "Raw" => text \in Texts)
  BY <1>2 DEF Tokens, Collections
<1>4. PICK g : Sound(heap, g) /\ g.pending = {} /\ Pinned(heap, g, reader.stack) /\ Targeted(heap, g, reader)
  BY <1>1, AtValueParts
<1>5. Sound(h, g) /\ h.cell = heap.cell /\ Grows(heap, h) /\ h \in Heaps
  BY <1>4, RefusingSound
<1> HIDE DEF h
<1>6. /\ r.heap \in Heaps /\ r.heap.cell = h.cell /\ Grows(h, r.heap) /\ Sound(r.heap, g)
      /\ \A w \in Live(g) : Leads(h, g, r.heap, g, w)
  BY <1>5, BuildStringSound
<1>7. IsReader(eaten) /\ eaten.stack = reader.stack /\ IsReader(read) /\ IsReader(failed)
  BY <1>2, EatenOK, BufferOK, PassedOK, FailedOK
<1> HIDE DEF r
<1>8. /\ v \in Live(g) /\ r.heap.cell[v].type = "Null"
      /\ Targeted(r.heap, g, reader) /\ Pinned(r.heap, g, reader.stack)
  BY <1>4, <1>5, <1>6, PinnedSame DEF Targeted
<1>9. CASE r.ok
  <2>1. Leads(r.heap, g, k, g, v) /\ Grows(r.heap, k)
    BY <1>2, <1>3, <1>6, <1>8, SavedStringSound
  <2> HIDE DEF k, eaten
  <2>2. Reads(k, g, read)
    BY <1>7, <1>8, <2>1, ValueRead
  <2>3. Step(k, read)
    BY <1>1, <1>9
  <2> HIDE DEF read, v
  <2> QED BY <1>4, <1>6, <1>7, <2>1, <2>2, <2>3, StepFine
<1>10. CASE ~r.ok
  <2>1. Step(r.heap, failed)
    BY <1>1, <1>10
  <2>2. Reads(r.heap, g, failed)
    BY <1>2, FailedOK
  <2>3. Leads(h, g, r.heap, g, v)
    BY <1>6, <1>8
  <2> HIDE DEF failed, v
  <2> QED BY <1>4, <1>5, <1>6, <1>7, <2>1, <2>2, <2>3, StepFine
<1> QED BY <1>9, <1>10

\* A collection is put on the stack.
LEMMA OpenCollectionStep ==
  ASSUME Between(heap, reader), OpenCollection
  PROVE  Between(heap', reader')
<1> DEFINE v == reader.target
           type == Token1.type
           cleared == Typed(Clear(heap, v), v, type)
           made == IF Allowed(type) THEN cleared ELSE heap
           frame == Frame(IF Allowed(type) THEN v ELSE NullSlot, type, reader.sub, Token1.count)
           s == Append(reader.stack, frame)
           opened == [Eaten(reader) EXCEPT !.at = "next", !.stack = s]
           failed == Failed(reader, "TooDeep")
<1>1. AtValue(Collections)
  BY DEF OpenCollection
<1>2. /\ IF TooDeep THEN Step(IF Json THEN made ELSE heap, failed)
         ELSE Step(made, [Eaten(reader) EXCEPT !.at = "next", !.stack = Append(@, frame)])
  BY DEF OpenCollection
<1>3. heap \in Heaps /\ IsReader(reader) /\ reader.rest # <<>> /\ reader.at = "value" /\ type \in Collections
  BY <1>1, AtValueParts
<1>4. IsReader(Eaten(reader)) /\ Eaten(reader).stack = reader.stack /\ IsReader(failed)
  BY <1>3, EatenOK, FailedOK
<1>5. IF TooDeep THEN Step(IF Json THEN made ELSE heap, failed) ELSE Step(made, opened)
  BY <1>2, <1>4
<1>6. PICK g : /\ Sound(heap, g) /\ g.pending = {} /\ Pinned(heap, g, reader.stack)
               /\ allowValue(reader.sub) \/ allowArray(reader.sub) \/ allowObject(reader.sub)
                    => Targeted(heap, g, reader)
  BY <1>1, AtValueParts
<1>7. Allowed(type) => Targeted(heap, g, reader)
  BY <1>6 DEF Allowed
<1>8. PICK S : reader.stack \in Seq(S)
  BY <1>3 DEF IsReader
<1>9. IsReader(opened) /\ opened.stack = s /\ opened.at = "next" /\ s # <<>>
  <2>1. /\ s \in Seq(S \cup {frame}) /\ Len(s) = Len(reader.stack) + 1 /\ s # <<>>
        /\ Len(reader.stack) \in Nat /\ s[Len(reader.stack) + 1] = frame
        /\ \A i \in 1..Len(reader.stack) : s[i] = reader.stack[i]
    BY <1>8, Pushed
  <2>2. IsFrame(frame)
    BY DEF IsFrame, Frame
  <2> HIDE DEF frame, s
  <2>3. \A i \in 1..Len(s) : i = Len(reader.stack) + 1 \/ i \in 1..Len(reader.stack)
    BY <2>1
  <2>4. \A i \in 1..Len(s) : IsFrame(s[i])
    BY <1>3, <2>1, <2>2, <2>3 DEF IsReader
  <2>5. \E T : s \in Seq(T)
    BY <2>1
  <2> DEFINE e == Eaten(reader)
  <2>6. IsReader(e) /\ opened = [e EXCEPT !.at = "next", !.stack = s]
    BY <1>4
  <2> HIDE DEF e, opened
  <2> DEFINE b == [e EXCEPT !.at = "next", !.stack = s]
  <2>7. "next" # "idle"
    OBVIOUS
  <2>8. IsReader(b) /\ b.stack = s /\ b.at = "next"
    BY ONLY <2>4, <2>5, <2>6, <2>7, OpenedOK
  <2> QED BY <2>1, <2>6, <2>8
<1>10. frame.node = (IF Allowed(type) THEN v ELSE NullSlot) /\ frame.type = type
  BY DEF Frame
<1> HIDE DEF frame
<1>11. ASSUME NEW k, NEW m, Pinned(k, m, reader.stack),
              Allowed(type) => v \in Live(m) /\ k.cell[v].type = type /\ Above(m, reader.stack, v)
       PROVE  Reads(k, m, opened)
  <2>1. Pinned(k, m, s)
    BY <1>8, <1>10, <1>11, PinnedMore
  <2> HIDE DEF s, opened
  <2> QED BY <1>9, <2>1 DEF Reads
<1>12. \A k, m : Reads(k, m, failed)
  BY <1>3, FailedOK
<1> HIDE DEF opened, failed, s
<1>13. CASE Allowed(type)
  <2>1. v \in Live(g) /\ Targeted(heap, g, reader) /\ Above(g, reader.stack, v) /\ type \in VariantTypes \ InPool
    BY <1>3, <1>7, <1>13 DEF Targeted, Collections, VariantTypes, InPool
  <2>2. Grows(heap, cleared)
    BY <1>3, <1>6, <2>1, RetypedFine DEF Fine
  <2>3. PICK m : Leads(heap, g, cleared, m, v) /\ cleared.cell[v].type = type
    BY <1>6, <2>1, RetypedSound
  <2>4. made = cleared
    BY <1>13
  <2> HIDE DEF cleared, v, type
  <2>5. Pinned(cleared, m, reader.stack) /\ Above(m, reader.stack, v) /\ v \in Live(m)
    BY <1>6, <2>1, <2>3, PinnedStays DEF Leads
  <2>6. Reads(cleared, m, opened)
    BY <1>11, <2>3, <2>5
  <2> HIDE DEF made
  <2>7. CASE ~TooDeep
    <3>1. Step(cleared, opened)
      BY <1>5, <2>4, <2>7
    <3> QED BY <1>6, <1>9, <2>2, <2>3, <2>6, <3>1, StepFine
  <2>8. CASE TooDeep /\ Json
    <3>1. Step(cleared, failed)
      BY <1>5, <2>4, <2>8
    <3>2. Reads(cleared, m, failed)
      BY <1>12
    <3> QED BY <1>4, <1>6, <2>2, <2>3, <3>1, <3>2, StepFine
  <2>9. CASE TooDeep /\ ~Json
    <3>1. Step(heap, failed)
      BY <1>5, <2>9
    <3> QED BY <1>4, <1>12, <3>1, StepSame
  <2> QED BY <2>7, <2>8, <2>9
<1>14. CASE ~Allowed(type)
  <2>1. made = heap
    BY <1>14
  <2>2. \A m : Reads(heap, m, reader) => Reads(heap, m, opened)
    BY <1>3, <1>11, <1>14 DEF Reads
  <2>3. Step(heap, failed) \/ Step(heap, opened)
    BY <1>5, <2>1
  <2> HIDE DEF made
  <2> QED BY <1>4, <1>9, <1>12, <2>2, <2>3, StepSame
<1> QED BY <1>13, <1>14

-----------------------------------------------------------------------------
LEMMA Shorter ==
  ASSUME NEW S, NEW s \in Seq(S)
  PROVE  LET t == SubSeq(s, 1, Len(s) - 1)
         IN t \in Seq(S) /\ \A i \in 1..Len(t) : t[i] = s[i] /\ i \in 1..Len(s)
<1> DEFINE t == SubSeq(s, 1, Len(s) - 1)
<1>1. CASE s = <<>>
  <2>1. t = <<>>
    BY <1>1
  <2> HIDE DEF t
  <2> QED BY <2>1 DEF t
<1>2. CASE s # <<>>
  <2> DEFINE e == Len(s) - 1
  <2>1. Len(s) \in Nat /\ Len(s) # 0
    BY <1>2, SetOf
  <2>2. e \in Nat /\ e <= Len(s) /\ t = SubSeq(s, 1, e)
    BY <2>1
  <2> HIDE DEF e, t
  <2>3. SubSeq(s, 1, e) \in Seq(S)
    BY <2>2
  <2>4. Len(SubSeq(s, 1, e)) = e
    BY <2>2
  <2>5. \A i \in 1..e : SubSeq(s, 1, e)[i] = s[i]
    BY <2>2
  <2>6. \A i \in 1..e : i \in 1..Len(s)
    BY <2>1, <2>2
  <2> QED BY <2>2, <2>3, <2>4, <2>5, <2>6 DEF t
<1> QED BY <1>1, <1>2

\* It is taken off.
LEMMA CloseCollectionStep ==
  ASSUME Between(heap, reader), CloseCollection
  PROVE  Between(heap', reader')
<1> DEFINE t == SubSeq(reader.stack, 1, Len(reader.stack) - 1)
           up == [reader EXCEPT !.stack = t]
           read == IF Json THEN Eaten(up) ELSE up
           q == Passed(read)
<1>1. reader.at = "next" /\ (Json => reader.rest # <<>>) /\ Step(heap, q)
  BY DEF CloseCollection, AtEnd
<1>2. IsReader(reader)
  BY <1>1 DEF Between
<1>3. PICK S : reader.stack \in Seq(S)
  BY <1>2 DEF IsReader
<1>4. t \in Seq(S) /\ \A i \in 1..Len(t) : t[i] = reader.stack[i] /\ i \in 1..Len(reader.stack)
  BY <1>3, Shorter
<1> HIDE DEF t
<1>5. IsReader(up) /\ up.stack = t /\ up.rest = reader.rest
  <2>1. \A i \in 1..Len(t) : IsFrame(t[i])
    BY <1>2, <1>4 DEF IsReader
  <2>2. \E T : t \in Seq(T)
    BY <1>4
  <2> QED BY <1>2, <2>1, <2>2, UpOK
<1> HIDE DEF up
<1>6. IsReader(read) /\ read.stack = t
  BY <1>1, <1>5, EatenOK
<1> HIDE DEF read
<1>7. IsReader(q) /\ \A g : Pinned(heap, g, t) => Reads(heap, g, q)
  BY <1>6, PassedOK
<1> HIDE DEF q
<1>8. ASSUME NEW g, Reads(heap, g, reader) PROVE Reads(heap, g, q)
  <2>1. Pinned(heap, g, reader.stack)
    BY <1>1, <1>8 DEF Reads
  <2>2. Pinned(heap, g, t)
    BY <1>4, <2>1 DEF Pinned
  <2> QED BY <1>7, <2>2
<1> QED BY <1>1, <1>7, <1>8, StepSame

\* The input ends too early, or is nested too deep.
LEMMA FailedStep ==
  ASSUME Between(heap, reader), reader.at # "idle", NEW error, Step(heap, Failed(reader, error))
  PROVE  Between(heap', reader')
<1> DEFINE q == Failed(reader, error)
<1>1. IsReader(q) /\ \A g : Reads(heap, g, q)
  BY FailedOK DEF Between
<1>2. Step(heap, q)
  OBVIOUS
<1> HIDE DEF q
<1> QED BY <1>1, <1>2, StepSame

-----------------------------------------------------------------------------
(***************************************************************************)
(* A reader at the next item of a collection.                              *)
(***************************************************************************)

\* The innermost collection that is being read.
LEMMA AtItemParts ==
  ASSUME Between(heap, reader), NEW type, AtItem(type)
  PROVE  /\ heap \in Heaps /\ IsReader(reader) /\ reader.stack # <<>> /\ reader.at = "next"
         /\ (\E S : reader.stack \in Seq(S)) /\ Top.type = type
         /\ \E g : /\ Sound(heap, g) /\ g.pending = {} /\ Pinned(heap, g, reader.stack)
                   /\ Top.node # NullSlot => Top.node \in Live(g) /\ heap.cell[Top.node].type = type
<1>1. /\ heap \in Heaps /\ reader.at = "next" /\ Top.type = type /\ Len(heap.pools) <= MaxPools
  BY DEF Between, AtItem, PoolsNumbered
<1>2. IsReader(reader)
  BY <1>1 DEF Between
<1>3. PICK g : Sound(heap, g) /\ g.pending = {} /\ Reads(heap, g, reader)
  BY <1>1 DEF Between
<1>4. Pinned(heap, g, reader.stack) /\ reader.stack # <<>>
  BY <1>1, <1>3 DEF Reads
<1>5. PICK S : reader.stack \in Seq(S)
  BY <1>2 DEF IsReader
<1>6. Len(reader.stack) \in 1..Len(reader.stack)
  <2>1. Len(reader.stack) \in Nat /\ Len(reader.stack) # 0
    BY <1>4, <1>5, SetOf
  <2> QED BY <2>1
<1>7. Top.node # NullSlot => Top.node \in Live(g) /\ heap.cell[Top.node].type = type
  BY <1>1, <1>4, <1>6 DEF Pinned, Top
<1> QED BY <1>1, <1>2, <1>3, <1>4, <1>5, <1>7

\* A slot has been given for the value of an item, which is next; or not.
LEMMA ItemStep ==
  ASSUME NEW h, NEW g, Sound(h, g), g.pending = {}, Pinned(h, g, reader.stack), IsReader(reader),
         reader.stack # <<>>, Top.node # NullSlot, NEW r, Grows(h, r.heap),
         Len(r.heap.pools) <= MaxPools =>
           /\ \E m : Gives(h, g, r, m, Top.node)
           /\ r.id # NullSlot => r.heap.cell[r.id].type = "Null",
         r.id \in Links, NEW q, IsReader(q), q.stack = reader.stack, NEW filter,
         Step(r.heap, IF r.id = NullSlot THEN Failed(reader, "NoMemory") ELSE GoesOn(q, r.id, filter))
  PROVE  Between(heap', reader')
<1> DEFINE c == Top.node
           failed == Failed(reader, "NoMemory")
           on == GoesOn(q, r.id, filter)
           p == IF r.id = NullSlot THEN failed ELSE on
<1>1. IsReader(failed) /\ \A k, m : Reads(k, m, failed)
  BY FailedOK
<1>2. /\ IsReader(on)
      /\ \A k, m : /\ Pinned(k, m, q.stack)
                   /\ IF r.id = NullSlot THEN filter = Nothing
                      ELSE r.id \in Live(m) /\ k.cell[r.id].type = "Null" /\ Above(m, q.stack, r.id)
                   => Reads(k, m, on)
  BY GoesOnOK
<1>3. PICK S : reader.stack \in Seq(S)
  BY DEF IsReader
<1> HIDE DEF failed, on
<1>4. IsReader(p)
  BY <1>1, <1>2
<1>5. ASSUME NEW m, Gives(h, g, r, m, c), r.id # NullSlot => r.heap.cell[r.id].type = "Null"
      PROVE  Leads(h, g, r.heap, m, c) /\ Reads(r.heap, m, p)
  <2>1. /\ Leads(h, g, r.heap, m, c) /\ r.heap.cell[c].type = h.cell[c].type
        /\ r.id # NullSlot => r.id \in Live(m) /\ m.born[c] < m.born[r.id]
    BY <1>5 DEF Gives
  <2>2. /\ Pinned(r.heap, m, reader.stack)
        /\ \A v \in Live(m) : m.born[c] < m.born[v] => Above(m, reader.stack, v)
    <3> DEFINE s == reader.stack
    <3>1. /\ s \in Seq(S) /\ s # <<>> /\ Pinned(h, g, s) /\ c = s[Len(s)].node /\ c # NullSlot
      BY <1>3 DEF Top
    <3> HIDE DEF c, s
    <3>2. /\ s[Len(s)].node # NullSlot /\ Leads(h, g, r.heap, m, s[Len(s)].node)
          /\ r.heap.cell[s[Len(s)].node].type = h.cell[s[Len(s)].node].type
      BY <2>1, <3>1
    <3>3. /\ Pinned(r.heap, m, s)
          /\ \A v \in Live(m) : m.born[s[Len(s)].node] < m.born[v] => Above(m, s, v)
      BY <3>1, <3>2, PinnedAtTop
    <3> QED BY <3>1, <3>3 DEF s
  <2> HIDE DEF c
  <2>3. CASE r.id = NullSlot
    BY <1>1, <2>1, <2>3
  <2>4. CASE r.id # NullSlot
    <3>1. Above(m, q.stack, r.id) /\ Pinned(r.heap, m, q.stack) /\ r.id \in Live(m)
      BY <2>1, <2>2, <2>4
    <3>2. r.heap.cell[r.id].type = "Null"
      BY <1>5, <2>4
    <3>3. Reads(r.heap, m, on)
      BY <1>2, <2>4, <3>1, <3>2
    <3> QED BY <2>1, <2>4, <3>3
  <2> QED BY <2>3, <2>4
<1>6. Len(r.heap.pools) <= MaxPools => \E m, v : Leads(h, g, r.heap, m, v) /\ Reads(r.heap, m, p)
  BY <1>5
<1>7. Step(r.heap, p)
  BY DEF failed, on
<1> HIDE DEF p
<1> QED BY <1>4, <1>6, <1>7, StepFine

-----------------------------------------------------------------------------
\* An item that is left out.
LEMMA UnwantedReads ==
  ASSUME NEW q, IsReader(q), q.stack # <<>>
  PROVE  IsReader(Unwanted(q)) /\ \A h, g : Pinned(h, g, q.stack) => Reads(h, g, Unwanted(q))
<1> DEFINE u == GoesOn(q, NullSlot, Nothing)
<1>1. /\ IsReader(u)
      /\ \A h, g : Pinned(h, g, q.stack) => Reads(h, g, u)
  BY GoesOnOK
<1> QED BY <1>1 DEF Unwanted

LEMMA SkipElementStep ==
  ASSUME Between(heap, reader), SkipElement
  PROVE  Between(heap', reader')
<1> DEFINE q == Unwanted(reader)
<1>1. AtItem("Array") /\ Step(heap, q)
  BY DEF SkipElement
<1>2. IsReader(reader) /\ reader.stack # <<>> /\ reader.at = "next"
  BY <1>1, AtItemParts
<1>3. IsReader(q) /\ \A g : Pinned(heap, g, reader.stack) => Reads(heap, g, q)
  BY <1>2, UnwantedReads
<1> HIDE DEF q
<1>4. \A g : Reads(heap, g, reader) => Reads(heap, g, q)
  BY <1>2, <1>3 DEF Reads
<1> QED BY <1>1, <1>3, <1>4, StepSame

LEMMA SkipKeyStep ==
  ASSUME Between(heap, reader), SkipKey
  PROVE  Between(heap', reader')
<1> DEFINE q == Unwanted(Eaten(reader))
<1>1. AtItem("Object") /\ reader.rest # <<>> /\ Step(heap, q)
  BY DEF SkipKey, AtKey
<1>2. IsReader(reader) /\ reader.stack # <<>> /\ reader.at = "next"
  BY <1>1, AtItemParts
<1>3. IsReader(Eaten(reader)) /\ Eaten(reader).stack = reader.stack
  BY <1>1, <1>2, EatenOK
<1>4. IsReader(q) /\ \A g : Pinned(heap, g, reader.stack) => Reads(heap, g, q)
  BY <1>2, <1>3, UnwantedReads
<1> HIDE DEF q
<1>5. \A g : Reads(heap, g, reader) => Reads(heap, g, q)
  BY <1>2, <1>4 DEF Reads
<1> QED BY <1>1, <1>4, <1>5, StepSame

\* The next element of an array gets a slot.
LEMMA ReadElementStep ==
  ASSUME Between(heap, reader), NEW bad \in SUBSET Nat, ReadElement(bad)
  PROVE  Between(heap', reader')
<1> DEFINE c == Top.node
           h == Refusing(bad)
           r == addElement(h, c)
           filter == ElementFilter(Top.filter)
<1>1. /\ AtItem("Array") /\ c # NullSlot
      /\ Step(r.heap, IF r.id = NullSlot THEN Failed(reader, "NoMemory") ELSE GoesOn(reader, r.id, filter))
  BY DEF ReadElement
<1>2. IsReader(reader) /\ reader.stack # <<>>
  BY <1>1, AtItemParts
<1>3. PICK g : /\ Sound(heap, g) /\ g.pending = {} /\ Pinned(heap, g, reader.stack)
               /\ Top.node # NullSlot => Top.node \in Live(g) /\ heap.cell[Top.node].type = "Array"
  BY <1>1, AtItemParts
<1>4. Sound(h, g) /\ h.cell = heap.cell /\ h \in Heaps
  BY <1>3, RefusingSound
<1> HIDE DEF h
<1>5. c \in Live(g) /\ h.cell[c].type = "Array" /\ Pinned(h, g, reader.stack) /\ c \in Ids
  BY <1>1, <1>3, <1>4, PinnedSame, SoundParts
<1>6. Grows(h, r.heap) /\ r.id \in Links
  BY <1>4, <1>5, addElementGrows
<1>7. Len(r.heap.pools) <= MaxPools =>
        /\ \E m : Gives(h, g, r, m, Top.node)
        /\ r.id # NullSlot => r.heap.cell[r.id].type = "Null"
  BY <1>4, <1>5, addElementSound
<1> HIDE DEF r, filter
<1>8. Top.node # NullSlot
  BY <1>1
<1> HIDE DEF c
<1> QED BY <1>1, <1>2, <1>3, <1>4, <1>5, <1>6, <1>7, <1>8, ItemStep

-----------------------------------------------------------------------------
\* The member for a key: its slot is null, new or cleared.
LEMMA MemberForSound ==
  ASSUME NEW h, NEW g, Sound(h, g), NEW c \in Live(g), h.cell[c].type = "Object",
         NEW key \in Texts \cup TinyTexts
  PROVE  LET r == MemberFor(h, c, key)
         IN /\ Grows(h, r.heap) /\ r.id \in Links
            /\ Len(r.heap.pools) <= MaxPools =>
                 /\ \E m : Gives(h, g, r, m, c)
                 /\ r.id # NullSlot => r.heap.cell[r.id].type = "Null"
<1> DEFINE r == MemberFor(h, c, key)
           id == getMember(h, c, key)
           k == Clear(h, id)
           n == AddNamedPair(h, c, key)
<1>1. h \in Heaps /\ c \in Ids /\ Live(g) \subseteq Ids
  BY SoundParts
<1>2. id \in Links
  BY <1>1, getOrAddMemberGrows
<1>3. id # NullSlot => id \in Live(g) /\ g.born[c] < g.born[id]
  BY getMemberOK
<1>4. r = IF Json /\ id # NullSlot THEN [heap |-> k, id |-> id] ELSE n
  BY DEF MemberFor
<1> HIDE DEF id, r
<1>5. CASE Json /\ id # NullSlot
  <2>1. r.heap = k /\ r.id = id
    BY <1>4, <1>5
  <2>2. Grows(h, k)
    BY <1>1, <1>3, <1>5, ClearOK
  <2>3. PICK m : k.cell[id].type = "Null" /\ Leads(h, g, k, m, id)
    BY <1>3, <1>5, ClearSound
  <2> HIDE DEF k
  <2>4. Leads(h, g, k, m, c) /\ k.cell[c].type = h.cell[c].type
    BY <1>3, <1>5, <2>3, LeadsUp
  <2>5. id \in Live(m) /\ m.born[c] < m.born[id]
    BY <1>3, <1>5, <2>3, <2>4 DEF Leads
  <2>6. Gives(h, g, r, m, c)
    BY <2>1, <2>4, <2>5 DEF Gives
  <2> QED BY <1>2, <2>1, <2>2, <2>3, <2>6 DEF r
<1>6. CASE ~(Json /\ id # NullSlot)
  <2>1. r = n
    BY <1>4, <1>6
  <2>2. Sane(h, n)
    BY <1>1, AddNamedPairGrows
  <2>3. Len(n.heap.pools) <= MaxPools =>
          /\ \E m : Gives(h, g, n, m, c)
          /\ n.id # NullSlot => n.heap.cell[n.id].type = "Null"
    BY AddNamedPairSound
  <2> HIDE DEF n
  <2> QED BY <2>1, <2>2, <2>3 DEF Sane, r
<1> QED BY <1>5, <1>6

\* The next key of an object gets a member.
LEMMA ReadKeyStep ==
  ASSUME Between(heap, reader), NEW bad \in SUBSET Nat, ReadKey(bad)
  PROVE  Between(heap', reader')
<1> DEFINE key == Token1.text
           c == Top.node
           built == BuildString(Refusing(bad), key)
           wanted == Top.node # NullSlot /\ allow(SubFilter(Top.filter, key))
           r == MemberFor(built.heap, c, key)
           there == Json /\ getMember(heap, Top.node, key) # NullSlot
           read == [Eaten(reader) EXCEPT !.buffer = ~wanted \/ there \/ KeepsBuffer(heap, key)]
           failed == [Failed(reader, "NoMemory") EXCEPT !.buffer = FALSE]
           filter == SubFilter(Top.filter, key)
<1>1. /\ AtItem("Object") /\ reader.rest # <<>> /\ Token1.type = "Key"
      /\ IF ~built.ok THEN Step(built.heap, failed)
         ELSE IF ~wanted THEN Step(built.heap, Unwanted(read))
         ELSE Step(r.heap, IF r.id = NullSlot THEN Failed(reader, "NoMemory") ELSE GoesOn(read, r.id, filter))
  BY DEF ReadKey, AtKey
<1>2. IsReader(reader) /\ reader.stack # <<>>
  BY <1>1, AtItemParts
<1>3. PICK g : /\ Sound(heap, g) /\ g.pending = {} /\ Pinned(heap, g, reader.stack)
               /\ Top.node # NullSlot => Top.node \in Live(g) /\ heap.cell[Top.node].type = "Object"
  BY <1>1, AtItemParts
<1>4. key \in Texts \cup TinyTexts
  <2>1. reader.rest \in Seq(Tokens)
    BY <1>2 DEF IsReader
  <2>2. Token1 \in Tokens
    <3> HIDE DEF Tokens
    <3> QED BY <1>1, <2>1 DEF Token1
  <2> QED BY <1>1, <2>2 DEF Tokens, Collections
<1>5. IsReader(read) /\ read.stack = reader.stack /\ IsReader(failed) /\ \A h, m : Reads(h, m, failed)
  BY <1>1, <1>2, EatenOK, BufferOK, FailedOK
<1> DEFINE h == Refusing(bad)
           l == built.heap
<1>6. Sound(h, g) /\ h.cell = heap.cell
  BY <1>3, RefusingSound
<1> HIDE DEF h
<1>7. /\ l \in Heaps /\ l.cell = h.cell /\ Grows(h, l) /\ Sound(l, g)
      /\ \A v \in Live(g) : Leads(h, g, l, g, v)
  <2>1. l = BuildString(h, key).heap
    BY DEF h
  <2> HIDE DEF l, key, built
  <2> QED BY <1>6, <2>1, BuildStringSound
<1>8. Pinned(l, g, reader.stack) /\ Root \in Live(g)
  BY <1>3, <1>6, <1>7, PinnedSame, SoundParts
<1> HIDE DEF read, failed, filter, wanted, built, key
<1>9. CASE ~built.ok
  <2>1. Step(l, failed)
    BY <1>1, <1>9
  <2> HIDE DEF l
  <2>2. Leads(h, g, l, g, Root)
    BY <1>7, <1>8
  <2> QED BY <1>3, <1>5, <1>6, <1>7, <2>1, <2>2, StepFine
<1>10. CASE built.ok /\ ~wanted
  <2> DEFINE q == Unwanted(read)
  <2>1. Step(l, q)
    BY <1>1, <1>10
  <2>2. IsReader(q) /\ Reads(l, g, q)
    BY <1>2, <1>5, <1>8, UnwantedReads
  <2>3. Leads(h, g, l, g, Root)
    BY <1>7, <1>8
  <2> HIDE DEF l, q
  <2> QED BY <1>3, <1>6, <1>7, <2>1, <2>2, <2>3, StepFine
<1>11. CASE built.ok /\ wanted
  <2>1. Step(r.heap, IF r.id = NullSlot THEN Failed(reader, "NoMemory") ELSE GoesOn(read, r.id, filter))
    BY <1>1, <1>11
  <2>2. c # NullSlot
    BY <1>11 DEF wanted
  <2>3. c \in Live(g) /\ l.cell[c].type = "Object"
    BY <1>3, <1>6, <1>7, <2>2
  <2>4. r = MemberFor(l, c, key)
    OBVIOUS
  <2> HIDE DEF l, r
  <2>5. /\ Grows(l, r.heap) /\ r.id \in Links
        /\ Len(r.heap.pools) <= MaxPools =>
             /\ \E m : Gives(l, g, r, m, Top.node)
             /\ r.id # NullSlot => r.heap.cell[r.id].type = "Null"
    BY <1>4, <1>7, <2>3, <2>4, MemberForSound
  <2>6. Top.node # NullSlot
    BY <2>2
  <2> HIDE DEF c
  <2> QED BY <1>2, <1>3, <1>5, <1>7, <1>8, <2>1, <2>5, <2>6, ItemStep
<1> QED BY <1>9, <1>10, <1>11

-----------------------------------------------------------------------------
(***************************************************************************)
(* The begin and the end of a reading, and all its steps.                  *)
(***************************************************************************)

\* Without a reader the invariant speaks of the heap only.
LEMMA IdleBetween ==
  ASSUME NEW h
  PROVE  /\ Holds(h) => Between(h, NoReader)
         /\ \A r : r.at = "idle" => (Between(h, r) <=> Holds(h))
<1>1. NoReader.at = "idle"
  BY DEF NoReader
<1>2. ASSUME NEW r, r.at = "idle" PROVE /\ Between(h, r) <=> Holds(h)
  <2>1. \A g : Reads(h, g, r)
    BY <1>2 DEF Reads
  <2> QED BY <1>2, <2>1 DEF Between, Holds
<1> QED BY <1>1, <1>2

\* A reader that is left alone leaves a heap in order.
LEMMA HoldsAnyway ==
  ASSUME NEW h, NEW r, Between(h, r)
  PROVE  Holds(h)
  BY DEF Between, Holds

\* A reading begins: the document is cleared first.
LEMMA StartStep ==
  ASSUME Between(heap, reader), NEW input \in Inputs, NEW dst \in References, NEW whole \in BOOLEAN,
         NEW filter, NEW limit, Start(input, whole, dst, filter, limit)
  PROVE  Between(heap', reader')
<1> DEFINE k == IF whole THEN clearAll(heap) ELSE Clear(heap, dst)
           q == [at |-> "value", input |-> input, rest |-> input.tokens, whole |-> whole,
                 dst |-> dst, filter |-> filter, limit |-> limit, stack |-> <<>>,
                 target |-> dst, sub |-> filter, buffer |-> FALSE, result |-> "Ok"]
<1>1. /\ whole => dst = Root
      /\ reader.at = "idle" /\ PoolsNumbered /\ dst \in Variants(heap) /\ Leaves(k) /\ reader' = q
  BY DEF Start, Counts, References
<1>2. Holds(heap)
  BY HoldsAnyway
<1>3. IsReader(q)
  <2>1. /\ DOMAIN q = {"at", "input", "rest", "whole", "dst", "filter", "limit", "stack", "target",
                       "sub", "buffer", "result"}
        /\ q.at = "value" /\ q.rest = input.tokens /\ q.stack = <<>>
    OBVIOUS
  <2>2. input.tokens \in Seq(Tokens)
    BY InputAssumption
  <2> HIDE DEF q, Tokens
  <2>3. q.stack \in Seq({}) /\ \A i \in 1..Len(q.stack) : IsFrame(q.stack[i])
    BY <2>1
  <2> QED BY <2>1, <2>2, <2>3 DEF IsReader
<1>4. q.at = "value" /\ q.stack = <<>> /\ q.target = dst
  OBVIOUS
<1> HIDE DEF q
<1>5. \A h, g : dst \in Live(g) /\ dst # NullSlot /\ h.cell[dst].type = "Null" => Reads(h, g, q)
  <2>1. \A i \in 1..Len(q.stack) : FALSE
    BY <1>4
  <2>2. \A h, g : Pinned(h, g, q.stack) /\ Above(g, q.stack, dst)
    BY <2>1 DEF Pinned, Above
  <2> QED BY <1>4, <2>2 DEF Reads
<1>6. /\ k \in Heaps /\ Counted(k)
      /\ \E g : Sound(k, g) /\ g.pending = {} /\ Reads(k, g, q)
  <2>1. CASE whole
    <3> DEFINE l == clearAll(heap)
    <3>1. /\ Holds(l) /\ Sound(l, EmptyTree) /\ l.cell = EmptyHeap.cell
          /\ EmptyTree.pending = {} /\ Root \in Live(EmptyTree)
      BY <1>2, ClearedHolds
    <3>2. k = l /\ dst = Root
      BY <1>1, <2>1
    <3> HIDE DEF l, k
    <3>3. l.cell[Root].type = "Null"
      BY <3>1, EmptyHeapOK
    <3>4. Reads(l, EmptyTree, q)
      BY <1>5, <3>1, <3>2, <3>3, Constants
    <3> QED BY <3>1, <3>2, <3>4 DEF Holds
  <2>2. CASE ~whole
    <3>1. PICK g : Sound(heap, g) /\ g.pending = {} /\ dst \in Live(g)
      BY <1>1, <1>2, VariantsLive DEF Holds, PoolsNumbered
    <3> DEFINE l == Clear(heap, dst)
    <3>2. PICK m : l.cell[dst].type = "Null" /\ l \in Heaps /\ Leads(heap, g, l, m, dst)
      BY <3>1, ClearSound
    <3>3. k = l
      BY <2>2
    <3> HIDE DEF l, k
    <3>4. Sound(l, m) /\ m.pending = {} /\ dst \in Live(m) /\ dst # NullSlot
      BY <3>1, <3>2, SoundParts, Constants DEF Leads
    <3>5. Reads(l, m, q)
      BY <1>5, <3>2, <3>4
    <3> QED BY <3>2, <3>3, <3>4, <3>5 DEF Sound
  <2> QED BY <2>1, <2>2
<1> HIDE DEF k
<1> QED BY <1>1, <1>3, <1>6, StepLeaves

LEMMA NullArrayStep ==
  ASSUME NullArray
  PROVE  Between(heap', reader')
<1>1. heap' = EmptyHeap /\ reader' = NoReader
  BY DEF NullArray
<1>2. Between(EmptyHeap, NoReader)
  BY EmptyHolds, IdleBetween
<1> QED BY <1>1, <1>2

\* It ends: what is not used is given back.
LEMMA FinishStep ==
  ASSUME Between(heap, reader), NEW bad \in SUBSET Nat, Finish(bad)
  PROVE  Between(heap', reader')
<1> DEFINE k == IF reader.whole THEN shrinkToFit(Refusing(bad)) ELSE heap
<1>1. Leaves(k) /\ reader' = NoReader
  BY DEF Finish, Step
<1>2. Holds(heap)
  BY HoldsAnyway
<1>3. Holds(k)
  BY <1>2, RefusingHolds, ShrunkHolds
<1> HIDE DEF k
<1>4. Holds(heap')
  BY <1>1, <1>3, LeavesHolds
<1>5. Between(heap', NoReader)
  BY <1>4, IdleBetween
<1> QED BY <1>1, <1>5

\* Every step of a reader.
LEMMA ReaderStep ==
  ASSUME Between(heap, reader), ReaderNext
  PROVE  Between(heap', reader')
<1>1. ASSUME NEW input \in Inputs, NEW dst \in References, NEW whole \in BOOLEAN,
             NEW filter \in ReadFilters, NEW limit \in Limits, Start(input, whole, dst, filter, limit)
      PROVE  Between(heap', reader')
  BY <1>1, StartStep
<1>2. CASE SkipValue
  BY <1>2, SkipValueStep
<1>3. CASE ReadInline
  BY <1>3, ReadInlineStep
<1>4. CASE OpenCollection
  BY <1>4, OpenCollectionStep
<1>5. CASE CloseCollection
  BY <1>5, CloseCollectionStep
<1>6. CASE SkipElement
  BY <1>6, SkipElementStep
<1>7. CASE NullArray
  BY <1>7, NullArrayStep
<1>8. CASE SkipKey
  BY <1>8, SkipKeyStep
<1>9. CASE BadInput
  <2>1. reader.at # "idle" /\ \E error : Step(heap, Failed(reader, error))
    BY <1>9 DEF BadInput
  <2> QED BY <2>1, FailedStep
<1>10. CASE CutKeyword
  BY <1>10, CutKeywordStep
<1>11. CASE TrailingCharacter
  <2>1. reader.at # "idle" /\ Step(heap, Failed(reader, "InvalidInput"))
    BY <1>11 DEF TrailingCharacter
  <2> QED BY <2>1, FailedStep
<1>12. ASSUME NEW bad \in Refusals, ReadWide(bad) \/ ReadString(bad) \/ ReadElement(bad) \/ ReadKey(bad)
       PROVE  Between(heap', reader')
  <2>1. bad \in SUBSET Nat
    BY DEF Refusals
  <2> QED BY <1>12, <2>1, ReadWideStep, ReadStringStep, ReadElementStep, ReadKeyStep
<1>13. ASSUME NEW bad \in RefusalOfFirst, Finish(bad) PROVE Between(heap', reader')
  <2>1. bad \in SUBSET Nat
    BY DEF RefusalOfFirst
  <2> QED BY <1>13, <2>1, FinishStep
<1> QED BY <1>1, <1>2, <1>3, <1>4, <1>5, <1>6, <1>7, <1>8, <1>9, <1>10, <1>11, <1>12, <1>13 DEF ReaderNext

-----------------------------------------------------------------------------
(***************************************************************************)
(* The theorems: for every document, every number and capacity of pools,   *)
(* all calls with all values, refusals of memory and readings.             *)
(***************************************************************************)
IInv == Between(heap, reader)

\* The invariant holds at first and is preserved by every step.
THEOREM JsonInvariant == JsonSpec => []IInv
<1>1. DocInit => IInv
  BY EmptyHolds, IdleBetween DEF DocInit, IInv
<1>2. IInv /\ [JsonNext]_docVars => IInv'
  <2> SUFFICES ASSUME IInv, [JsonNext]_docVars PROVE IInv'
    OBVIOUS
  <2>1. Between(heap, reader) /\ Holds(heap)
    BY HoldsAnyway DEF IInv
  <2>2. CASE DocNext
    <3>1. Holds(heap') /\ reader' = reader /\ reader.at = "idle"
      BY <2>1, <2>2, DocStep
    <3>2. Between(heap', reader)
      BY <3>1, IdleBetween
    <3> QED BY <3>1, <3>2 DEF IInv
  <2>3. CASE ReaderNext
    BY <2>1, <2>3, ReaderStep DEF IInv
  <2>4. CASE UNCHANGED docVars
    BY <2>1, <2>4 DEF IInv, docVars
  <2> QED BY <2>2, <2>3, <2>4 DEF JsonNext
<1> QED BY <1>1, <1>2, PTL DEF JsonSpec

\* Pools hold what they have room for; no string has references less than none.
THEOREM HeapTyped == JsonSpec => []TypeOK
<1>1. IInv => TypeOK
  <2> SUFFICES ASSUME IInv PROVE TypeOK
    OBVIOUS
  <2>1. heap \in Heaps /\ Counted(heap)
    BY DEF IInv, Between
  <2>2. ASSUME NEW t \in Texts PROVE heap.refs[t] >= 0
    <3>1. heap.refs[t] \in Int /\ Cardinality(Strings(heap, t)) \in Nat
          /\ heap.refs[t] >= Cardinality(Strings(heap, t))
      BY <2>1, HeapParts, HoldersFinite DEF Counted
    <3> QED BY <3>1
  <2> QED BY <2>1, <2>2 DEF TypeOK, HeapTypeOK, Counted
<1> QED BY <1>1, JsonInvariant, PTL

\* The invariant gives the tree that the properties are about.
LEMMA HoldsATree ==
  ASSUME IInv, PoolsNumbered
  PROVE  \E g : Good(heap, g) /\ g.pending = {} /\ g.out = {}
  BY SoundParts DEF IInv, Between, PoolsNumbered

\* No slot is used twice, none is forgotten unless memory was refused, and
\* every chain ends at its tail.
THEOREM SlotsUsedOnce == JsonSpec => []SlotsOnce
<1>1. IInv => SlotsOnce
  <2> SUFFICES ASSUME IInv, PoolsNumbered PROVE SlotsOnce
    BY DEF SlotsOnce
  <2>1. PICK g : Good(heap, g) /\ g.pending = {} /\ g.out = {}
    BY HoldsATree
  <2>2. heap.lost # {} => heap.overflowed
    BY DEF IInv, Between, Counted
  <2> QED BY <2>1, <2>2, SlotsAreOnce DEF SlotsOnce
<1> QED BY <1>1, JsonInvariant, PTL

\* A shared string has as many references as there are variants with it.
THEOREM StringsStayCounted == JsonSpec => []StringsCounted
<1>1. IInv => StringsCounted
  <2> SUFFICES ASSUME IInv, PoolsNumbered
               PROVE  \A t \in Texts : heap.refs[t] = Cardinality(Holders(heap, Variants(heap), t))
    BY DEF StringsCounted
  <2>1. PICK g : Good(heap, g) /\ g.pending = {}
    BY HoldsATree
  <2> QED BY <2>1, StringsAreCounted
<1> QED BY <1>1, JsonInvariant, PTL

=============================================================================
