------------------------------ MODULE JsonTree ------------------------------
(***************************************************************************)
(* ArduinoJson's variants: values, arrays and objects as chains of slots   *)
(* (VariantData, CollectionData, ArrayData, ObjectData).  "c" is the slot  *)
(* of a collection.  In an object's chain every key is followed by its     *)
(* value.                                                                  *)
(***************************************************************************)
EXTENDS JsonMemory, SequencesExt

CONSTANT MaxNesting   \* bound: how deep the values are nested

ASSUME NestingAssumption == MaxNesting \in Nat

\* The slots of the chain that begins with "first": its first n, as they are
\* walked along.
Chain(h, first) ==
  LET upTo[n \in 0..NullSlot] ==
        LET s == upTo[n - 1]
            id == IF s = <<>> THEN first ELSE h.cell[s[Len(s)]].next
        IN IF n = 0 THEN <<>> ELSE IF id = NullSlot THEN s ELSE Append(s, id)
  IN upTo[NullSlot]
Children(h, v) == IF h.cell[v].type \in Collections THEN Chain(h, h.cell[v].head) ELSE <<>>

\* The first slot below a slot: an item's, or the extension's.
Below(h, v) ==
  IF h.cell[v].type \in Collections \cup {"Wide"} THEN h.cell[v].head ELSE NullSlot

\* What clear() frees: along a chain what is below a slot, the slot, and what
\* follows.  The last one freed comes first, as in the list of free slots; no
\* path is longer than there are slots.
Walk(h) ==
  LET from[n \in 0..NullSlot] ==
        [id \in Links |->
           IF n = 0 \/ id = NullSlot THEN <<>>
           ELSE from[n - 1][h.cell[id].next] \o <<id>> \o from[n - 1][Below(h, id)]]
  IN from[NullSlot]
Under(h, v) == Walk(h)[Below(h, v)]

InPool == {"OwnedString", "RawString"}
Holders(h, ids, text) == {id \in ids : h.cell[id].type \in InPool /\ h.cell[id].text = text}

\* Variant: the string keeps its reference.
Clear_KeepsString(h, v) ==
  LET freed == Under(h, v)
  IN [h EXCEPT !.free = freed \o @,
               !.cell = [id \in DOMAIN @ |->
                  IF id = v THEN [NullVariant EXCEPT !.next = h.cell[id].next]
                  ELSE IF id \in ToSet(freed) THEN Vacant ELSE @[id]],
               !.refs = [t \in Texts |-> @[t] - Cardinality(Holders(h, ToSet(freed), t))]]

\* VariantData::clear() and all it calls.
Clear(h, v) ==
  LET freed == Under(h, v)
  IN [h EXCEPT !.free = freed \o @,
               !.cell = [id \in DOMAIN @ |->
                  IF id = v THEN [NullVariant EXCEPT !.next = h.cell[id].next]
                  ELSE IF id \in ToSet(freed) THEN Vacant ELSE @[id]],
               !.refs = [t \in Texts |->
                  @[t] - Cardinality(Holders(h, ToSet(freed) \cup {v}, t))]]

freeVariant(h, id) == freeSlot(Clear(h, id), id)

-----------------------------------------------------------------------------
(***************************************************************************)
(* Values.  A value to set is a tree: its type, its text, its items.       *)
(***************************************************************************)
Leaf(type, text) == [type |-> type, text |-> text, items |-> <<>>]
Scalars == {Leaf("Null", NoText), Leaf("Inline", NoText), Leaf("Wide", NoText)}
             \cup {Leaf("String", t) : t \in Texts \cup TinyTexts}
             \cup {Leaf("Raw", t) : t \in Texts}

\* All values nested at most so deep.
Items(keys, values) == Seq([key : keys, value : values])
TreesOf[n \in 0..MaxNesting] ==
  IF n = 0 THEN Scalars
  ELSE TreesOf[n - 1]
         \cup [type : {"Array"}, text : {NoText}, items : Items({NoText}, TreesOf[n - 1])]
         \cup [type : {"Object"}, text : {NoText}, items : Items(Texts \cup TinyTexts, TreesOf[n - 1])]
Trees == TreesOf[MaxNesting]

Typed(h, v, type) == [h EXCEPT !.cell[v].type = type]
toArray(h, v) == Typed(Clear(h, v), v, "Array")
toObject(h, v) == Typed(Clear(h, v), v, "Object")

\* The setters want a cleared variant.
Stored(r, v, type, text) ==
  IF r.ok THEN [r EXCEPT !.heap.cell[v].type = type, !.heap.cell[v].text = text] ELSE r

setString(h, v, text) ==
  IF text \in TinyTexts THEN Stored([heap |-> h, ok |-> TRUE], v, "TinyString", text)
  ELSE Stored(saveString(h, text), v, "OwnedString", text)
setRawString(h, v, text) == Stored(saveString(h, text), v, "RawString", text)

\* A number that needs 64 bits.
Extended(r, v) ==
  IF r.id = NullSlot THEN [heap |-> r.heap, ok |-> FALSE]
  ELSE [heap |-> [r.heap EXCEPT !.cell[v].type = "Wide", !.cell[v].head = r.id], ok |-> TRUE]
setWide(h, v) == Extended(allocExtension(h), v)

SetCleared(h, v, value) ==
  CASE value.type = "Wide" -> setWide(h, v)
    [] value.type = "String" -> setString(h, v, value.text)
    [] value.type = "Raw" -> setRawString(h, v, value.text)
    [] OTHER -> [heap |-> Typed(h, v, value.type), ok |-> TRUE]

\* set() of a scalar: for strings and null the answer is not that of the
\* setter but whether any allocation has failed since the document was empty.
Answer(r, value) ==
  IF value.type \in {"String", "Raw", "Null"} THEN [r EXCEPT !.ok = ~r.heap.overflowed] ELSE r
Set(h, v, value) == Answer(SetCleared(Clear(h, v), v, value), value)

-----------------------------------------------------------------------------
(***************************************************************************)
(* Collections.                                                            *)
(***************************************************************************)
Link(h, c, first, last) ==
  IF h.cell[c].tail # NullSlot
  THEN [h EXCEPT !.cell[h.cell[c].tail].next = first, !.cell[c].tail = last]
  ELSE [h EXCEPT !.cell[c].head = first, !.cell[c].tail = last]

appendOne(h, c, id) == Link(h, c, id, id)
appendPair(h, c, key, value) == Link([h EXCEPT !.cell[key].next = value], c, key, value)

getPreviousSlot(h, c, id) ==
  LET s == Children(h, c)
      n == CHOOSE i \in DOMAIN s : s[i] = id
  IN IF n = 1 THEN NullSlot ELSE s[n - 1]

removeOne(h, c, id) ==
  LET before == getPreviousSlot(h, c, id)
      after == h.cell[id].next
      g == IF before # NullSlot THEN [h EXCEPT !.cell[before].next = after]
           ELSE [h EXCEPT !.cell[c].head = after]
  IN freeVariant(IF after = NullSlot THEN [g EXCEPT !.cell[c].tail = before] ELSE g, id)

removePair(h, c, key) ==
  LET value == h.cell[key].next
  IN removeOne(freeVariant([h EXCEPT !.cell[key].next = h.cell[value].next], value), c, key)

Elements(h, c) == Children(h, c)
\* The first key that is "text", or NullSlot.
findKey(h, c, text) ==
  LET s == Children(h, c)
      found == {i \in DOMAIN s : i % 2 = 1 /\ h.cell[s[i]].text = text
                                 /\ h.cell[s[i]].type \in {"TinyString", "OwnedString"}}
  IN IF found = {} THEN NullSlot ELSE s[CHOOSE i \in found : \A j \in found : i <= j]

getMember(h, c, text) ==
  IF findKey(h, c, text) = NullSlot THEN NullSlot ELSE h.cell[findKey(h, c, text)].next

addElement(h, c) ==
  IfGiven(allocVariant(h), LAMBDA g, id : [heap |-> appendOne(g, c, id), id |-> id])

\* Elements are added up to the index; those before a failure stay.
AddElements(h, c, n) ==
  LET added[k \in 0..n] ==
        IF k = 0 THEN [heap |-> h, id |-> c]
        ELSE IfGiven(added[k - 1], LAMBDA g, id : addElement(g, c))
  IN added[n]

getOrAddElement(h, c, index) ==
  IF index < Len(Elements(h, c)) THEN [heap |-> h, id |-> Elements(h, c)[index + 1]]
  ELSE AddElements(h, c, index + 1 - Len(Elements(h, c)))

\* The slot of a value that was not set is given back.
Linked(r, c, id) ==
  IF r.ok THEN [heap |-> appendOne(r.heap, c, id), id |-> id]
  ELSE [heap |-> freeVariant(r.heap, id), id |-> NullSlot]

\* Nobody gives a key's slot back when the value's, or its string, is refused.
Lose(r, ids) == IF r.id = NullSlot THEN [r EXCEPT !.heap.lost = @ \cup ids] ELSE r

Named(r, id) == IF r.ok THEN [heap |-> r.heap, id |-> id] ELSE [heap |-> r.heap, id |-> NullSlot]
addMember(h, c, text) ==
  IfGiven(allocVariant(h), LAMBDA h1, key :
    Lose(IfGiven(allocVariant(h1), LAMBDA h2, value :
           IfGiven(Lose(Named(setString(h2, key, text), value), {key, value}),
                   LAMBDA h3, id : [heap |-> appendPair(h3, c, key, id), id |-> id])), {key}))

getOrAddMember(h, c, text) ==
  LET id == getMember(h, c, text)
  IN IF id # NullSlot THEN [heap |-> h, id |-> id] ELSE addMember(h, c, text)

\* addPair(), and the reader's save() of the key, whose string it has.
KeySaved(h, key, text) ==
  IF text \in TinyTexts THEN setString(h, key, text).heap
  ELSE [commitString(h, text) EXCEPT !.cell[key].type = "OwnedString", !.cell[key].text = text]
AddNamedPair(h, c, text) ==
  IfGiven(allocVariant(h), LAMBDA h1, key :
    Lose(IfGiven(allocVariant(h1), LAMBDA h2, value :
           [heap |-> KeySaved(appendPair(h2, c, key, value), key, text), id |-> value]), {key}))

\* copyVariant(): what was copied before a failure stays; the answer of every
\* set() on the way is whether any allocation has failed.  "copy" copies what
\* is nested less deeply.
Answered(h) == [heap |-> h, ok |-> ~h.overflowed]
CopyItem(copy, h, v, type, item) ==
  IF type = "Array"
  THEN IfGiven(allocVariant(h), LAMBDA g, id : Linked(Answered(copy[g][id][item.value]), v, id))
  ELSE IfGiven(getOrAddMember(h, v, item.key), LAMBDA g, id :
         Named(Answered(copy[g][id][item.value]), id))
CopyItems(copy, h, v, tree) ==
  LET copied[n \in 0..Len(tree.items)] ==
        IF n = 0 THEN [heap |-> Typed(Clear(h, v), v, tree.type), id |-> v]
        ELSE IfGiven(copied[n - 1], LAMBDA g, id : CopyItem(copy, g, v, tree.type, tree.items[n]))
  IN copied[Len(tree.items)].heap
CopyTo[n \in 0..MaxNesting] ==
  [h \in Heaps |-> [v \in Ids |-> [tree \in Trees |->
     IF n = 0 \/ tree.type \notin Collections THEN Set(h, v, tree).heap
     ELSE CopyItems(CopyTo[n - 1], h, v, tree)]]]
Copy(h, v, tree) == CopyTo[MaxNesting][h][v][tree]

\* addValue(): a collection is set by copying it.
addValue(h, c, value) ==
  IfGiven(allocVariant(h), LAMBDA g, id :
    Linked(IF value.type \in Collections THEN Answered(Copy(g, id, value)) ELSE Set(g, id, value),
         c, id))

\* The variants that can be reached from the root.
Reached(h) == ToSet(Under(h, Root))
Variants(h) == {Root} \cup {id \in Reached(h) : h.cell[id].type \in VariantTypes}
=============================================================================
