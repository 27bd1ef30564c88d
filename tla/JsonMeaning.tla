---------------------------- MODULE JsonMeaning ----------------------------
(***************************************************************************)
(* What the cells of a heap mean: the value of a variant as a tree.  What  *)
(* the serializers write of a tree, and what a deserializer is to make of  *)
(* it under a filter.                                                      *)
(***************************************************************************)
EXTENDS JsonReader

RECURSIVE TreeOf(_, _)
TreeOf(h, v) ==
  LET cell == h.cell[v]
      s == Children(h, v)
  IN CASE cell.type = "Array" ->
            [type |-> "Array", text |-> NoText,
             items |-> [i \in DOMAIN s |-> [key |-> NoText, value |-> TreeOf(h, s[i])]]]
       [] cell.type = "Object" ->
            [type |-> "Object", text |-> NoText,
             items |-> [i \in 1..(Len(s) \div 2) |->
                [key |-> h.cell[s[2 * i - 1]].text, value |-> TreeOf(h, s[2 * i])]]]
       [] cell.type \in {"TinyString", "OwnedString"} -> Leaf("String", cell.text)
       [] cell.type = "RawString" -> Leaf("Raw", cell.text)
       [] OTHER -> Leaf(cell.type, NoText)

\* nesting(), of a tree.
RECURSIVE Nesting(_)
Nesting(tree) ==
  IF tree.type \notin Collections THEN 0
  ELSE 1 + FoldSeq(LAMBDA item, deepest :
             IF Nesting(item.value) > deepest THEN Nesting(item.value) ELSE deepest,
             0, tree.items)

-----------------------------------------------------------------------------
\* What the serializers write: JSON closes a collection, MessagePack says how
\* many items it has.
Token(type, text, count) == [type |-> type, text |-> text, count |-> count]
RECURSIVE Serialized(_, _)
Serialized(format, tree) ==
  LET items == FlattenSeq([i \in DOMAIN tree.items |->
        (IF tree.type = "Object" THEN <<Token("Key", tree.items[i].key, 0)>> ELSE <<>>)
          \o Serialized(format, tree.items[i].value)])
  IN IF tree.type \notin Collections THEN <<Token(tree.type, tree.text, 0)>>
     ELSE <<Token(tree.type, NoText, Len(tree.items))>> \o items
            \o (IF format = "Json" THEN <<Token("Close", NoText, 0)>> ELSE <<>>)

-----------------------------------------------------------------------------
(***************************************************************************)
(* What a filter lets through, and what becomes of keys that are repeated. *)
(***************************************************************************)
LastOf(items, i) == items[CHOOSE j \in i..Len(items) :
  items[j].key = items[i].key /\ \A k \in (j + 1)..Len(items) : items[k].key # items[i].key]
FirstKeys(items) == SetToSortSeq({i \in DOMAIN items : \A j \in 1..(i - 1) : items[j].key # items[i].key}, <)
Merged(items) == [n \in DOMAIN FirstKeys(items) |-> LastOf(items, FirstKeys(items)[n])]

RECURSIVE Kept(_, _, _)
Kept(format, filter, tree) ==
  LET sub(item) == IF tree.type = "Array" THEN ElementFilter(filter) ELSE SubFilter(filter, item.key)
      wanted == SelectSeq(tree.items, LAMBDA item : allow(sub(item)))
      items == IF tree.type = "Object" /\ format = "Json" THEN Merged(wanted) ELSE wanted
  IN IF filter = True \/ (tree.type \in Collections /\ filter.type = tree.type)
     THEN [tree EXCEPT !.items = [i \in DOMAIN items |->
             [items[i] EXCEPT !.value = Kept(format, sub(items[i]), items[i].value)]]]
     ELSE Nothing

\* A reading that says Ok has put into the document what the filter lets
\* through of what was written, each repeated key once (JSON), whatever was in
\* the document before; it says TooDeep for what is nested deeper than the
\* limit and NoMemory only when memory was refused (JsonDeserializer.hpp,
\* MsgPackDeserializer.hpp).
ParsedAsMeant ==
  (reader.at = "end" /\ PoolsNumbered) =>
    /\ reader.result = "Ok" =>
         /\ TreeOf(heap, reader.dst) = Kept(reader.input.format, reader.filter, reader.input.tree)
         /\ Nesting(reader.input.tree) <= reader.limit
    /\ reader.result = "TooDeep" => Nesting(reader.input.tree) > reader.limit
    /\ reader.result = "NoMemory" => heap.overflowed
=============================================================================
