----------------------------- MODULE JsonReader -----------------------------
(***************************************************************************)
(* The deserializers of ArduinoJson (JsonDeserializer, MsgPackDeserializer *)
(* with their filter, nesting limit and string buffer).  A reading goes on *)
(* step by step, a step is one allocation or one token; the input may end  *)
(* or go wrong at any of them.  The recursion of the code is the stack of  *)
(* a reader.                                                               *)
(***************************************************************************)
EXTENDS JsonDocument

CONSTANTS
  Inputs,          \* what is read: its format, its tokens and their tree
  ReadFilters,     \* the documents used as a filter
  Limits           \* the nesting limits used

\* JSON closes a collection; MessagePack says how many items it has.
Tokens ==
  [type : Collections \cup {"Null", "Inline", "Wide", "Close"}, text : {NoText}, count : Nat]
    \cup [type : {"String", "Key"}, text : Texts \cup TinyTexts, count : Nat]
    \cup [type : {"Raw"}, text : Texts, count : Nat]
ASSUME InputAssumption == \A input \in Inputs : input.tokens \in Seq(Tokens)

\* DeserializationOption::Filter is a reference to a document: TRUE lets all
\* through, an array's first element is for all elements, "*" for all keys.
True == Leaf("True", NoText)
Nothing == Leaf("Null", NoText)
allowValue(filter) == filter = True
allowArray(filter) == filter = True \/ filter.type = "Array"
allowObject(filter) == filter = True \/ filter.type = "Object"
allow(filter) == filter = True \/ filter.type \in Collections

Member(filter, key) ==
  LET found == {i \in DOMAIN filter.items : filter.items[i].key = key}
  IN IF filter.type # "Object" \/ found = {} THEN Nothing
     ELSE filter.items[CHOOSE i \in found : \A j \in found : i <= j].value
SubFilter(filter, key) ==
  IF filter = True THEN filter
  ELSE IF Member(filter, key) = Nothing THEN Member(filter, "*") ELSE Member(filter, key)
ElementFilter(filter) ==
  IF filter.type = "Array" THEN IF filter.items = <<>> THEN Nothing ELSE filter.items[1].value
  ELSE SubFilter(filter, NoText)

-----------------------------------------------------------------------------
\* A frame of the recursion: the collection, or NullSlot when it is skipped;
\* the filter for its items; how many are to come (MessagePack).
Frame(node, type, filter, left) == [node |-> node, type |-> type, filter |-> filter, left |-> left]
Top == reader.stack[Len(reader.stack)]
Token1 == Head(reader.rest)
Json == reader.input.format = "Json"

\* doDeserialize(): the destination is cleared, a document entirely.
Start(input, whole, dst, filter, limit) ==
  /\ whole => dst = Root
  /\ Counts(3)
  /\ Leaves(IF whole THEN clearAll(heap) ELSE Clear(heap, dst))
  /\ reader' = [at |-> "value", input |-> input, rest |-> input.tokens, whole |-> whole,
                dst |-> dst, filter |-> filter, limit |-> limit, stack |-> <<>>,
                target |-> dst, sub |-> filter, buffer |-> FALSE, result |-> "Ok"]

\* A reader's step: the heap it leaves, and the reader.
Step(h, r) == Leaves(h) /\ reader' = r /\ UNCHANGED work
Failed(r, error) == [r EXCEPT !.at = "end", !.result = error]

\* A value, or the closing of a collection, is behind the reader.
Passed(r) == [r EXCEPT !.at = IF r.stack = <<>> THEN "end" ELSE "next"]
Eaten(r) == [r EXCEPT !.rest = Tail(@)]

-----------------------------------------------------------------------------
(***************************************************************************)
(* Strings.  A string is put together in a node of the reader's own, which *)
(* may have to be made or to grow.                                         *)
(***************************************************************************)
BuildString(h, text) ==
  LET grows == text \notin TinyTexts /\ (Json \/ reader.buffer)
      made == IF reader.buffer THEN h ELSE Malloc(h)
      grown == IF grows THEN Malloc(made) ELSE made
      ok == (reader.buffer \/ Granted(made)) /\ (grows => Granted(grown))
  IN [heap |-> IF ok THEN grown ELSE [grown EXCEPT !.overflowed = TRUE], ok |-> ok]

\* save() keeps the node when the string needs none.
KeepsBuffer(h, text) == text \in TinyTexts \/ h.refs[text] > 0
SavedString(h, id, text, type) ==
  IF type = "String" /\ text \in TinyTexts THEN setString(h, id, text).heap
  ELSE [commitString(h, text) EXCEPT !.cell[id].text = text,
          !.cell[id].type = IF type = "Raw" THEN "RawString" ELSE "OwnedString"]

-----------------------------------------------------------------------------
(***************************************************************************)
(* Values.                                                                 *)
(***************************************************************************)
AtValue(types) ==
  PoolsNumbered /\ reader.at = "value" /\ reader.rest # <<>> /\ Token1.type \in types

\* A value that the filter leaves out takes no memory.
SkipValue ==
  /\ AtValue({"Inline", "Wide", "String", "Raw"}) /\ ~allowValue(reader.sub)
  /\ Step(heap, Passed(Eaten(reader)))

\* null is what the variant is already.
ReadInline ==
  /\ \/ AtValue({"Null"})
     \/ AtValue({"Inline"}) /\ allowValue(reader.sub)
  /\ Step(IF Token1.type = "Null" THEN heap ELSE Typed(heap, reader.target, "Inline"),
          Passed(Eaten(reader)))

ReadWide(bad) ==
  /\ AtValue({"Wide"}) /\ allowValue(reader.sub)
  /\ LET r == setWide(Refusing(bad), reader.target)
     IN Step(r.heap, IF r.ok THEN Passed(Eaten(reader)) ELSE Failed(reader, "NoMemory"))

ReadString(bad) ==
  /\ AtValue({"String", "Raw"}) /\ allowValue(reader.sub)
  /\ LET r == BuildString(Refusing(bad), Token1.text)
         read == [Eaten(reader) EXCEPT !.buffer = KeepsBuffer(heap, Token1.text)]
     IN IF r.ok THEN Step(SavedString(r.heap, reader.target, Token1.text, Token1.type), Passed(read))
        ELSE Step(r.heap, Failed(reader, "NoMemory"))

\* parseArray(), readArray() and their likes for objects and for what is
\* skipped.  JSON's makes the collection before it looks at the limit.
Allowed(type) == IF type = "Array" THEN allowArray(reader.sub) ELSE allowObject(reader.sub)
TooDeep == Len(reader.stack) = reader.limit

OpenCollection ==
  /\ AtValue(Collections)
  /\ LET type == Token1.type
         made == IF Allowed(type) THEN Typed(Clear(heap, reader.target), reader.target, type)
                 ELSE heap
         frame == Frame(IF Allowed(type) THEN reader.target ELSE NullSlot, type, reader.sub, Token1.count)
     IN IF TooDeep THEN Step(IF Json THEN made ELSE heap, Failed(reader, "TooDeep"))
        ELSE Step(made, [Eaten(reader) EXCEPT !.at = "next", !.stack = Append(@, frame)])

-----------------------------------------------------------------------------
(***************************************************************************)
(* Items.                                                                  *)
(***************************************************************************)
AtEnd == IF Json THEN reader.rest # <<>> /\ Token1.type = "Close" ELSE Top.left = 0
AtItem(type) == PoolsNumbered /\ reader.at = "next" /\ Top.type = type /\ ~AtEnd
AtKey == AtItem("Object") /\ reader.rest # <<>> /\ Token1.type = "Key"

CloseCollection ==
  /\ reader.at = "next" /\ AtEnd
  /\ LET up == [reader EXCEPT !.stack = SubSeq(@, 1, Len(@) - 1)]
     IN Step(heap, Passed(IF Json THEN Eaten(up) ELSE up))

\* The item's value is next; the frame has one less to come.
GoesOn(r, target, filter) ==
  [r EXCEPT !.at = "value", !.target = target, !.sub = filter,
            !.stack[Len(r.stack)].left = @ - 1]
Unwanted(r) == GoesOn(r, NullSlot, Nothing)

\* An array that is skipped has no slot to add an element to.
NoArray == ~Json /\ Top.node = NullSlot /\ allow(ElementFilter(Top.filter))
SkipElement ==
  /\ AtItem("Array")
  /\ Top.node = NullSlot \/ ~allow(ElementFilter(Top.filter))
  /\ ~NoArray
  /\ Step(heap, Unwanted(reader))

\* A null pointer in readArray() [MsgPackDeserializer.hpp:366]: the program
\* starts again.
NullArray ==
  /\ AtItem("Array") /\ NoArray
  /\ heap' = EmptyHeap /\ work' = 0 /\ reader' = NoReader

ReadElement(bad) ==
  /\ AtItem("Array") /\ Top.node # NullSlot /\ allow(ElementFilter(Top.filter))
  /\ LET r == addElement(Refusing(bad), Top.node)
     IN Step(r.heap, IF r.id = NullSlot THEN Failed(reader, "NoMemory")
                     ELSE GoesOn(reader, r.id, ElementFilter(Top.filter)))

\* skipKey()
SkipKey ==
  /\ AtKey /\ Json /\ Top.node = NullSlot
  /\ Step(heap, Unwanted(Eaten(reader)))

\* Variant: a key that is there is added again.
MemberFor_Repeats(h, c, key) == AddNamedPair(h, c, key)

\* A member for the key: JSON takes the one that is there and clears it.
MemberFor(h, c, key) ==
  LET id == getMember(h, c, key)
  IN IF Json /\ id # NullSlot THEN [heap |-> Clear(h, id), id |-> id]
     ELSE AddNamedPair(h, c, key)

\* parseKey(), readKey() and what follows: the key is put together whether or
\* not the filter wants the member.
ReadKey(bad) ==
  /\ AtKey /\ (Json => Top.node # NullSlot)
  /\ LET key == Token1.text
         built == BuildString(Refusing(bad), key)
         wanted == Top.node # NullSlot /\ allow(SubFilter(Top.filter, key))
         r == MemberFor(built.heap, Top.node, key)
         there == Json /\ getMember(heap, Top.node, key) # NullSlot
         read == [Eaten(reader) EXCEPT !.buffer = ~wanted \/ there \/ KeepsBuffer(heap, key)]
     IN IF ~built.ok THEN Step(built.heap, [Failed(reader, "NoMemory") EXCEPT !.buffer = FALSE])
        ELSE IF ~wanted THEN Step(built.heap, Unwanted(read))
        ELSE Step(r.heap, IF r.id = NullSlot THEN Failed(reader, "NoMemory")
                          ELSE GoesOn(read, r.id, SubFilter(Top.filter, key)))

-----------------------------------------------------------------------------
\* The input ends, or goes on with something else.
BadInput ==
  /\ reader.at \in {"value", "next"}
  /\ \E error \in IF reader.rest = reader.input.tokens
                  THEN {"EmptyInput", "InvalidInput", "IncompleteInput"}
                  ELSE {"InvalidInput", "IncompleteInput"} :
       Step(heap, Failed(reader, error))

\* A keyword that is cut short: the variant has the boolean already.
CutKeyword ==
  /\ AtValue({"Inline"}) /\ Json /\ allowValue(reader.sub)
  /\ \E error \in {"InvalidInput", "IncompleteInput"} :
       Step(Typed(heap, reader.target, "Inline"), Failed(reader, error))

\* A number at the top is followed by something else.
TrailingCharacter ==
  /\ reader.at = "end" /\ Json /\ reader.result = "Ok"
  /\ heap.cell[reader.dst].type \in {"Inline", "Wide"}
  /\ Step(heap, Failed(reader, "InvalidInput"))

Finish(bad) ==
  /\ reader.at = "end"
  /\ Step(IF reader.whole THEN shrinkToFit(Refusing(bad)) ELSE heap, NoReader)

ReaderNext ==
  \/ \E input \in Inputs, dst \in References, whole \in BOOLEAN, filter \in ReadFilters, limit \in Limits :
       Start(input, whole, dst, filter, limit)
  \/ SkipValue \/ ReadInline \/ OpenCollection \/ CloseCollection
  \/ SkipElement \/ NullArray \/ SkipKey
  \/ BadInput \/ CutKeyword \/ TrailingCharacter
  \/ \E bad \in Refusals :
       ReadWide(bad) \/ ReadString(bad) \/ ReadElement(bad) \/ ReadKey(bad)
  \/ \E bad \in RefusalOfFirst : Finish(bad)

JsonNext == DocNext \/ ReaderNext

JsonSpec == DocInit /\ [][JsonNext]_docVars
=============================================================================
