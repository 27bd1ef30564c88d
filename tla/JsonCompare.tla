---------------------------- MODULE JsonCompare ----------------------------
(***************************************************************************)
(* How ArduinoJson compares two variants.  A value is a record of its      *)
(* kind; a number has the type that its visitor is called with, a boolean  *)
(* is a number of one byte; a string is a sequence of character codes.     *)
(* Floats are left out.                                                    *)
(***************************************************************************)
EXTENDS JsonNumbers

Bool == Type(FALSE, 1)
Value(kind, type, value, items) ==
  [kind |-> kind, type |-> type, value |-> value, items |-> items]
NullValue == Value("Null", Bool, 0, <<>>)
NumberValue(type, n) == Value("Number", type, n, <<>>)
StringValue(s) == Value("String", Bool, 0, s)
RawValue(s) == Value("Raw", Bool, 0, s)
ArrayValue(items) == Value("Array", Bool, 0, items)
ObjectValue(items) == Value("Object", Bool, 0, items)   \* of [key, value]

Reverse(result) ==
  CASE result = "Greater" -> "Less" [] result = "Less" -> "Greater" [] OTHER -> result

-----------------------------------------------------------------------------
(***************************************************************************)
(* Strings.                                                                *)
(***************************************************************************)
Common(s, t) == IF Len(s) < Len(t) THEN Len(s) ELSE Len(t)

\* memcmp(): the difference at the first place where the two are not the same.
FirstDifference(s, t) ==
  LET different == {i \in 1..Common(s, t) : s[i] # t[i]}
      first == CHOOSE i \in different : \A j \in different : i <= j
  IN IF different = {} THEN 0 ELSE s[first] - t[first]

\* Variant: a text and what it starts with are the same.
stringCompare_Prefix(s, t) == FirstDifference(s, t)

stringCompare(s, t) ==
  IF FirstDifference(s, t) # 0 THEN FirstDifference(s, t) ELSE Len(s) - Len(t)

-----------------------------------------------------------------------------
(***************************************************************************)
(* Variants.  A comparer is made of one of them and visits the other.      *)
(***************************************************************************)
RECURSIVE Compare(_, _)

\* operator==() of arrays; a variant's operator!=() calls compare() with its
\* operands the other way round.
ArraysEqual(lhs, rhs) ==
  /\ Len(lhs.items) = Len(rhs.items)
  /\ \A i \in DOMAIN lhs.items : Compare(rhs.items[i], lhs.items[i]) = "Equal"

MemberOf(object, key) ==
  LET named == {i \in DOMAIN object.items : object.items[i].key = key}
  IN object.items[CHOOSE i \in named : \A j \in named : i <= j].value
HasKey(object, key) == \E i \in DOMAIN object.items : object.items[i].key = key

\* Variant: the number of members is not compared.
ObjectsEqual_NoCount(lhs, rhs) ==
  \A i \in DOMAIN lhs.items :
    LET p == lhs.items[i]
    IN HasKey(rhs, p.key) /\ Compare(MemberOf(rhs, p.key), p.value) = "Equal"

ObjectsEqual(lhs, rhs) ==
  /\ \A i \in DOMAIN lhs.items :
       LET p == lhs.items[i]
       IN HasKey(rhs, p.key) /\ Compare(MemberOf(rhs, p.key), p.value) = "Equal"
  /\ Len(lhs.items) = Len(rhs.items)

EqualIf(same) == IF same THEN "Equal" ELSE "Differ"

\* The comparer made of rhs visits lhs.
Visit(rhs, lhs) ==
  IF rhs.kind # lhs.kind THEN "Differ"
  ELSE CASE rhs.kind = "Null" -> "Equal"
         [] rhs.kind = "Number" -> arithmeticCompare(lhs.type, lhs.value, rhs.type, rhs.value)
         [] rhs.kind = "String" -> Ordered(0, stringCompare(rhs.items, lhs.items))
         [] rhs.kind = "Raw" -> Ordered(FirstDifference(lhs.items, rhs.items), 0)
         [] rhs.kind = "Array" -> EqualIf(ArraysEqual(rhs, lhs))
         [] rhs.kind = "Object" -> EqualIf(ObjectsEqual(lhs, rhs))

\* compare(): the left value's visitor makes a comparer of it for the right one.
Compare(lhs, rhs) == Reverse(Visit(lhs, rhs))

\* The operators of two variants.
IsEqual(x, y) == Compare(y, x) = "Equal"
IsLess(x, y) == Compare(y, x) = "Greater"
IsAtMost(x, y) == Compare(y, x) \in {"Greater", "Equal"}
IsGreater(x, y) == Compare(y, x) = "Less"
IsAtLeast(x, y) == Compare(y, x) \in {"Less", "Equal"}
=============================================================================
