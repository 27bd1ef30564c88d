------------------------------- MODULE MCJson -------------------------------
(***************************************************************************)
(* An instance for TLC: first the examples of Formats one by one, then a   *)
(* document with at most seven slots in four pools, read into and changed. *)
(***************************************************************************)
EXTENDS JsonMeaning, WireFormat, Versions

CONSTANTS ByteBits, MantissaMax, ExponentMax

Chars(alphabet, n) == UNION {[1..k -> alphabet] : k \in 1..n}
Versions3 == [1..3 -> {0, 9, 10}]
Text(n) == CASE n = 0 -> <<"0">> [] n = 9 -> <<"9">> [] n = 10 -> <<"1", "0">>
Dotted(parts) == Text(parts[1]) \o <<".">> \o Text(parts[2]) \o <<".">> \o Text(parts[3])
Quad(n) == <<"1", ".", "0", ".", "2", "5", "5", ".">> \o n

Digit10 == <<"0", "1", "2", "3", "4", "5", "6", "7", "8", "9">>
MCDigits == [c \in {Digit10[i] : i \in 1..10} |-> CHOOSE d \in 0..9 : Digit10[d + 1] = c]
Spell(n, width) == [i \in 1..width |-> Digit10[((n \div 10^(width - i)) % 10) + 1]]
Width(n) == CHOOSE w \in 1..9 : n < 10^w /\ (w = 1 \/ n >= 10^(w - 1))

\* The integers of three-bit bytes: around the ends of every type.
Type(signed, bytes) == [signed |-> signed, bytes |-> bytes]
Types == [signed : BOOLEAN, bytes : {1, 2, 4, 8}]
Least(t) == IF t.signed THEN -(2^(t.bytes * ByteBits - 1)) ELSE 0
Most(t) == IF t.signed THEN 2^(t.bytes * ByteBits - 1) - 1 ELSE 2^(t.bytes * ByteBits) - 1
Edges == -5..12 \cup UNION {{Least(t), Most(t), Least(t) - 1, Least(t) + 1, Most(t) - 1, Most(t) + 1} : t \in Types}
Ends(t) == {Least(t), Most(t)} \cup (IF t.signed THEN -1..1 ELSE 0..1)
Of(t) == {n \in Edges : Least(t) <= n /\ n <= Most(t)}

\* Texts: a sign, a whole part, a fraction and an exponent, each in many forms.
Wholes == {0, 7, 1048575, 1048576, 1677721, 1677722, 8388608, 8388609, 16777215, 16777216,
           16777219, 16777220, 99999999, 123456789}
Fractions == {<<0, 0>>, <<0, 1>>, <<5, 1>>, <<25, 2>>, <<4, 3>>, <<16777218, 8>>}  \* digits, width
Exponents == {<<>>, <<"e", "0">>, <<"E", "+", "3">>, <<"e", "5">>, <<"e", "6">>, <<"e", "1", "2">>,
              <<"e", "-", "3">>, <<"e", "-", "5">>, <<"e", "-", "6">>, <<"e", "-", "1", "2">>}
ValueOf(e) == CASE e = <<>> \/ e = <<"e", "0">> -> 0 [] Len(e) = 2 -> CHOOSE d \in 0..9 : e[2] = Digit10[d + 1]
  [] Len(e) = 4 -> -12 [] e[2] = "1" -> 12
  [] OTHER -> (IF e[2] = "-" THEN -1 ELSE 1) * (CHOOSE d \in 0..9 : e[3] = Digit10[d + 1])
Numbers ==
  {[kind |-> "number", negative |-> sign = <<"-">>, whole |-> n, digits |-> n * 10^f[2] + f[1],
    fraction |-> f[2], exponent |-> ValueOf(e),
    text |-> sign \o Spell(n, Width(n)) \o (IF f[2] = 0 THEN <<>> ELSE <<".">> \o Spell(f[1], f[2])) \o e] :
     sign \in {<<>>, <<"-">>, <<"+">>}, e \in Exponents,
     <<n, f>> \in {p \in Wholes \X Fractions : Width(p[1]) + p[2][2] <= 9}}

\* Values to compare.
Char == {1, 2}
Val(kind, type, n, items) == [kind |-> kind, type |-> type, value |-> n, items |-> items]
Plain == {Val("Null", Type(FALSE, 1), 0, <<>>)}
  \cup {Val("Number", t, n, <<>>) : <<t, n>> \in {p \in {Type(TRUE, 8), Type(FALSE, 8), Type(FALSE, 1)} \X {-1, 0, 1} :
          p[2] \in Of(p[1])}}
  \cup {Val(kind, Type(FALSE, 1), 0, s) : kind \in {"String", "Raw"}, s \in UNION {[1..n -> Char] : n \in 0..2}}
Short == {v \in Plain : v.kind = "Null" \/ (v.kind = "String" /\ v.items = <<1>>)}
  \cup {Val("Number", Type(TRUE, 8), -1, <<>>), Val("Number", Type(FALSE, 8), 1, <<>>)}
ArraysOf(set) == {Val("Array", Type(FALSE, 1), 0, s) : s \in UNION {[1..n -> set] : n \in 0..2}}
ObjectsOf(set) == {Val("Object", Type(FALSE, 1), 0, <<>>)}
  \cup {Val("Object", Type(FALSE, 1), 0, <<[key |-> k, value |-> v]>>) : k \in Char, v \in set}
  \cup {Val("Object", Type(FALSE, 1), 0, <<[key |-> k, value |-> v], [key |-> 3 - k, value |-> w]>>) :
          k \in Char, v \in set, w \in set}
Compared == Plain \cup ArraysOf(Short) \cup ObjectsOf({v \in Short : v.kind = "Number"})

Lengths == 0..2 \cup 126..130 \cup 254..258 \cup 16382..16385 \cup {2097151, 2097152}
MCExamples ==
  {[kind |-> "topic", topic |-> t, sub |-> s] :
     t \in Chars({"a", "b", "/"}, 4), s \in Chars({"a", "b", "/", "+", "#"}, 3)}
  \cup {[kind |-> "length", length |-> n] : n \in Lengths}
  \cup {[kind |-> "packet", topic |-> t, payload |-> p] :
          t \in {1, 2, 60} \cup 115..135, p \in {0, 1, 2} \cup 60..75}
  \cup {[kind |-> "asn1", length |-> n] : n \in 0..140 \cup 250..260 \cup 1400..1500}
  \cup {[kind |-> "version", numbers |-> <<a, b>>, x |-> Dotted(a), y |-> <<"v">> \o Dotted(b)] :
          a \in Versions3, b \in Versions3}
  \cup {[kind |-> "host", host |-> Quad(h[1]), valid |-> h[2]] :
          h \in {<< <<"0">>, TRUE>>, << <<"2", "5", "5">>, TRUE>>, << <<"2", "5", "6">>, FALSE>>,
                 << <<>>, FALSE>>, << <<"a">>, TRUE>>}}
  \cup UNION {{[kind |-> "integer", type |-> t, value |-> n] : n \in Of(t)} : t \in Types}
  \cup Numbers
  \cup {[kind |-> "noNumber", text |-> s] :
          s \in {<<>>, <<"-">>, <<"a">>, <<"1", "a">>, <<"1", "e", "5", "a">>, <<"1", ".", "2", ".", "5">>,
                 <<"-", "-", "1">>}}
  \cup UNION {{[kind |-> "order", type |-> t, first |-> a, other |-> u, second |-> b] :
                a \in Ends(t), b \in Ends(u)} : t \in {Type(TRUE, 8), Type(FALSE, 8)}, u \in Types}
  \cup {[kind |-> "values", first |-> x, second |-> y] : x \in Compared, y \in Compared}

-----------------------------------------------------------------------------
Array(values) == [type |-> "Array", text |-> NoText,
                  items |-> [i \in DOMAIN values |-> [key |-> NoText, value |-> values[i]]]]
Object(keys, values) == [type |-> "Object", text |-> NoText,
                  items |-> [i \in DOMAIN values |-> [key |-> keys[i], value |-> values[i]]]]
Inline == Leaf("Inline", NoText)
Wide == Leaf("Wide", NoText)
Shared == Leaf("String", "a")

MCValues == {Wide, Shared, Array(<<Wide, Inline>>)}
MCTrees ==
  [format : {"Json", "MsgPack"},
   tree : {Inline, Wide, Leaf("String", "t"),
           Object(<<"a", "t", "a">>, <<Array(<<Shared>>), Inline, Wide>>),
           Object(<<"a", "a">>, <<Shared, Nothing>>),
           Array(<<Object(<<"t">>, <<Shared>>), Shared, Array(<<>>)>>)}]
  \cup {[format |-> "MsgPack", tree |-> Leaf("Raw", "a")]}
MCInputs == {[format |-> w.format, tree |-> w.tree, tokens |-> Serialized(w.format, w.tree)] : w \in MCTrees}
MCFilters == {True, Object(<<"a">>, <<True>>), Object(<<"*">>, <<Array(<<True>>)>>),
              Array(<<Object(<<"*">>, <<True>>)>>)}

Looking(e) == [at |-> "example", example |-> e]
Init == DocInit \/ (\E e \in MCExamples : heap = EmptyHeap /\ work = 0 /\ reader = Looking(e))
LookAt == reader.at = "example" /\ reader' = NoReader /\ UNCHANGED <<heap, work>>
Next == LookAt \/ JsonNext
Spec == Init /\ [][Next]_docVars

Format == INSTANCE Formats WITH
  Examples <- MCExamples,
  example <- IF reader.at = "example" THEN reader.example ELSE [kind |-> "none"]
FormatsAgree == Format!FormatsAgree

=============================================================================
