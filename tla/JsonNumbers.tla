---------------------------- MODULE JsonNumbers ----------------------------
(***************************************************************************)
(* The integers of ArduinoJson: how they are read from a text, stored in   *)
(* 32 or 64 bits, converted to what the program asks for, compared, and    *)
(* written as text and as MessagePack.  A byte has ByteBits bits, so that  *)
(* small instances overflow too; a text is a sequence of characters.  A    *)
(* number with a fraction or an exponent is kept as mantissa and exponent: *)
(* its rounding to a binary float (make_float) is not followed.            *)
(***************************************************************************)
EXTENDS Integers, Sequences

CONSTANTS
  DigitOf,         \* the characters that are digits, with their values
  ByteBits,        \* 8
  MantissaMax,     \* FloatTraits::mantissa_max: 2^52 - 1
  ExponentMax      \* FloatTraits::exponent_max: 308

Type(signed, bytes) == [signed |-> signed, bytes |-> bytes]
Types == [signed : BOOLEAN, bytes : {1, 2, 4, 8}]
JsonInteger == Type(TRUE, 8)
JsonUInt == Type(FALSE, 8)

PowerOfTwo[n \in 0..(8 * ByteBits)] == IF n = 0 THEN 1 ELSE 2 * PowerOfTwo[n - 1]
PowerOfTen[n \in 0..(8 * ByteBits)] == IF n = 0 THEN 1 ELSE 10 * PowerOfTen[n - 1]

Bits(t) == t.bytes * ByteBits
lowest(t) == IF t.signed THEN -PowerOfTwo[Bits(t) - 1] ELSE 0
highest(t) == IF t.signed THEN PowerOfTwo[Bits(t) - 1] - 1 ELSE PowerOfTwo[Bits(t)] - 1

-----------------------------------------------------------------------------
(***************************************************************************)
(* convertNumber(): one case per pair of signs and order of the sizes.     *)
(***************************************************************************)
\* Variant: a signed number goes into a smaller type whatever its sign.
canConvertNumber_NoLowest(out, in, n) ==
  \/ ~in.signed /\ out.bytes <= in.bytes /\ n <= highest(out)
  \/ ~in.signed /\ in.bytes < out.bytes
  \/ in.signed /\ out.signed /\ out.bytes < in.bytes /\ n <= highest(out)
  \/ in.signed /\ out.signed /\ in.bytes <= out.bytes
  \/ in.signed /\ ~out.signed /\ out.bytes >= in.bytes /\ n >= 0
  \/ in.signed /\ ~out.signed /\ out.bytes < in.bytes /\ n >= 0 /\ n <= highest(out)

canConvertNumber(out, in, n) ==
  \/ ~in.signed /\ out.bytes <= in.bytes /\ n <= highest(out)
  \/ ~in.signed /\ in.bytes < out.bytes
  \/ in.signed /\ out.signed /\ out.bytes < in.bytes /\ n >= lowest(out) /\ n <= highest(out)
  \/ in.signed /\ out.signed /\ in.bytes <= out.bytes
  \/ in.signed /\ ~out.signed /\ out.bytes >= in.bytes /\ n >= 0
  \/ in.signed /\ ~out.signed /\ out.bytes < in.bytes /\ n >= 0 /\ n <= highest(out)

convertNumber(out, in, n) == IF canConvertNumber(out, in, n) THEN n ELSE 0

\* What a variant holds: an integer with the type it is stored in.
Stored(type, n) == [type |-> type, value |-> n]

\* setInteger(): 32 bits when they are enough.
setInteger(type, n) ==
  LET small == Type(type.signed, 4)
  IN Stored(IF canConvertNumber(small, type, n) THEN small ELSE Type(type.signed, 8), n)

\* as<T>(), is<T>() and as<bool>() of what is stored; variant | standby.
asIntegral(out, v) == convertNumber(out, v.type, v.value)
isInteger(out, v) == canConvertNumber(out, v.type, v.value)
asBoolean(v) == v.value # 0
OrElse(out, v, standby) == IF isInteger(out, v) THEN asIntegral(out, v) ELSE standby

-----------------------------------------------------------------------------
(***************************************************************************)
(* parseNumber().                                                          *)
(***************************************************************************)
Number(type, negative, mantissa, exponent) ==
  [type |-> type, negative |-> negative, mantissa |-> mantissa, exponent |-> exponent]
Invalid == Number("Invalid", FALSE, 0, 0)

At(s, i) == IF i <= Len(s) THEN s[i] ELSE "end"
IsDigit(s, i) == At(s, i) \in DOMAIN DigitOf

\* The first place from i on that has no digit.
DigitsEnd(s, i) ==
  CHOOSE e \in i..(Len(s) + 1) : ~IsDigit(s, e) /\ \A k \in i..(e - 1) : IsDigit(s, k)

\* The first loop: it stops before the mantissa overflows.  When ten times the
\* mantissa still fits but not with the digit, it stops behind the product.
Whole(s, from) ==
  LET run[i \in (from - 1)..Len(s)] ==
        IF i < from THEN [mantissa |-> 0, at |-> from]
        ELSE LET r == run[i - 1]
             IN IF r.at # i \/ ~IsDigit(s, i) \/ r.mantissa > highest(JsonUInt) \div 10 THEN r
                ELSE IF r.mantissa * 10 > highest(JsonUInt) - DigitOf[s[i]]
                     THEN [r EXCEPT !.mantissa = @ * 10]
                     ELSE [mantissa |-> r.mantissa * 10 + DigitOf[s[i]], at |-> i + 1]
  IN run[Len(s)]

\* The digits that do not fit in a float's mantissa are taken off, and counted.
Dropped(mantissa) ==
  CHOOSE k \in 0..Bits(JsonUInt) :
    /\ mantissa \div 10^k <= MantissaMax
    /\ \A j \in 0..(k - 1) : mantissa \div 10^j > MantissaMax

\* Variant: a digit that is not taken is counted as if it were.
Fraction_CountsAll(s, mantissa, from, end) ==
  LET run[i \in (from - 1)..(end - 1)] ==
        IF i < from THEN [mantissa |-> mantissa, offset |-> 0]
        ELSE LET r == run[i - 1]
             IN IF r.mantissa < MantissaMax \div 10
                THEN [mantissa |-> r.mantissa * 10 + DigitOf[s[i]], offset |-> r.offset - 1]
                ELSE [r EXCEPT !.offset = @ - 1]
  IN run[end - 1]

\* The digits of the fraction, from one place to before another.
Fraction(s, mantissa, from, end) ==
  LET run[i \in (from - 1)..(end - 1)] ==
        IF i < from THEN [mantissa |-> mantissa, offset |-> 0]
        ELSE LET r == run[i - 1]
             IN IF r.mantissa < MantissaMax \div 10
                THEN [mantissa |-> r.mantissa * 10 + DigitOf[s[i]], offset |-> r.offset - 1]
                ELSE r
  IN run[end - 1]

\* The number behind an 'e', its sign, and where it ends.
Exponent(s, at) ==
  LET from == IF At(s, at + 1) \in {"-", "+"} THEN at + 2 ELSE at + 1
      end == DigitsEnd(s, from)
      val[i \in (from - 1)..(end - 1)] ==
        IF i < from THEN 0 ELSE val[i - 1] * 10 + DigitOf[s[i]]
  IN IF At(s, at) \in {"e", "E"}
     THEN [value |-> val[end - 1], negative |-> At(s, at + 1) = "-",
           digits |-> end > from, end |-> end]
     ELSE [value |-> 0, negative |-> FALSE, digits |-> FALSE, end |-> at]

\* What follows when the text does not end behind the first loop.
Float(s, negative, whole) ==
  LET end == DigitsEnd(s, whole.at)
      offset == Dropped(whole.mantissa) + (end - whole.at)
      mantissa == whole.mantissa \div 10^Dropped(whole.mantissa)
      point == At(s, end) = "."
      f == IF point THEN Fraction(s, mantissa, end + 1, DigitsEnd(s, end + 1))
           ELSE [mantissa |-> mantissa, offset |-> 0]
      e == Exponent(s, IF point THEN DigitsEnd(s, end + 1) ELSE end)
  IN IF e.digits /\ e.value + offset + f.offset > ExponentMax
     THEN Number(IF e.negative THEN "Zero" ELSE "Infinity", negative, 0, 0)
     ELSE IF e.end <= Len(s) THEN Invalid
     ELSE Number("Float", negative, f.mantissa,
                 (IF e.negative THEN -e.value ELSE e.value) + offset + f.offset)

parseNumber(s) ==
  LET negative == At(s, 1) = "-"
      from == IF At(s, 1) \in {"-", "+"} THEN 2 ELSE 1
      whole == Whole(s, from)
  IN IF ~IsDigit(s, from) /\ At(s, from) # "." THEN Invalid
     ELSE IF whole.at > Len(s) /\ ~negative
          THEN Number("UnsignedInteger", FALSE, whole.mantissa, 0)
     ELSE IF whole.at > Len(s) /\ whole.mantissa <= PowerOfTwo[Bits(JsonInteger) - 1]
          THEN Number("SignedInteger", TRUE, whole.mantissa, 0)
     ELSE Float(s, negative, whole)

\* The integer that a text is, as the variant that reads it stores it.
IsInteger(number) == number.type \in {"SignedInteger", "UnsignedInteger"}
FromText(number) ==
  setInteger(IF number.type = "SignedInteger" THEN JsonInteger ELSE JsonUInt,
             IF number.negative THEN -number.mantissa ELSE number.mantissa)

-----------------------------------------------------------------------------
(***************************************************************************)
(* Writing.                                                                *)
(***************************************************************************)
CharOf(digit) == CHOOSE c \in DOMAIN DigitOf : DigitOf[c] = digit

\* TextFormatter::writeInteger(): the digits from the last one on.
writeInteger(n) ==
  LET size == IF n < 0 THEN -n ELSE n
      width == CHOOSE w \in 1..Bits(JsonUInt) :
                 size < PowerOfTen[w] /\ (w = 1 \/ size >= PowerOfTen[w - 1])
      digits == [i \in 1..width |-> CharOf((size \div PowerOfTen[width - i]) % 10)]
  IN IF n < 0 THEN <<"-">> \o digits ELSE digits

\* A MessagePack integer: fixint is in the code itself, the others follow it.
Packed(code, bytes, n) == [code |-> code, bytes |-> bytes, raw |-> n % PowerOfTwo[bytes * ByteBits]]
Byte(n) == PowerOfTwo[ByteBits - n]          \* a byte's bit: 0x80 is Byte(1)

\* MsgPackSerializer::visit(JsonUInt)
packUnsigned(n) ==
  IF n <= highest(Type(TRUE, 1)) THEN Packed("fixint", 1, n)
  ELSE LET bytes == CHOOSE b \in {1, 2, 4, 8} :
                      /\ n <= highest(Type(FALSE, b))
                      /\ \A c \in {1, 2, 4, 8} : n <= highest(Type(FALSE, c)) => b <= c
       IN Packed("uint", bytes, n)

\* Variant: a byte is taken for what needs one bit more.
packSigned_TooShort(n) ==
  IF n > 0 THEN packUnsigned(n)
  ELSE IF n >= -Byte(3) THEN Packed("fixint", 1, n)
  ELSE LET bytes == CHOOSE b \in {1, 2, 4, 8} :
                      /\ n >= -highest(Type(FALSE, b))
                      /\ \A c \in {1, 2, 4, 8} : n >= -highest(Type(FALSE, c)) => b <= c
       IN Packed("int", bytes, n)

\* MsgPackSerializer::visit(JsonInteger)
packSigned(n) ==
  IF n > 0 THEN packUnsigned(n)
  ELSE IF n >= -Byte(3) THEN Packed("fixint", 1, n)
  ELSE LET bytes == CHOOSE b \in {1, 2, 4, 8} :
                      /\ n >= lowest(Type(TRUE, b))
                      /\ \A c \in {1, 2, 4, 8} : n >= lowest(Type(TRUE, c)) => b <= c
       IN Packed("int", bytes, n)

packInteger(v) == IF v.type.signed THEN packSigned(v.value) ELSE packUnsigned(v.value)

\* MsgPackDeserializer: a first byte that is a fixint, and readInteger().
IsFixint(byte) == byte <= highest(Type(TRUE, 1)) \/ byte >= PowerOfTwo[ByteBits] - Byte(3)
SignExtended(bytes, raw) ==
  IF raw > highest(Type(TRUE, bytes)) THEN raw - PowerOfTwo[bytes * ByteBits] ELSE raw
unpackInteger(p) ==
  CASE p.code = "fixint" -> setInteger(Type(TRUE, 1), SignExtended(1, p.raw))
    [] p.code = "int" -> setInteger(JsonInteger, SignExtended(p.bytes, p.raw))
    [] p.code = "uint" -> setInteger(JsonUInt, p.raw)

-----------------------------------------------------------------------------
(***************************************************************************)
(* arithmeticCompare(): the smaller type is cast to the larger one.        *)
(***************************************************************************)
Ordered(a, b) == IF a < b THEN "Less" ELSE IF a > b THEN "Greater" ELSE "Equal"
Cast(t, n) == IF t.signed THEN SignExtended(t.bytes, n % PowerOfTwo[Bits(t)]) ELSE n % PowerOfTwo[Bits(t)]

\* Variant: a negative number is cast to the unsigned type of its size.
arithmeticCompare_NoSign(t1, a, t2, b) ==
  CASE t1.bytes < t2.bytes -> Ordered(Cast(t2, a), b)
    [] t2.bytes < t1.bytes -> Ordered(a, Cast(t1, b))
    [] t1.bytes = t2.bytes /\ t1.signed = t2.signed -> Ordered(a, b)
    [] t1.bytes = t2.bytes /\ ~t1.signed /\ t2.signed -> Ordered(a, Cast(t1, b))
    [] t1.bytes = t2.bytes /\ t1.signed /\ ~t2.signed -> Ordered(Cast(t2, a), b)

arithmeticCompare(t1, a, t2, b) ==
  CASE t1.bytes < t2.bytes -> Ordered(Cast(t2, a), b)
    [] t2.bytes < t1.bytes -> Ordered(a, Cast(t1, b))
    [] t1.bytes = t2.bytes /\ t1.signed = t2.signed -> Ordered(a, b)
    [] t1.bytes = t2.bytes /\ ~t1.signed /\ t2.signed ->
         IF b < 0 THEN "Greater" ELSE Ordered(a, Cast(t1, b))
    [] t1.bytes = t2.bytes /\ t1.signed /\ ~t2.signed ->
         IF a < 0 THEN "Less" ELSE Ordered(Cast(t2, a), b)

-----------------------------------------------------------------------------
(***************************************************************************)
(* What integers are stored, written and compared for, of an example e.    *)
(***************************************************************************)
Holds(t, n) == n \in lowest(t)..highest(t)

\* An integer that is stored is read as what was stored by every type that
\* holds it and as zero by the others.
ReadByEveryType(e) ==
  LET v == setInteger(e.type, e.value)
  IN /\ Holds(v.type, e.value)
     /\ asBoolean(v) <=> e.value # 0
     /\ \A out \in Types :
          /\ isInteger(out, v) <=> Holds(out, e.value)
          /\ OrElse(out, v, 1) = IF Holds(out, e.value) THEN e.value ELSE 1
          /\ asIntegral(out, v) = IF Holds(out, e.value) THEN e.value ELSE 0

\* As MessagePack it comes back, and a short code is never one of another kind.
PackedAndRead(e) ==
  LET p == packInteger(setInteger(e.type, e.value))
  IN /\ unpackInteger(p).value = e.value
     /\ p.code = "fixint" => IsFixint(p.raw)

\* As a text it is read as itself, in a type that holds it.
WrittenAndRead(e) ==
  LET number == parseNumber(writeInteger(e.value))
  IN /\ IsInteger(number) /\ FromText(number).value = e.value
     /\ Holds(FromText(number).type, e.value)

\* An integer of the program is compared with a variant's by its value.  Left
\* out: a negative one of a smaller type with an unsigned variant, which is
\* cast first (arithmeticCompare.hpp:45).
OrderKept(e) ==
  ~(~e.type.signed /\ e.other.signed /\ e.second < 0 /\ e.other.bytes < e.type.bytes) =>
    arithmeticCompare(e.type, e.first, e.other, e.second) = Ordered(e.first, e.second)
=============================================================================
