------------------------------ MODULE Formats ------------------------------
(***************************************************************************)
(* The algorithms on texts and lengths, each beside what it is for, over   *)
(* the examples that an instance gives.                                    *)
(***************************************************************************)
EXTENDS TopicMatch, WireFormat, Versions

CONSTANTS
  Examples,        \* records with a "kind" and the arguments of that kind
  ByteBits, MantissaMax, ExponentMax   \* of ArduinoJson's numbers

VARIABLE example   \* the one that is looked at

Json == INSTANCE JsonCompare

-----------------------------------------------------------------------------
\* An integer that is stored is read by every type that holds it, and comes back
\* from MessagePack and from a text.
IntegerKept(e) ==
  Json!ReadByEveryType(e) /\ Json!PackedAndRead(e) /\ Json!WrittenAndRead(e)

\* A text is read as the number it is, up to the digits that its mantissa has
\* no room for.  Left out: the four numbers just above the largest unsigned
\* one, which are read ten times too large (parseNumber.hpp:146); zero with a
\* large exponent, which is read as infinity, and more digits than the mantissa
\* holds with an exponent near its lower limit, read as zero (:201).
TenTimes(e) ==
  LET most == Json!highest(Json!JsonUInt)
  IN \E k \in 0..8 : (e.whole \div 10^k) \in (most + 1)..(10 * (most \div 10) + 9)

NumberIsRead(e) ==
  LET r == Json!parseNumber(e.text)
      dropped == r.exponent - (e.exponent - e.fraction)
  IN TenTimes(e) \/
     CASE Json!IsInteger(r) -> /\ r.mantissa = e.digits /\ e.fraction = 0 /\ e.exponent = 0
                               /\ r.negative = e.negative
       [] r.type = "Float" -> /\ dropped >= 0 /\ r.negative = e.negative
                              /\ r.mantissa * 10^dropped <= e.digits
                              /\ e.digits < (r.mantissa + 1) * 10^dropped
                              /\ dropped > 0 => r.mantissa >= MantissaMax \div 10
       [] r.type = "Infinity" -> e.digits > 0 =>
                                   \E k \in 0..8 : /\ e.digits >= 10^k
                                                   /\ k + e.exponent - e.fraction >= ExponentMax
       [] r.type = "Zero" -> e.exponent < -ExponentMax \/ e.digits > MantissaMax
       [] OTHER -> FALSE

NotANumber(e) == Json!parseNumber(e.text) = Json!Invalid

\* Two variants compare the one way as the other, they are equal when they have
\* the same content, objects whatever the order of their members, and the
\* operators agree.  Left out: raw texts of different lengths, of which only
\* what both have is compared (VariantCompare.hpp:119).
RECURSIVE SameValue(_, _)
SameValue(x, y) ==
  /\ x.kind = y.kind
  /\ CASE x.kind = "Null" -> TRUE
       [] x.kind = "Number" -> x.value = y.value
       [] x.kind \in {"String", "Raw"} -> x.items = y.items
       [] x.kind = "Array" -> /\ Len(x.items) = Len(y.items)
                              /\ \A i \in DOMAIN x.items : SameValue(x.items[i], y.items[i])
       [] x.kind = "Object" ->
            LET in(a, b) == \A i \in DOMAIN a.items : \E j \in DOMAIN b.items :
                  /\ a.items[i].key = b.items[j].key
                  /\ SameValue(a.items[i].value, b.items[j].value)
            IN in(x, y) /\ in(y, x)

Earlier(s, t) ==
  \E n \in 0..Len(s) : /\ n < Len(t) /\ \A i \in 1..n : s[i] = t[i]
                       /\ n = Len(s) \/ s[n + 1] < t[n + 1]

ComparedByContent(e) ==
  LET x == e.first  y == e.second  result == Json!Compare(x, y)
  IN (x.kind = "Raw" /\ y.kind = "Raw" => Len(x.items) = Len(y.items)) =>
        /\ Json!Compare(y, x) = Json!Reverse(result)
        /\ (result = "Equal") = SameValue(x, y)
        /\ result = "Less" => IF x.kind = "Number" THEN x.value < y.value
                              ELSE Earlier(x.items, y.items)
        /\ Json!IsEqual(x, y) = (result = "Equal")
        /\ Json!IsLess(x, y) = Json!IsGreater(y, x)
        /\ Json!IsAtMost(x, y) = (Json!IsLess(x, y) \/ Json!IsEqual(x, y))
        /\ Json!IsAtLeast(x, y) = (Json!IsGreater(x, y) \/ Json!IsEqual(x, y))

\* What the bridge, the MQTT client, the TLS client, the pages and ArduinoJson
\* do with texts, lengths and numbers is what the protocols and their other
\* half expect (mqtt_bridge.cpp:387, PubSubClient.cpp:557, tls_client.cpp:77,
\* page_ota.h, parseNumber.hpp, VariantCompare.hpp).
FormatsAgree ==
  CASE example.kind = "topic" -> MatchesAsMqtt(example)
    [] example.kind = "length" -> LengthIsRead(example)
    [] example.kind = "packet" -> PacketFits(example)
    [] example.kind = "asn1" -> Asn1Agrees(example)
    [] example.kind = "version" -> VersionsOrdered(example)
    [] example.kind = "host" -> HostJudged(example)
    [] example.kind = "integer" -> IntegerKept(example)
    [] example.kind = "number" -> NumberIsRead(example)
    [] example.kind = "noNumber" -> NotANumber(example)
    [] example.kind = "order" -> Json!OrderKept(example)
    [] example.kind = "values" -> ComparedByContent(example)
    [] OTHER -> TRUE
=============================================================================
