------------------------------ MODULE Versions ------------------------------
(***************************************************************************)
(* The two checks of texts in the web pages: compareVersions() for the     *)
(* update and isValidHost() for the printer's address.  A text is a        *)
(* sequence of characters; DigitOf gives the value of a digit.             *)
(***************************************************************************)
EXTENDS Integers, Sequences

CONSTANT
  DigitOf          \* the characters that are digits, with their values

Digits == DOMAIN DigitOf

ASSUME DigitAssumption == \A c \in Digits : DigitOf[c] \in Nat

\* There is a digit for every value below ten, and a sign is none.
ASSUME DecimalAssumption ==
  /\ \A d \in 0..9 : \E c \in Digits : DigitOf[c] = d
  /\ {"-", "+"} \cap Digits = {}

\* The number that starts at i as sscanf's %d reads it, and where it ends;
\* "ok" is FALSE when there is no digit.
NumberAt(text, i) ==
  LET end == CHOOSE e \in i..(Len(text) + 1) :
               /\ e > Len(text) \/ text[e] \notin Digits
               /\ \A k \in i..(e - 1) : text[k] \in Digits
      val[k \in (i - 1)..(end - 1)] ==
        IF k < i THEN 0 ELSE val[k - 1] * 10 + DigitOf[text[k]]
  IN [ok |-> end > i, value |-> val[end - 1], end |-> end]

\* sscanf(text, "%d.%d.%d"): what is not read stays 0.
ParseVersion(text) ==
  LET a == NumberAt(text, 1)
      dotAt(i) == i <= Len(text) /\ text[i] = "."
      b == IF a.ok /\ dotAt(a.end) THEN NumberAt(text, a.end + 1)
           ELSE [ok |-> FALSE, value |-> 0, end |-> 1]
      c == IF b.ok /\ dotAt(b.end) THEN NumberAt(text, b.end + 1)
           ELSE [ok |-> FALSE, value |-> 0, end |-> 1]
      read(n) == IF n.ok THEN n.value ELSE 0
  IN <<read(a), read(b), read(c)>>

\* One leading 'v' is taken off.
WithoutV(text) == IF Len(text) > 0 /\ text[1] = "v" THEN Tail(text) ELSE text

\* Variant: the middle number is compared only when the last ones differ.
compareVersions_Swapped(x, y) ==
  LET a == ParseVersion(WithoutV(x))  b == ParseVersion(WithoutV(y))
      sign(p, q) == IF p < q THEN -1 ELSE 1
  IN IF a[1] # b[1] THEN sign(a[1], b[1])
     ELSE IF a[3] # b[3] THEN sign(a[3], b[3])
     ELSE IF a[2] # b[2] THEN sign(a[2], b[2])
     ELSE 0

compareVersions(x, y) ==
  LET a == ParseVersion(WithoutV(x))  b == ParseVersion(WithoutV(y))
      sign(p, q) == IF p < q THEN -1 ELSE 1
  IN IF a[1] # b[1] THEN sign(a[1], b[1])
     ELSE IF a[2] # b[2] THEN sign(a[2], b[2])
     ELSE IF a[3] # b[3] THEN sign(a[3], b[3])
     ELSE 0

-----------------------------------------------------------------------------
Dots(host) == Len(SelectSeq(host, LAMBDA c : c = "."))
Ipv4Like(host) == \A i \in DOMAIN host : host[i] \in Digits \cup {"."}

\* Variant: the last number is not looked at.
isValidHost_NoLast(host) ==
  LET at(i) == IF i <= Len(host) THEN host[i] ELSE "."
      val[i \in 0..Len(host)] ==
        IF i = 0 \/ at(i) = "." THEN 0 ELSE val[i - 1] * 10 + DigitOf[at(i)]
      endOk(i) == at(i) = "." => /\ i > 1 /\ at(i - 1) # "."
                                 /\ val[i - 1] <= 255
  IN /\ host # <<>>
     /\ Ipv4Like(host) /\ Dots(host) = 3 =>
          \A i \in 1..Len(host) : endOk(i)

\* The loop over an address and one more dot: the four numbers are at most
\* 255 and none is empty.
isValidHost(host) ==
  LET at(i) == IF i <= Len(host) THEN host[i] ELSE "."
      val[i \in 0..Len(host)] ==
        IF i = 0 \/ at(i) = "." THEN 0 ELSE val[i - 1] * 10 + DigitOf[at(i)]
      endOk(i) == at(i) = "." => /\ i > 1 /\ at(i - 1) # "."
                                 /\ val[i - 1] <= 255
  IN /\ host # <<>>
     /\ Ipv4Like(host) /\ Dots(host) = 3 =>
          \A i \in 1..(Len(host) + 1) : endOk(i)

-----------------------------------------------------------------------------
\* Versions are compared number by number.
Before(a, b) == \E k \in 1..3 : a[k] < b[k] /\ \A j \in 1..(k - 1) : a[j] = b[j]
VersionsOrdered(e) ==
  /\ compareVersions(e.x, e.y) = -compareVersions(e.y, e.x)
  /\ (compareVersions(e.x, e.y) < 0) = Before(e.numbers[1], e.numbers[2])

HostJudged(e) == isValidHost(e.host) = e.valid
=============================================================================
