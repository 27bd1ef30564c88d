---------------------------- MODULE FormatProofs ----------------------------
(***************************************************************************)
(* What the algorithms on lengths and texts compute, for every input.      *)
(***************************************************************************)
EXTENDS WireFormat, Versions, TopicMatch, DataLemmas

CONSTANTS ByteBits, MantissaMax, ExponentMax   \* of ArduinoJson's numbers

Json == INSTANCE JsonNumbers

Digits128 == [value : 0..(Base - 1), more : BOOLEAN]

LEMMA Division ==
  ASSUME NEW k \in Nat
  PROVE  /\ k \div Base \in Nat /\ k % Base \in 0..(Base - 1)
         /\ k = (k \div Base) * Base + (k % Base)
         /\ k >= Base => k \div Base < k
<1> USE WireAssumption
<1>1. k \div Base \in Nat /\ k % Base \in 0..(Base - 1)
  OBVIOUS
<1>2. k = Base * (k \div Base) + (k % Base)
  OBVIOUS
<1>3. k >= Base => k \div Base < k
  OBVIOUS
<1> QED  BY <1>1, <1>2, <1>3

LEMMA SmallerQuotient ==
  ASSUME NEW k \in Nat, NEW m \in Nat, k < Base * m
  PROVE  k \div Base < m
<1> DEFINE q == k \div Base
<1>1. q \in Nat /\ k = q * Base + (k % Base) /\ k % Base \in Nat /\ Base \in Nat
  BY Division, WireAssumption
<1> HIDE DEF q
<1> SUFFICES ASSUME q >= m PROVE FALSE
  BY <1>1 DEF q
<1>2. q * Base >= Base * m
  BY ONLY <1>1, q >= m, m \in Nat
<1>3. q * Base <= k
  BY ONLY <1>1, k \in Nat
<1> QED  BY ONLY <1>1, <1>2, <1>3, k < Base * m, k \in Nat, m \in Nat

LEMMA OneLong == ASSUME NEW S, NEW x \in S PROVE <<x>> \in Seq(S) /\ Len(<<x>>) = 1 /\ <<x>>[1] = x
  OBVIOUS

LEMMA PutInFront ==
  ASSUME NEW S, NEW x \in S, NEW s \in Seq(S)
  PROVE  /\ <<x>> \in Seq(S) /\ Len(<<x>>) = 1 /\ <<x>>[1] = x
         /\ <<x>> \o s \in Seq(S) /\ Len(<<x>> \o s) = 1 + Len(s)
         /\ (<<x>> \o s)[1] = x
         /\ \A i \in 1..Len(s) : (<<x>> \o s)[i + 1] = s[i]
<1>1. <<x>> \in Seq(S) /\ Len(<<x>>) = 1 /\ <<x>>[1] = x
  OBVIOUS
<1>2. <<x>> \o s \in Seq(S) /\ Len(<<x>> \o s) = 1 + Len(s)
  BY <1>1
<1>3. (<<x>> \o s)[1] = x
  BY <1>1
<1>4. \A i \in 1..Len(s) : (<<x>> \o s)[i + 1] = s[i]
  BY <1>1
<1> QED  BY <1>1, <1>2, <1>3, <1>4

-----------------------------------------------------------------------------
(***************************************************************************)
(* The remaining length.                                                   *)
(***************************************************************************)
\* The recursion of writeRemainingLength() has a solution.
LEMMA EncodeUnfolds ==
  ASSUME NEW n \in Nat
  PROVE  \E f : /\ EncodeLength(n) = f[n] /\ f \in [0..n -> Seq(Digits128)]
                /\ \A k \in 0..n :
                     f[k] = IF k < Base THEN <<Digit(k, FALSE)>>
                            ELSE <<Digit(k % Base, TRUE)>> \o f[k \div Base]
<1> DEFINE D == 0..n
           V == Seq(Digits128)
           step == [k \in D |-> [g \in [D -> V] |->
                      IF k < Base THEN <<Digit(k, FALSE)>>
                      ELSE <<Digit(k % Base, TRUE)>> \o g[k \div Base]]]
           rank == [k \in D |-> k]
<1>0. ASSUME NEW k \in D
      PROVE  /\ k \in Nat
             /\ ~(k < Base) => k \div Base \in D /\ k \div Base < k
             /\ Digit(k % Base, TRUE) \in Digits128
             /\ k < Base => Digit(k, FALSE) \in Digits128
  <2>1. k \in Nat /\ k <= n  OBVIOUS
  <2>2. /\ k \div Base \in Nat /\ k % Base \in 0..(Base - 1)
        /\ k >= Base => k \div Base < k
    BY <2>1, Division
  <2>3. ~(k < Base) => k \div Base \in D /\ k \div Base < k
    BY <2>1, <2>2, WireAssumption
  <2>4. k < Base => k \in 0..(Base - 1)
    BY <2>1, WireAssumption
  <2> QED  BY <2>1, <2>2, <2>3, <2>4 DEF Digit, Digits128
<1>1. step \in [D -> [[D -> V] -> V]]
  <2>1. ASSUME NEW k \in D, NEW g \in [D -> V]
        PROVE  (IF k < Base THEN <<Digit(k, FALSE)>>
                ELSE <<Digit(k % Base, TRUE)>> \o g[k \div Base]) \in V
    <3>1. CASE k < Base
      <4>1. Digit(k, FALSE) \in Digits128  BY <1>0, <3>1
      <4>2. <<Digit(k, FALSE)>> \in Seq(Digits128)
        <5> HIDE DEF D, V, step
        <5> QED  BY <4>1, OneLong
      <4> QED  BY <3>1, <4>2
    <3>2. CASE ~(k < Base)
      <4>1. g[k \div Base] \in Seq(Digits128) /\ Digit(k % Base, TRUE) \in Digits128
        BY <1>0, <3>2
      <4>2. <<Digit(k % Base, TRUE)>> \o g[k \div Base] \in Seq(Digits128)
        <5> HIDE DEF D, V, step
        <5> QED  BY <4>1, PutInFront
      <4> QED  BY <3>2, <4>2
    <3> QED  BY <3>1, <3>2
  <2> QED  BY <2>1
<1>2. IsRecursion(D, V, rank, n, step)
  <2>1. rank \in [D -> 0..n]  OBVIOUS
  <2>2. ASSUME NEW k \in D, NEW g \in [D -> V], NEW h \in [D -> V],
               \A y \in D : rank[y] < rank[k] => g[y] = h[y]
        PROVE  step[k][g] = step[k][h]
    <3>1. CASE k < Base  BY <3>1
    <3>2. CASE ~(k < Base)
      <4>1. k \div Base \in D /\ k \div Base < k  BY <1>0, <3>2
      <4>2. g[k \div Base] = h[k \div Base]  BY <2>2, <4>1
      <4> QED  BY <4>2
    <3> QED  BY <3>1, <3>2
  <2>3. V # {}
    <3>1. << >> \in V  OBVIOUS
    <3> QED  BY <3>1
  <2> HIDE DEF step, rank, D, V
  <2> QED  BY <1>1, <2>1, <2>2, <2>3 DEF IsRecursion
<1>3. PICK f : IsFixpoint(f, D, V, step)
  <2> HIDE DEF step, rank, D, V
  <2> QED  BY <1>2, RecursionExists
<1>4. f \in [D -> V] /\ \A k \in D : f[k] = step[k][f]
  BY <1>3 DEF IsFixpoint
<1>5. \A k \in D : f[k] = IF k < Base THEN <<Digit(k, FALSE)>>
                          ELSE <<Digit(k % Base, TRUE)>> \o f[k \div Base]
  BY <1>4
<1> DEFINE enc == CHOOSE g : g = [k \in D |->
                      IF k < Base THEN <<Digit(k, FALSE)>>
                      ELSE <<Digit(k % Base, TRUE)>> \o g[k \div Base]]
<1>6. f = [k \in D |-> f[k]]
  BY <1>4
<1>7. f = [k \in D |-> IF k < Base THEN <<Digit(k, FALSE)>>
                       ELSE <<Digit(k % Base, TRUE)>> \o f[k \div Base]]
  BY <1>5, <1>6
<1>8. enc = [k \in D |-> IF k < Base THEN <<Digit(k, FALSE)>>
                         ELSE <<Digit(k % Base, TRUE)>> \o enc[k \div Base]]
  BY <1>7
<1>9. EncodeLength(n) = enc[n]
  BY DEF EncodeLength
<1> HIDE DEF enc
<1>10. enc \in [D -> V]
  <2> DEFINE S == {k \in Nat : k <= n => enc[k] \in V}
  <2>1. ASSUME NEW k \in Nat, \A i \in Nat : i < k => i \in S
        PROVE  k \in S
    <3> SUFFICES ASSUME k <= n PROVE enc[k] \in V
      OBVIOUS
    <3>1. k \in D  OBVIOUS
    <3>2. CASE k < Base
      <4>1. Digit(k, FALSE) \in Digits128  BY <1>0, <3>1, <3>2
      <4>2. <<Digit(k, FALSE)>> \in V
        <5> HIDE DEF D, step
        <5> QED  BY <4>1, OneLong
      <4> QED  BY <1>8, <3>1, <3>2, <4>2
    <3>3. CASE ~(k < Base)
      <4>1. k \div Base \in D /\ k \div Base < k  BY <1>0, <3>1, <3>3
      <4>2. k \div Base \in Nat /\ k \div Base <= n  BY <4>1
      <4>4. k \div Base \in S  BY <2>1, <4>1, <4>2
      <4>5. enc[k \div Base] \in V  BY <4>2, <4>4
      <4>6. Digit(k % Base, TRUE) \in Digits128  BY <1>0, <3>1
      <4>3. <<Digit(k % Base, TRUE)>> \o enc[k \div Base] \in V
        <5> HIDE DEF D, step
        <5> QED  BY <4>5, <4>6, PutInFront
      <4> QED  BY <1>8, <3>1, <3>3, <4>3
    <3> QED  BY <3>2, <3>3
  <2>2. \A k \in Nat : k \in S
    <3> HIDE DEF S
    <3> QED  BY <2>1, StrongInduction
  <2>3. \A k \in D : enc[k] \in V
    BY <2>2
  <2>4. enc = [k \in D |-> enc[k]]
    BY <1>8
  <2> QED  BY <2>3, <2>4
<1> QED  BY <1>8, <1>9, <1>10

\* The digits of n: rest[i] is what is left from the i-th digit on.
IsWritten(bytes, size, n, rest) ==
  /\ Len(bytes) = size /\ size \in Nat /\ size >= 1
  /\ rest \in [1..size -> Nat] /\ rest[1] = n
  /\ \A i \in 1..(size - 1) :
       /\ rest[i] >= Base /\ rest[i + 1] = rest[i] \div Base
       /\ bytes[i] = Digit(rest[i] % Base, TRUE)
  /\ rest[size] < Base /\ bytes[size] = Digit(rest[size], FALSE)

LEMMA EncodeWrites ==
  ASSUME NEW n \in Nat
  PROVE  /\ EncodeLength(n) \in Seq(Digits128)
         /\ \E size, rest : IsWritten(EncodeLength(n), size, n, rest)
<1>1. PICK f : /\ EncodeLength(n) = f[n] /\ f \in [0..n -> Seq(Digits128)]
               /\ \A k \in 0..n :
                    f[k] = IF k < Base THEN <<Digit(k, FALSE)>>
                           ELSE <<Digit(k % Base, TRUE)>> \o f[k \div Base]
  BY EncodeUnfolds
<1> DEFINE S == {k \in Nat : k <= n => \E size, rest : IsWritten(f[k], size, k, rest)}
<1>2. ASSUME NEW k \in Nat, \A i \in Nat : i < k => i \in S PROVE k \in S
  <2> SUFFICES ASSUME k <= n PROVE \E size, rest : IsWritten(f[k], size, k, rest)
    OBVIOUS
  <2>1. k \in 0..n  OBVIOUS
  <2>2. CASE k < Base
    <3>1. f[k] = <<Digit(k, FALSE)>>  BY <1>1, <2>1, <2>2
    <3>2. Len(f[k]) = 1 /\ f[k][1] = Digit(k, FALSE)  BY <3>1
    <3> DEFINE rest == [i \in 1..1 |-> k]
    <3>3. IsWritten(f[k], 1, k, rest)
      BY <2>2, <3>2 DEF IsWritten
    <3> QED  BY <3>3
  <2>3. CASE ~(k < Base)
    <3> DEFINE q == k \div Base
               old == f[q]
               new == f[k]
    <3>1. q \in Nat /\ q < k /\ q <= n /\ k >= Base /\ k % Base \in 0..(Base - 1)
      BY <2>1, <2>3, Division, WireAssumption
    <3>2. PICK size, rest : IsWritten(old, size, q, rest)
      BY <1>2, <3>1
    <3>3. new = <<Digit(k % Base, TRUE)>> \o old /\ old \in Seq(Digits128)
      <4>1. q \in 0..n  BY <3>1
      <4> HIDE DEF q
      <4> QED  BY <1>1, <2>1, <2>3, <4>1 DEF q
    <3>4. Digit(k % Base, TRUE) \in Digits128
      BY <3>1 DEF Digit, Digits128
    <3> HIDE DEF new, old
    <3>5. /\ Len(new) = 1 + Len(old) /\ new[1] = Digit(k % Base, TRUE)
          /\ \A i \in 1..Len(old) : new[i + 1] = old[i]
      BY <3>3, <3>4, PutInFront
    <3> DEFINE more == [i \in 1..(size + 1) |-> IF i = 1 THEN k ELSE rest[i - 1]]
    <3>6. /\ Len(old) = size /\ size \in Nat /\ size >= 1 /\ rest \in [1..size -> Nat] /\ rest[1] = q
          /\ \A i \in 1..(size - 1) :
               /\ rest[i] >= Base /\ rest[i + 1] = rest[i] \div Base
               /\ old[i] = Digit(rest[i] % Base, TRUE)
          /\ rest[size] < Base /\ old[size] = Digit(rest[size], FALSE)
      BY <3>2 DEF IsWritten
    <3> HIDE DEF q
    <3>7. more \in [1..(size + 1) -> Nat] /\ more[1] = k
      <4>1. ASSUME NEW i \in 1..(size + 1) PROVE (IF i = 1 THEN k ELSE rest[i - 1]) \in Nat
        <5>1. CASE i # 1
          <6>1. i - 1 \in 1..size  BY <3>6, <5>1
          <6> QED  BY <3>6, <5>1, <6>1
        <5> QED  BY <5>1
      <4> QED  BY <3>6, <4>1
    <3>8. \A i \in 1..size : more[i + 1] = rest[i]
      <4>1. \A i \in 1..size : i + 1 \in 1..(size + 1) /\ i + 1 # 1 /\ (i + 1) - 1 = i
        BY <3>6
      <4> QED  BY <4>1
    <3> HIDE DEF more
    <3>9. ASSUME NEW i \in 1..size
          PROVE  /\ more[i] >= Base /\ more[i + 1] = more[i] \div Base
                 /\ new[i] = Digit(more[i] % Base, TRUE)
      <4>1. CASE i = 1
        BY <3>1, <3>5, <3>6, <3>7, <3>8, <4>1 DEF q
      <4>2. CASE i # 1
        <5>1. i - 1 \in 1..(size - 1) /\ i - 1 \in 1..size /\ (i - 1) + 1 = i
          BY <3>6, <4>2
        <5>2. more[i] = rest[i - 1] /\ new[i] = old[i - 1] /\ more[i + 1] = rest[i]
          BY <3>5, <3>6, <3>8, <5>1
        <5>3. /\ rest[i - 1] >= Base /\ rest[i] = rest[i - 1] \div Base
              /\ old[i - 1] = Digit(rest[i - 1] % Base, TRUE)
          BY <3>6, <5>1
        <5> QED  BY <5>2, <5>3
      <4> QED  BY <4>1, <4>2
    <3>10. more[size + 1] < Base /\ new[size + 1] = Digit(more[size + 1], FALSE)
      <4>1. size \in 1..size  BY <3>6
      <4> QED  BY <3>5, <3>6, <3>8, <4>1
    <3>11. Len(new) = size + 1 /\ (size + 1) - 1 = size
      BY <3>5, <3>6
    <3>12. IsWritten(new, size + 1, k, more)
      <4>1. size + 1 \in Nat /\ size + 1 >= 1  BY <3>6
      <4>2. /\ Len(new) = size + 1 /\ more \in [1..(size + 1) -> Nat] /\ more[1] = k
            /\ more[size + 1] < Base /\ new[size + 1] = Digit(more[size + 1], FALSE)
        BY <3>7, <3>10, <3>11
      <4>3. \A i \in 1..((size + 1) - 1) :
              /\ more[i] >= Base /\ more[i + 1] = more[i] \div Base
              /\ new[i] = Digit(more[i] % Base, TRUE)
        BY ONLY <3>9, <3>11, Zenon
      <4> QED  BY ONLY <4>1, <4>2, <4>3, Zenon DEF IsWritten
    <3> QED  BY <3>12 DEF new
  <2> QED  BY <2>2, <2>3
<1>3. n \in S
  <2>1. \A k \in Nat : k \in S
    <3> HIDE DEF S
    <3> QED  BY <1>2, StrongInduction
  <2> QED  BY <2>1
<1>4. n \in 0..n /\ n <= n  OBVIOUS
<1>5. \E size, rest : IsWritten(f[n], size, n, rest)
  BY <1>3, <1>4
<1>6. f[n] \in Seq(Digits128)
  BY <1>1, <1>4
<1> QED  BY ONLY <1>1, <1>5, <1>6, Zenon

\* A length below Base^4 needs no more than four digits.
LEMMA FewDigits ==
  ASSUME NEW n \in Nat, n < Base * (Base * (Base * Base)),
         NEW bytes, NEW size, NEW rest, IsWritten(bytes, size, n, rest)
  PROVE  size \in 1..MaxDigits
<1>1. /\ size \in Nat /\ size >= 1 /\ rest \in [1..size -> Nat] /\ rest[1] = n
      /\ \A i \in 1..(size - 1) : rest[i] >= Base /\ rest[i + 1] = rest[i] \div Base
  BY DEF IsWritten
<1> SUFFICES ASSUME size > 4 PROVE FALSE
  BY <1>1 DEF MaxDigits
<1>2. /\ rest[1] \in Nat /\ rest[2] \in Nat /\ rest[3] \in Nat /\ rest[4] \in Nat
      /\ rest[2] = rest[1] \div Base /\ rest[3] = rest[2] \div Base
      /\ rest[4] = rest[3] \div Base /\ rest[4] >= Base
  <2>1. 1 \in 1..(size - 1) /\ 2 \in 1..(size - 1) /\ 3 \in 1..(size - 1) /\ 4 \in 1..(size - 1)
    BY <1>1
  <2>2. 1 + 1 = 2 /\ 2 + 1 = 3 /\ 3 + 1 = 4 /\ 1 \in 1..size /\ 2 \in 1..size /\ 3 \in 1..size /\ 4 \in 1..size
    BY <1>1
  <2>3. rest[1 + 1] = rest[1] \div Base /\ rest[2 + 1] = rest[2] \div Base /\ rest[3 + 1] = rest[3] \div Base
    BY ONLY <1>1, <2>1, Zenon
  <2> QED  BY ONLY <1>1, <2>1, <2>2, <2>3, Zenon
<1>3. /\ Base \in Nat /\ Base * Base \in Nat /\ Base * (Base * Base) \in Nat
  BY WireAssumption
<1>4. rest[2] < Base * (Base * Base)
  BY ONLY <1>1, <1>2, <1>3, n < Base * (Base * (Base * Base)), SmallerQuotient, Zenon
<1>5. rest[3] < Base * Base
  BY ONLY <1>2, <1>3, <1>4, SmallerQuotient, Zenon
<1>6. rest[4] < Base
  BY ONLY <1>2, <1>3, <1>5, SmallerQuotient, Zenon
<1>7. rest[4] \in Nat /\ rest[4] >= Base
  BY <1>2
<1> QED  BY ONLY <1>3, <1>6, <1>7

\* A reader of digits: dec[i] is what is read from the i-th on.
Reads(dec, bytes) ==
  dec = [i \in 1..(MaxDigits + 1) |->
           IF i > MaxDigits \/ i > Len(bytes) THEN NotALength
           ELSE IF ~bytes[i].more
                THEN [ok |-> TRUE, len |-> bytes[i].value, used |-> i]
                ELSE [dec[i + 1] EXCEPT !.len = @ * Base + bytes[i].value]]

\* The same for PubSubClient::readPacket().
ReadsPacket(dec, bytes) ==
  dec = [len \in 1..(MaxDigits + 1) |->
           IF len = MaxDigits + 1 \/ len > Len(bytes) THEN NotALength
           ELSE LET rest == IF bytes[len].more THEN dec[len + 1]
                            ELSE [ok |-> TRUE, len |-> 0, used |-> len]
                IN IF rest.ok
                   THEN [rest EXCEPT !.len = @ * Base + bytes[len].value]
                   ELSE NotALength]

\* Neither loop goes on behind its last digit: both have one result.
LEMMA DecodeUnfolds ==
  ASSUME NEW bytes
  PROVE  /\ \E dec : Reads(dec, bytes) /\ DecodeLength(bytes) = dec[1]
         /\ \E dec : ReadsPacket(dec, bytes) /\ DecodePacketLength(bytes) = dec[1]
<1> DEFINE one(i, next) == IF i > MaxDigits \/ i > Len(bytes) THEN NotALength
                           ELSE IF ~bytes[i].more
                                THEN [ok |-> TRUE, len |-> bytes[i].value, used |-> i]
                                ELSE [next EXCEPT !.len = @ * Base + bytes[i].value]
           d == [i \in 1..5 |->
                   IF i = 1 THEN one(1, one(2, one(3, one(4, NotALength))))
                   ELSE IF i = 2 THEN one(2, one(3, one(4, NotALength)))
                   ELSE IF i = 3 THEN one(3, one(4, NotALength))
                   ELSE IF i = 4 THEN one(4, NotALength)
                   ELSE NotALength]
<1>1. Reads(d, bytes)
  <2>1. ASSUME NEW next PROVE one(5, next) = NotALength
    BY DEF MaxDigits
  <2>2. \A i \in 1..5 : i = 1 \/ i = 2 \/ i = 3 \/ i = 4 \/ i = 5
    OBVIOUS
  <2> HIDE DEF one
  <2>3. /\ d[5] = NotALength /\ d[4] = one(4, d[4 + 1]) /\ d[3] = one(3, d[3 + 1])
        /\ d[2] = one(2, d[2 + 1]) /\ d[1] = one(1, d[1 + 1])
    OBVIOUS
  <2>4. \A i \in 1..5 : d[i] = one(i, d[i + 1])
    BY <2>1, <2>2, <2>3
  <2>5. d = [i \in 1..5 |-> d[i]]
    OBVIOUS
  <2> HIDE DEF d
  <2>6. d = [i \in 1..5 |-> one(i, d[i + 1])]
    BY <2>4, <2>5
  <2>7. 1..(MaxDigits + 1) = 1..5
    BY DEF MaxDigits
  <2> QED  BY ONLY <2>6, <2>7 DEF Reads, one
<1> DEFINE dec == CHOOSE g : Reads(g, bytes)
<1>2. Reads(dec, bytes)
  BY <1>1
<1>3. DecodeLength(bytes) = dec[1]
  BY DEF DecodeLength, Reads
<1> DEFINE two(i, next) == IF i = MaxDigits + 1 \/ i > Len(bytes) THEN NotALength
                           ELSE LET rest == IF bytes[i].more THEN next
                                            ELSE [ok |-> TRUE, len |-> 0, used |-> i]
                                IN IF rest.ok
                                   THEN [rest EXCEPT !.len = @ * Base + bytes[i].value]
                                   ELSE NotALength
           e == [i \in 1..5 |->
                   IF i = 1 THEN two(1, two(2, two(3, two(4, NotALength))))
                   ELSE IF i = 2 THEN two(2, two(3, two(4, NotALength)))
                   ELSE IF i = 3 THEN two(3, two(4, NotALength))
                   ELSE IF i = 4 THEN two(4, NotALength)
                   ELSE NotALength]
<1>4. ReadsPacket(e, bytes)
  <2>1. ASSUME NEW next PROVE two(5, next) = NotALength
    BY DEF MaxDigits
  <2>2. \A i \in 1..5 : i = 1 \/ i = 2 \/ i = 3 \/ i = 4 \/ i = 5
    OBVIOUS
  <2> HIDE DEF two
  <2>3. /\ e[5] = NotALength /\ e[4] = two(4, e[4 + 1]) /\ e[3] = two(3, e[3 + 1])
        /\ e[2] = two(2, e[2 + 1]) /\ e[1] = two(1, e[1 + 1])
    OBVIOUS
  <2>4. \A i \in 1..5 : e[i] = two(i, e[i + 1])
    BY <2>1, <2>2, <2>3
  <2>5. e = [i \in 1..5 |-> e[i]]
    OBVIOUS
  <2> HIDE DEF e
  <2>6. e = [i \in 1..5 |-> two(i, e[i + 1])]
    BY <2>4, <2>5
  <2>7. 1..(MaxDigits + 1) = 1..5
    BY DEF MaxDigits
  <2> QED  BY ONLY <2>6, <2>7 DEF ReadsPacket, two
<1> DEFINE ded == CHOOSE g : ReadsPacket(g, bytes)
<1>5. ReadsPacket(ded, bytes)
  BY <1>4
<1>6. DecodePacketLength(bytes) = ded[1]
  BY DEF DecodePacketLength, ReadsPacket
<1> HIDE DEF dec, ded
<1> QED  BY <1>2, <1>3, <1>5, <1>6

LEMMA NextLength ==
  ASSUME NEW x \in Int, NEW y \in Int, NEW u \in Int,
         NEW r, r = [ok |-> TRUE, len |-> x, used |-> u]
  PROVE  [r EXCEPT !.len = y] = [ok |-> TRUE, len |-> y, used |-> u]
<1> DEFINE R == [ok : BOOLEAN, len : Int, used : Int]
           s == [r EXCEPT !.len = y]
<1>1. r \in R /\ r.ok = TRUE /\ r.used = u
  OBVIOUS
<1>2. s \in R /\ s.ok = r.ok /\ s.len = y /\ s.used = r.used
  BY ONLY <1>1, y \in Int
<1> HIDE DEF s
<1>3. s = [ok |-> s.ok, len |-> s.len, used |-> s.used]
  BY ONLY <1>2
<1> QED  BY ONLY <1>1, <1>2, <1>3 DEF s

\* Both readers of what was written come back to the number, from the last
\* digit to the first.
LEMMA DigitsAreRead ==
  ASSUME NEW n \in Nat, NEW bytes, NEW size \in 1..MaxDigits, NEW rest,
         IsWritten(bytes, size, n, rest),
         NEW dec, Reads(dec, bytes) \/ ReadsPacket(dec, bytes)
  PROVE  dec[1] = [ok |-> TRUE, len |-> n, used |-> size]
<1> DEFINE read(i) == [ok |-> TRUE, len |-> rest[i], used |-> size]
<1>0. size \in Nat /\ size >= 1 /\ size <= 4 /\ size \in 1..size
  BY DEF MaxDigits
<1>1. /\ Len(bytes) = size /\ rest \in [1..size -> Nat] /\ rest[1] = n
      /\ \A i \in 1..(size - 1) : /\ rest[i + 1] = rest[i] \div Base
                                  /\ bytes[i] = Digit(rest[i] % Base, TRUE)
      /\ bytes[size] = Digit(rest[size], FALSE)
  BY ONLY IsWritten(bytes, size, n, rest), Zenon DEF IsWritten
<1>2. /\ ~bytes[size].more /\ bytes[size].value = rest[size] /\ rest[size] \in Nat
      /\ \A i \in 1..(size - 1) : bytes[i].more /\ bytes[i].value = rest[i] % Base
  <2>1. \A d : Digit(d, TRUE).more /\ Digit(d, TRUE).value = d /\ ~Digit(d, FALSE).more /\ Digit(d, FALSE).value = d
    BY DEF Digit
  <2> QED  BY ONLY <1>0, <1>1, <2>1, Zenon
<1>3. dec[size] = read(size)
  <2>1. size \in 1..(MaxDigits + 1) /\ ~(size > MaxDigits \/ size > Len(bytes)) /\ size # MaxDigits + 1
    BY <1>0, <1>1 DEF MaxDigits
  <2>2. CASE Reads(dec, bytes)
    BY <1>2, <2>1, <2>2 DEF Reads
  <2>3. CASE ReadsPacket(dec, bytes)
    <3>1. 0 * Base + rest[size] = rest[size]
      BY <1>2, WireAssumption
    <3>2. dec[size] = [[ok |-> TRUE, len |-> 0, used |-> size] EXCEPT !.len = @ * Base + bytes[size].value]
      BY <1>2, <2>1, <2>3 DEF ReadsPacket
    <3> QED  BY <1>2, <3>1, <3>2
  <2> QED  BY <2>2, <2>3
<1>4. ASSUME NEW i \in 1..(size - 1), dec[i + 1] = read(i + 1) PROVE dec[i] = read(i)
  <2>1. /\ i \in 1..(MaxDigits + 1) /\ ~(i > MaxDigits \/ i > Len(bytes)) /\ i # MaxDigits + 1
        /\ i \in 1..size /\ i + 1 \in 1..size
    BY <1>0, <1>1 DEF MaxDigits
  <2>2. rest[i + 1] * Base + bytes[i].value = rest[i]
    <3>1. rest[i] \in Nat /\ rest[i + 1] = rest[i] \div Base /\ bytes[i].value = rest[i] % Base
      BY <1>1, <1>2, <2>1
    <3>2. rest[i] = (rest[i] \div Base) * Base + (rest[i] % Base)
      BY <3>1, Division
    <3> QED  BY ONLY <3>1, <3>2, Zenon
  <2>3. /\ dec[i + 1] = [ok |-> TRUE, len |-> rest[i + 1], used |-> size]
        /\ dec[i + 1].ok /\ bytes[i].more
    BY <1>2, <1>4
  <2>4. dec[i] = [dec[i + 1] EXCEPT !.len = @ * Base + bytes[i].value]
    <3>1. CASE Reads(dec, bytes)
      BY <2>1, <2>3, <3>1 DEF Reads
    <3>2. CASE ReadsPacket(dec, bytes)
      <4>1. dec[i] = LET rest0 == IF bytes[i].more THEN dec[i + 1]
                                  ELSE [ok |-> TRUE, len |-> 0, used |-> i]
                     IN IF rest0.ok
                        THEN [rest0 EXCEPT !.len = @ * Base + bytes[i].value]
                        ELSE NotALength
        BY ONLY <2>1, <3>2, Zenon DEF ReadsPacket
      <4> QED  BY ONLY <2>3, <4>1, Zenon
    <3> QED  BY <3>1, <3>2
  <2>5. dec[i] = [ok |-> TRUE, len |-> rest[i + 1] * Base + bytes[i].value, used |-> size]
    <3>1. dec[i + 1].len = rest[i + 1] /\ rest[i + 1] \in Int /\ size \in Int
      BY <1>0, <1>1, <2>1, <2>3
    <3>2. rest[i + 1] * Base + bytes[i].value \in Int
      BY <1>1, <2>1, <2>2
    <3> DEFINE r == dec[i + 1]
               y == rest[i + 1] * Base + bytes[i].value
    <3>3. r = [ok |-> TRUE, len |-> rest[i + 1], used |-> size]
      BY <2>3
    <3>4. dec[i] = [r EXCEPT !.len = y]
      BY ONLY <2>4, <3>1
    <3>5. y \in Int
      BY <3>2
    <3> HIDE DEF r, y
    <3>6. [r EXCEPT !.len = y] = [ok |-> TRUE, len |-> y, used |-> size]
      BY ONLY <3>1, <3>3, <3>5, NextLength
    <3> QED  BY <3>4, <3>6 DEF y
  <2> QED  BY ONLY <2>2, <2>5
<1> DEFINE S == {k \in Nat : k < size => dec[size - k] = read(size - k)}
<1>5. \A k \in Nat : k \in S
  <2>1. 0 \in S
    BY <1>0, <1>3
  <2>2. ASSUME NEW k \in Nat, k \in S PROVE k + 1 \in S
    <3> SUFFICES ASSUME k + 1 < size PROVE dec[size - (k + 1)] = read(size - (k + 1))
      OBVIOUS
    <3>1. size - (k + 1) \in 1..(size - 1) /\ (size - (k + 1)) + 1 = size - k /\ k < size
      BY <1>0
    <3>2. dec[size - k] = read(size - k)
      BY <2>2, <3>1
    <3> QED  BY <1>4, <3>1, <3>2
  <2> HIDE DEF S
  <2> QED  BY <2>1, <2>2, Induction
<1>6. size - 1 \in Nat /\ size - 1 < size /\ size - (size - 1) = 1
  BY <1>0
<1>7. dec[1] = read(1)
  BY <1>5, <1>6
<1> QED  BY <1>1, <1>7

\* A remaining length below Base^4 is written in at most four digits, and the
\* bridge and PubSubClient read the number and the count of its digits again
\* (mqtt_bridge.cpp:948, :971, PubSubClient.cpp:312, :557).
THEOREM LengthsAreRead ==
  ASSUME NEW e, e.length \in Nat, e.length < Base * (Base * (Base * Base))
  PROVE  LengthIsRead(e)
<1> DEFINE n == e.length
           bytes == EncodeLength(n)
<1>0. n \in Nat
  OBVIOUS
<1>1. PICK size, rest : IsWritten(bytes, size, n, rest)
  BY EncodeWrites
<1>2. size \in 1..MaxDigits /\ Len(bytes) = size /\ size <= MaxDigits
  <2>1. size \in 1..MaxDigits  BY <1>1, FewDigits
  <2>2. Len(bytes) = size  BY <1>1 DEF IsWritten
  <2> QED  BY <2>1, <2>2 DEF MaxDigits
<1>3. PICK dec : Reads(dec, bytes) /\ DecodeLength(bytes) = dec[1]
  BY DecodeUnfolds
<1>4. PICK ded : ReadsPacket(ded, bytes) /\ DecodePacketLength(bytes) = ded[1]
  BY DecodeUnfolds
<1>5. /\ dec[1] = [ok |-> TRUE, len |-> n, used |-> size]
      /\ ded[1] = [ok |-> TRUE, len |-> n, used |-> size]
  <2> HIDE DEF bytes, n
  <2>1. dec[1] = [ok |-> TRUE, len |-> n, used |-> size]
    BY <1>0, <1>1, <1>2, <1>3, DigitsAreRead
  <2>2. ded[1] = [ok |-> TRUE, len |-> n, used |-> size]
    <3>1. Reads(ded, bytes) \/ ReadsPacket(ded, bytes)
      BY <1>4
    <3> HIDE DEF n
    <3> QED  BY ONLY <1>0, <1>1, <1>2, <3>1, DigitsAreRead
  <2> QED  BY <2>1, <2>2
<1> QED  BY <1>2, <1>3, <1>4, <1>5 DEF LengthIsRead

-----------------------------------------------------------------------------
(***************************************************************************)
(* The packets of PubSubClient.                                            *)
(***************************************************************************)
\* A packet that has room for its text has room for its header in front of it.
LEMMA HeaderHasRoom ==
  ASSUME NEW len \in Nat, len < Base * (Base * (Base * Base))
  PROVE  HeaderLength(len) \in 2..HeaderSize
<1>1. PICK size, rest : IsWritten(EncodeLength(len), size, len, rest)
  BY EncodeWrites
<1>2. size \in 1..MaxDigits /\ Len(EncodeLength(len)) = size
  <2>1. size \in 1..MaxDigits  BY <1>1, FewDigits
  <2>2. Len(EncodeLength(len)) = size  BY <1>1 DEF IsWritten
  <2> QED  BY <2>1, <2>2
<1> QED  BY <1>2, WireAssumption DEF HeaderLength, MaxDigits

LEMMA BuiltFits ==
  ASSUME NEW variable \in Nat, HeaderSize + variable <= BufferSize
  PROVE  /\ Fits(Built(HeaderSize + variable), variable)
         /\ Built(HeaderSize + variable).bytes <= BufferSize
         /\ Built(HeaderSize + variable).sent
<1>1. variable < Base * (Base * (Base * Base))
  BY WireAssumption
<1>2. HeaderLength(variable) \in 2..HeaderSize
  BY <1>1, HeaderHasRoom
<1>3. (HeaderSize + variable) - HeaderSize = variable
  BY WireAssumption
<1>4. /\ Built(HeaderSize + variable).sent
      /\ Built(HeaderSize + variable).first = HeaderSize - HeaderLength(variable)
      /\ Built(HeaderSize + variable).end = HeaderSize + variable
      /\ Built(HeaderSize + variable).bytes = variable + HeaderLength(variable)
  BY <1>3 DEF Built
<1> QED  BY <1>2, <1>4, WireAssumption DEF Fits

\* Whatever the lengths of topic and payload, a packet that is sent lies in the
\* buffer with its header, its length is what its parts need, and a packet is
\* refused only when it has no room; what is sent is not longer than what the
\* other side of the library keeps (PubSubClient.cpp:448, :557, :609, :637).
THEOREM PacketsFit ==
  ASSUME NEW e, e.topic \in Nat, e.payload \in Nat
  PROVE  PacketFits(e)
<1> DEFINE t == e.topic
           p == e.payload
<1> HIDE DEF t, p
<1>0. t \in Nat /\ p \in Nat
  BY DEF t, p
<1>1. \A v : HeaderSize + v >= BufferSize => Fits(Refused, v)
  BY DEF Fits, Refused
<1>2. Fits(publish(t, p), 2 + t + p) /\ (publish(t, p).sent => KeptOfPacket(publish(t, p).bytes) = publish(t, p).bytes)
  <2>1. CASE BufferSize < HeaderSize + 2 + t + p
    BY <1>0, <1>1, <2>1, WireAssumption DEF publish, Refused
  <2>2. CASE ~(BufferSize < HeaderSize + 2 + t + p)
    <3>1. StringEnd(HeaderSize, t) + p = HeaderSize + (2 + t + p) /\ HeaderSize + (2 + t + p) <= BufferSize
      BY <1>0, <2>2, WireAssumption DEF StringEnd
    <3>2. publish(t, p) = Built(HeaderSize + (2 + t + p))
      BY <2>2, <3>1 DEF publish
    <3>3. Fits(Built(HeaderSize + (2 + t + p)), 2 + t + p) /\ Built(HeaderSize + (2 + t + p)).bytes <= BufferSize
      BY <1>0, <3>1, BuiltFits
    <3>4. Built(HeaderSize + (2 + t + p)).bytes \in Int
      <4>1. 2 + t + p < Base * (Base * (Base * Base)) /\ 2 + t + p \in Nat
        BY <1>0, <3>1, WireAssumption
      <4>2. HeaderLength(2 + t + p) \in 2..HeaderSize
        BY <4>1, HeaderHasRoom
      <4>3. (HeaderSize + (2 + t + p)) - HeaderSize = 2 + t + p
        BY <1>0, WireAssumption
      <4> QED  BY <4>1, <4>2, <4>3, WireAssumption DEF Built
    <3> QED  BY <3>2, <3>3, <3>4, WireAssumption DEF KeptOfPacket
  <2> QED  BY <2>1, <2>2
<1>3. t + 9 # BufferSize => Fits(subscribe(t), 2 + 2 + t + 1)
  <2> SUFFICES ASSUME t + 9 # BufferSize PROVE Fits(subscribe(t), 2 + 2 + t + 1)
    OBVIOUS
  <2>1. CASE BufferSize < 9 + t
    BY <1>0, <1>1, <2>1, WireAssumption DEF subscribe
  <2>2. CASE ~(BufferSize < 9 + t)
    <3>1. /\ StringEnd(HeaderSize + 2, t) + 1 = HeaderSize + (2 + 2 + t + 1)
          /\ HeaderSize + (2 + 2 + t + 1) <= BufferSize
      BY <1>0, <2>2, WireAssumption DEF StringEnd
    <3> QED  BY <1>0, <2>2, <3>1, BuiltFits DEF subscribe
  <2> QED  BY <2>1, <2>2
<1>4. Fits(unsubscribe(t), 2 + 2 + t)
  <2>1. CASE BufferSize < 9 + t
    BY <1>0, <1>1, <2>1, WireAssumption DEF unsubscribe
  <2>2. CASE ~(BufferSize < 9 + t)
    <3>1. /\ StringEnd(HeaderSize + 2, t) = HeaderSize + (2 + 2 + t)
          /\ HeaderSize + (2 + 2 + t) <= BufferSize
      BY <1>0, <2>2, WireAssumption DEF StringEnd
    <3> QED  BY <1>0, <2>2, <3>1, BuiltFits DEF unsubscribe
  <2> QED  BY <2>1, <2>2
<1> QED  BY <1>2, <1>3, <1>4 DEF PacketFits, t, p

-----------------------------------------------------------------------------
(***************************************************************************)
(* The lengths of the certificate.                                         *)
(***************************************************************************)
\* The loop over the n bytes of a long length.
BigEndian(big, buf, n) ==
  big = [i \in 0..n |-> IF i = 0 THEN 0 ELSE big[i - 1] * 256 + buf[2 + i]]

LEMMA LongLength ==
  ASSUME NEW buf, NEW max \in Nat, NEW n \in 1..2, 2 + n <= max,
         buf[1] = 48, buf[2] = 128 + n, buf[3] \in Nat, n = 2 => buf[4] \in Nat
  PROVE  der_seq_length(buf, max) =
           2 + n + (IF n = 1 THEN buf[3] ELSE buf[3] * 256 + buf[4])
<1> DEFINE g == [i \in 0..n |-> IF i = 0 THEN 0 ELSE IF i = 1 THEN buf[3]
                                ELSE buf[3] * 256 + buf[4]]
           big == CHOOSE f : BigEndian(f, buf, n)
<1>1. BigEndian(g, buf, n)
  <2>1. ASSUME NEW i \in 0..n PROVE g[i] = IF i = 0 THEN 0 ELSE g[i - 1] * 256 + buf[2 + i]
    <3>1. i = 0 \/ i = 1 \/ (i = 2 /\ n = 2)  OBVIOUS
    <3>2. i = 1 => g[i - 1] = 0 /\ 2 + i = 3 /\ g[i] = buf[3]  OBVIOUS
    <3>3. i = 2 => g[i - 1] = buf[3] /\ 2 + i = 4 /\ g[i] = buf[3] * 256 + buf[4]  OBVIOUS
    <3>4. i = 0 => g[i] = 0  OBVIOUS
    <3> HIDE DEF g
    <3> QED  BY <3>1, <3>2, <3>3, <3>4
  <2>2. g = [i \in 0..n |-> g[i]]  OBVIOUS
  <2> HIDE DEF g
  <2> QED  BY <2>1, <2>2 DEF BigEndian
<1>2. BigEndian(big, buf, n)
  BY <1>1
<1> HIDE DEF big
<1>3. \A i \in 0..n : big[i] = IF i = 0 THEN 0 ELSE big[i - 1] * 256 + buf[2 + i]
  BY <1>2 DEF BigEndian
<1>4. big[0] = 0 /\ big[1] = buf[3] /\ (n = 2 => big[2] = buf[3] * 256 + buf[4])
  <2>1. 0 \in 0..n /\ 1 \in 0..n /\ (n = 2 => 2 \in 0..n)  OBVIOUS
  <2>2. big[0] = 0  BY <1>3, <2>1
  <2>3. big[1] = big[1 - 1] * 256 + buf[2 + 1] /\ 1 - 1 = 0 /\ 2 + 1 = 3  BY <1>3, <2>1
  <2>4. big[1] = buf[3]  BY <2>2, <2>3
  <2>5. n = 2 => big[2] = big[2 - 1] * 256 + buf[2 + 2] /\ 2 - 1 = 1 /\ 2 + 2 = 4
    BY <1>3, <2>1
  <2> QED  BY <2>2, <2>4, <2>5
<1>5. der_seq_length(buf, max) = 2 + n + big[n]
  <2>1. ~(max < 2 \/ buf[1] # 48) /\ ~(buf[2] < 128) /\ buf[2] - 128 = n /\ ~(n = 0 \/ 2 + n > max)
    OBVIOUS
  <2>2. der_seq_length(buf, max) =
          LET m == buf[2] - 128
              b[i \in 0..m] == IF i = 0 THEN 0 ELSE b[i - 1] * 256 + buf[2 + i]
          IN IF m = 0 \/ 2 + m > max THEN 0 ELSE 2 + m + b[m]
    BY <2>1 DEF der_seq_length
  <2> QED  BY <2>1, <2>2 DEF big, BigEndian
<1> QED  BY <1>4, <1>5

\* The end of the SEQUENCE that mbedtls writes is found for every length of
\* two bytes, the short length of the name list is enough for a serial below
\* 64 characters, and a certificate that derToPem() lets through has room in
\* both of its buffers (tls_client.cpp:75, certgen.cpp:49, mqtt_bridge.cpp:64).
THEOREM CertificateLengthsAgree ==
  ASSUME NEW e, e.length \in Nat, e.length < 256 * 256
  PROVE  Asn1Agrees(e)
<1> DEFINE n == e.length
           h == DerHeader(n)
<1>0. n \in Nat /\ n < 256 * 256
  OBVIOUS
<1> HIDE DEF n
<1>1. der_seq_length(h, Len(h)) = Len(h) + n
  <2>1. CASE n < 128
    <3>1. h = <<48, n>> /\ Len(h) = 2 /\ h[1] = 48 /\ h[2] = n
      BY <2>1 DEF DerHeader
    <3> QED  BY <1>0, <2>1, <3>1 DEF der_seq_length
  <2>2. CASE n >= 128 /\ n < 256
    <3>1. h = <<48, 129, n>> /\ Len(h) = 3 /\ h[1] = 48 /\ h[2] = 129 /\ h[3] = n
      BY <1>0, <2>2 DEF DerHeader
    <3> HIDE DEF h
    <3>2. der_seq_length(h, Len(h)) = 2 + 1 + (IF 1 = 1 THEN h[3] ELSE h[3] * 256 + h[4])
      <4>1. 1 \in 1..2 /\ Len(h) \in Nat /\ 2 + 1 <= Len(h) /\ h[2] = 128 + 1 /\ h[3] \in Nat /\ 1 # 2
        BY <1>0, <3>1
      <4> QED  BY <3>1, <4>1, LongLength
    <3> QED  BY <1>0, <3>1, <3>2
  <2>3. CASE n >= 256
    <3>1. /\ Len(h) = 4 /\ h[1] = 48 /\ h[2] = 130
          /\ h[3] = n \div 256 /\ h[4] = n % 256
      BY <1>0, <2>3 DEF DerHeader
    <3>2. n \div 256 \in Nat /\ n % 256 \in Nat /\ (n \div 256) * 256 + (n % 256) = n
      BY <1>0
    <3> HIDE DEF h
    <3>3. der_seq_length(h, Len(h)) = 2 + 2 + (IF 2 = 1 THEN h[3] ELSE h[3] * 256 + h[4])
      <4>1. 2 \in 1..2 /\ Len(h) \in Nat /\ 2 + 2 <= Len(h) /\ h[2] = 128 + 2 /\ h[3] \in Nat /\ h[4] \in Nat
        BY <3>1, <3>2
      <4> QED  BY <3>1, <4>1, LongLength
    <3> QED  BY <1>0, <3>1, <3>2, <3>3
  <2> QED  BY <1>0, <2>1, <2>2, <2>3
<1>2. n < 64 => /\ SanLengthByte(n, TRUE) < 128
                /\ SanLengthByte(n, TRUE) = SanLength(n, TRUE) - 2
  <2>1. SanLength(n, TRUE) - 2 = 25 + n
    BY <1>0 DEF SanLength
  <2>2. SanLengthByte(n, TRUE) = (SanLength(n, TRUE) - 2) % 256
    BY DEF SanLengthByte
  <2>3. n < 64 => (25 + n) % 256 = 25 + n /\ 25 + n < 128
    BY <1>0
  <2> QED  BY ONLY <2>1, <2>2, <2>3
<1>3. PemFits(n) => PemLength(n) + 1 <= PemSize /\ PemLength(n) + 1 <= TmpSize
  <2> DEFINE b == Base64Length(n)
  <2>1. b \in Nat /\ (n = 0 => b = 0)
    BY <1>0 DEF Base64Length
  <2>2. CASE n = 0
    <3>1. b = 0 /\ PemBound(n) = 128 /\ PemLength(n) = 54
      BY <2>1, <2>2 DEF PemBound, PemLength
    <3> QED  BY <3>1, WireAssumption DEF PemFits
  <2>3. CASE n # 0
    <3> DEFINE q == (b + 1) \div 64
               r == (b + 63) \div 64
    <3>1. /\ q \in Nat /\ b + 1 <= 64 * q + 63
          /\ r \in Nat /\ 64 * r <= b + 63
      BY <2>1
    <3>2. PemBound(n) = q * 65 + (b + 1) + 128 /\ PemLength(n) = 28 + b + r + 26
      BY <2>3 DEF PemBound, PemLength
    <3> HIDE DEF b, q, r
    <3> QED  BY <2>1, <3>1, <3>2, WireAssumption DEF PemFits
  <2> QED  BY <2>2, <2>3
<1> QED  BY <1>1, <1>2, <1>3 DEF Asn1Agrees, n

-----------------------------------------------------------------------------
(***************************************************************************)
(* Versions.                                                               *)
(***************************************************************************)
\* The digits that begin at i end somewhere.
LEMMA DigitsEndSomewhere ==
  ASSUME NEW S, NEW text \in Seq(S), NEW i \in 1..(Len(text) + 1)
  PROVE  \E end \in i..(Len(text) + 1) :
           /\ end > Len(text) \/ text[end] \notin Digits
           /\ \A k \in i..(end - 1) : text[k] \in Digits
<1> DEFINE T == {e \in Nat : e >= i /\ (e > Len(text) \/ text[e] \notin Digits)}
<1>0. Len(text) \in Nat /\ i \in Nat
  OBVIOUS
<1>1. Len(text) + 1 \in T
  BY <1>0
<1>2. PICK x \in T : \A y \in T : x <= y
  <2> T \subseteq Nat  OBVIOUS
  <2> HIDE DEF T
  <2> QED  BY <1>1, LeastNatural
<1>3. x \in i..(Len(text) + 1) /\ (x > Len(text) \/ text[x] \notin Digits)
  BY <1>0, <1>1, <1>2
<1>4. ASSUME NEW k \in i..(x - 1) PROVE text[k] \in Digits
  <2>1. k \in Nat /\ k < x /\ k >= i
    BY <1>0, <1>3
  <2>2. k \notin T
    BY <1>2, <2>1
  <2> QED  BY <2>1, <2>2
<1> QED  BY <1>3, <1>4

\* %d reads a number, and goes on behind its digits.
LEMMA NumberIsRead ==
  ASSUME NEW S, NEW text \in Seq(S), NEW i \in 1..(Len(text) + 1)
  PROVE  /\ NumberAt(text, i).ok \in BOOLEAN
         /\ NumberAt(text, i).value \in Nat
         /\ NumberAt(text, i).end \in i..(Len(text) + 1)
<1> DEFINE end == CHOOSE e \in i..(Len(text) + 1) :
                    /\ e > Len(text) \/ text[e] \notin Digits
                    /\ \A k \in i..(e - 1) : text[k] \in Digits
           Solves(f) == f = [k \in (i - 1)..(end - 1) |->
                               IF k < i THEN 0 ELSE f[k - 1] * 10 + DigitOf[text[k]]]
           val == CHOOSE f : Solves(f)
<1>1. end \in i..(Len(text) + 1) /\ \A k \in i..(end - 1) : text[k] \in Digits
  BY DigitsEndSomewhere
<1>2. NumberAt(text, i) = [ok |-> end > i, value |-> val[end - 1], end |-> end]
  BY DEF NumberAt
<1> HIDE DEF end
<1>3. /\ i - 1 \in Int /\ end - 1 \in Int /\ i - 1 <= end - 1 /\ i \in Int /\ end \in Int
      /\ \A k \in ((i - 1) + 1)..(end - 1) : DigitOf[text[k]] \in Nat
      /\ \A k \in (i - 1)..(end - 1) : k < i <=> k = i - 1
  BY <1>1, DigitAssumption
<1>4. \E f : Solves(f)
  <2> DEFINE op == [k \in ((i - 1) + 1)..(end - 1) |-> [v \in Nat |-> v * 10 + DigitOf[text[k]]]]
  <2>1. op \in [((i - 1) + 1)..(end - 1) -> [Nat -> Nat]]
    BY <1>3
  <2>2. PICK f \in [(i - 1)..(end - 1) -> Nat] : \A k \in (i - 1)..(end - 1) :
            f[k] = IF k = i - 1 THEN 0 ELSE op[k][f[k - 1]]
    <3>1. i - 1 \in Int /\ end - 1 \in Int
      BY <1>3
    <3> HIDE DEF op
    <3> DEFINE m == i - 1
               n == end - 1
               V == Nat
               c == 0
    <3>2. m \in Int /\ n \in Int /\ c \in V /\ IsCarry(op, m, n, V)
      BY <2>1, <3>1 DEF IsCarry
    <3> HIDE DEF m, n, V, c
    <3>3. \E f : IsCarried(f, m, n, V, c, op)
      BY ONLY <3>2, CarriedExists, Zenon
    <3> QED  BY <3>3 DEF IsCarried, m, n, V, c
  <2>3. ASSUME NEW k \in (i - 1)..(end - 1)
        PROVE  f[k] = IF k < i THEN 0 ELSE f[k - 1] * 10 + DigitOf[text[k]]
    <3>1. CASE k = i - 1
      BY <1>3, <2>2, <3>1
    <3>2. CASE k # i - 1
      <4>1. k \in ((i - 1) + 1)..(end - 1) /\ k - 1 \in (i - 1)..(end - 1) /\ ~(k < i)
        BY <1>3, <3>2
      <4>2. f[k - 1] \in Nat /\ f[k] = op[k][f[k - 1]]
        BY <2>2, <3>2, <4>1
      <4>3. f[k] = f[k - 1] * 10 + DigitOf[text[k]]
        BY <4>1, <4>2
      <4> QED  BY <4>1, <4>3
    <3> QED  BY <3>1, <3>2
  <2>4. f = [k \in (i - 1)..(end - 1) |-> f[k]]
    BY <2>2
  <2>5. Solves(f)
    BY <2>3, <2>4
  <2> QED  BY <2>5
<1>5. Solves(val)
  BY <1>4
<1> HIDE DEF val
<1> DEFINE T == {k \in Int : val[k] \in Nat}
<1>6. i - 1 \in T
  <2>1. i - 1 \in (i - 1)..(end - 1) /\ i - 1 < i
    BY <1>3
  <2>2. val[i - 1] = 0
    BY <1>5, <2>1
  <2> QED  BY <1>3, <2>2
<1>7. ASSUME NEW k \in (i - 1)..((end - 1) - 1), k \in T PROVE k + 1 \in T
  <2>1. /\ k + 1 \in (i - 1)..(end - 1) /\ ~(k + 1 < i) /\ (k + 1) - 1 = k
        /\ k + 1 \in ((i - 1) + 1)..(end - 1) /\ k + 1 \in Int
    BY <1>3
  <2>2. val[k + 1] = val[k] * 10 + DigitOf[text[k + 1]]
    BY <1>5, <2>1
  <2>3. DigitOf[text[k + 1]] \in Nat
    BY <1>3, <2>1
  <2> QED  BY <1>7, <2>1, <2>2, <2>3
<1>8. \A k \in (i - 1)..(end - 1) : k \in T
  <2> HIDE DEF T, Solves
  <2> QED  BY ONLY <1>3, <1>6, <1>7, InductionFrom, Zenon
<1>9. val[end - 1] \in Nat
  <2>1. end - 1 \in (i - 1)..(end - 1)  BY <1>3
  <2> QED  BY <1>8, <2>1
<1> QED  BY <1>1, <1>2, <1>9

LEMMA VersionIsRead ==
  ASSUME NEW S, NEW text \in Seq(S)
  PROVE  \E p, q, r \in Nat : ParseVersion(text) = <<p, q, r>>
<1> DEFINE none == [ok |-> FALSE, value |-> 0, end |-> 1]
           dotAt(i) == i <= Len(text) /\ text[i] = "."
           a == NumberAt(text, 1)
           b == IF a.ok /\ dotAt(a.end) THEN NumberAt(text, a.end + 1) ELSE none
           c == IF b.ok /\ dotAt(b.end) THEN NumberAt(text, b.end + 1) ELSE none
           read(n) == IF n.ok THEN n.value ELSE 0
<1>0. Len(text) \in Nat
  OBVIOUS
<1>1. a.value \in Nat /\ a.end \in 1..(Len(text) + 1)
  <2>1. 1 \in 1..(Len(text) + 1)  BY <1>0
  <2> QED  BY <2>1, NumberIsRead
<1>2. b.value \in Nat /\ b.end \in 1..(Len(text) + 1)
  <2> HIDE DEF a
  <2>1. CASE a.ok /\ dotAt(a.end)
    <3>1. a.end + 1 \in 1..(Len(text) + 1)  BY <1>0, <1>1, <2>1
    <3>2. /\ NumberAt(text, a.end + 1).value \in Nat
          /\ NumberAt(text, a.end + 1).end \in (a.end + 1)..(Len(text) + 1)
      BY <3>1, NumberIsRead
    <3> QED  BY <1>0, <1>1, <2>1, <3>2
  <2>2. CASE ~(a.ok /\ dotAt(a.end))
    <3>1. b = none  BY <2>2
    <3> QED  BY <1>0, <3>1
  <2> QED  BY <2>1, <2>2
<1>3. c.value \in Nat
  <2> HIDE DEF a, b
  <2>1. CASE b.ok /\ dotAt(b.end)
    <3>1. b.end + 1 \in 1..(Len(text) + 1)  BY <1>0, <1>2, <2>1
    <3>2. NumberAt(text, b.end + 1).value \in Nat
      BY <3>1, NumberIsRead
    <3> QED  BY <2>1, <3>2
  <2>2. CASE ~(b.ok /\ dotAt(b.end))
    <3>1. c = none  BY <2>2
    <3> QED  BY <3>1
  <2> QED  BY <2>1, <2>2
<1>4. ParseVersion(text) = <<read(a), read(b), read(c)>>
  BY DEF ParseVersion
<1>5. read(a) \in Nat /\ read(b) \in Nat /\ read(c) \in Nat
  <2> HIDE DEF a, b, c
  <2> QED  BY <1>1, <1>2, <1>3
<1> QED  BY <1>4, <1>5

\* The order of three numbers, and what compareVersions() makes of it.
LEMMA ComparedByNumbers ==
  ASSUME NEW S, NEW x \in Seq(S), NEW y \in Seq(S)
  PROVE  LET a == ParseVersion(WithoutV(x))  b == ParseVersion(WithoutV(y))
         IN /\ compareVersions(x, y) = (IF Before(a, b) THEN -1 ELSE IF Before(b, a) THEN 1 ELSE 0)
            /\ ~(Before(a, b) /\ Before(b, a))
            /\ ~Before(a, b) /\ ~Before(b, a) => a = b
<1>1. WithoutV(x) \in Seq(S) /\ WithoutV(y) \in Seq(S)
  BY DEF WithoutV
<1>2. PICK p1, q1, r1 \in Nat : ParseVersion(WithoutV(x)) = <<p1, q1, r1>>
  BY <1>1, VersionIsRead
<1>3. PICK p2, q2, r2 \in Nat : ParseVersion(WithoutV(y)) = <<p2, q2, r2>>
  BY <1>1, VersionIsRead
<1> DEFINE a == <<p1, q1, r1>>
           b == <<p2, q2, r2>>
<1>4. /\ Before(a, b) <=> p1 < p2 \/ (p1 = p2 /\ q1 < q2) \/ (p1 = p2 /\ q1 = q2 /\ r1 < r2)
      /\ Before(b, a) <=> p2 < p1 \/ (p1 = p2 /\ q2 < q1) \/ (p1 = p2 /\ q1 = q2 /\ r2 < r1)
  <2>1. \A u, v : Before(u, v) <=> \/ u[1] < v[1]
                                   \/ u[1] = v[1] /\ u[2] < v[2]
                                   \/ u[1] = v[1] /\ u[2] = v[2] /\ u[3] < v[3]
    <3>1. /\ 1..(1 - 1) = {} /\ 1..(2 - 1) = {1} /\ 1..(3 - 1) = {1, 2} /\ 1..3 = {1, 2, 3}
      OBVIOUS
    <3> QED  BY ONLY <3>1, Zenon DEF Before
  <2>2. a[1] = p1 /\ a[2] = q1 /\ a[3] = r1 /\ b[1] = p2 /\ b[2] = q2 /\ b[3] = r2
    OBVIOUS
  <2> HIDE DEF a, b
  <2>3. (p1 = p2 <=> p2 = p1) /\ (q1 = q2 <=> q2 = q1)
    OBVIOUS
  <2> QED  BY <2>1, <2>2, <2>3
<1>5. compareVersions(x, y) = IF p1 # p2 THEN (IF p1 < p2 THEN -1 ELSE 1)
                              ELSE IF q1 # q2 THEN (IF q1 < q2 THEN -1 ELSE 1)
                              ELSE IF r1 # r2 THEN (IF r1 < r2 THEN -1 ELSE 1) ELSE 0
  BY <1>2, <1>3 DEF compareVersions
<1>6. /\ compareVersions(x, y) = (IF Before(a, b) THEN -1 ELSE IF Before(b, a) THEN 1 ELSE 0)
      /\ ~(Before(a, b) /\ Before(b, a))
      /\ ~Before(a, b) /\ ~Before(b, a) => p1 = p2 /\ q1 = q2 /\ r1 = r2
  <2> HIDE DEF a, b
  <2> QED  BY <1>4, <1>5
<1> QED  BY <1>2, <1>3, <1>6

\* Whatever the two texts are, they compare the one way as the other, and by
\* the numbers that are read from them, the first that differs deciding
\* (webconfig.h:100).
THEOREM VersionsAreOrdered ==
  ASSUME NEW S, NEW e, e.x \in Seq(S), e.y \in Seq(S),
         e.numbers = <<ParseVersion(WithoutV(e.x)), ParseVersion(WithoutV(e.y))>>
  PROVE  VersionsOrdered(e)
<1> DEFINE x == e.x
           y == e.y
           a == ParseVersion(WithoutV(x))
           b == ParseVersion(WithoutV(y))
<1>1. x \in Seq(S) /\ y \in Seq(S) /\ e.numbers[1] = a /\ e.numbers[2] = b
  OBVIOUS
<1> HIDE DEF x, y
<1>2. /\ compareVersions(x, y) = (IF Before(a, b) THEN -1 ELSE IF Before(b, a) THEN 1 ELSE 0)
      /\ compareVersions(y, x) = (IF Before(b, a) THEN -1 ELSE IF Before(a, b) THEN 1 ELSE 0)
      /\ ~(Before(a, b) /\ Before(b, a))
  BY <1>1, ComparedByNumbers
<1> HIDE DEF a, b
<1>3. /\ compareVersions(x, y) = -compareVersions(y, x)
      /\ (compareVersions(x, y) < 0) = Before(a, b)
  <2>1. Before(a, b) \in BOOLEAN  BY DEF Before
  <2>2. CASE Before(a, b)
    <3>1. compareVersions(x, y) = -1 /\ compareVersions(y, x) = 1
      BY <1>2, <2>2
    <3>2. compareVersions(x, y) < 0 /\ compareVersions(x, y) = -compareVersions(y, x)
      BY ONLY <3>1
    <3> QED  BY <2>1, <2>2, <3>2, Zenon
  <2>3. CASE ~Before(a, b)  BY <1>2, <2>1, <2>3
  <2> QED  BY <2>2, <2>3
<1> QED  BY <1>1, <1>3 DEF VersionsOrdered, x, y

\* A version that is newer than a newer one is newer (webconfig.h:100).
THEOREM NewerIsTransitive ==
  ASSUME NEW S, NEW x \in Seq(S), NEW y \in Seq(S), NEW z \in Seq(S),
         compareVersions(x, y) <= 0, compareVersions(y, z) <= 0
  PROVE  /\ compareVersions(x, z) <= 0
         /\ compareVersions(x, z) = 0 =>
              compareVersions(x, y) = 0 /\ compareVersions(y, z) = 0
<1>1. WithoutV(x) \in Seq(S) /\ WithoutV(y) \in Seq(S) /\ WithoutV(z) \in Seq(S)
  BY DEF WithoutV
<1>2. PICK p1, q1, r1 \in Nat : ParseVersion(WithoutV(x)) = <<p1, q1, r1>>
  BY <1>1, VersionIsRead
<1>3. PICK p2, q2, r2 \in Nat : ParseVersion(WithoutV(y)) = <<p2, q2, r2>>
  BY <1>1, VersionIsRead
<1>4. PICK p3, q3, r3 \in Nat : ParseVersion(WithoutV(z)) = <<p3, q3, r3>>
  BY <1>1, VersionIsRead
<1> DEFINE Sign(p, q) == IF p < q THEN -1 ELSE 1
<1>5. /\ compareVersions(x, y) = (IF p1 # p2 THEN Sign(p1, p2) ELSE IF q1 # q2 THEN Sign(q1, q2)
                                  ELSE IF r1 # r2 THEN Sign(r1, r2) ELSE 0)
      /\ compareVersions(y, z) = (IF p2 # p3 THEN Sign(p2, p3) ELSE IF q2 # q3 THEN Sign(q2, q3)
                                  ELSE IF r2 # r3 THEN Sign(r2, r3) ELSE 0)
      /\ compareVersions(x, z) = (IF p1 # p3 THEN Sign(p1, p3) ELSE IF q1 # q3 THEN Sign(q1, q3)
                                  ELSE IF r1 # r3 THEN Sign(r1, r3) ELSE 0)
  BY <1>2, <1>3, <1>4 DEF compareVersions
<1> QED  BY <1>5

-----------------------------------------------------------------------------
(***************************************************************************)
(* The integers of ArduinoJson: the ends of the types, half of a type's    *)
(* numbers and all of them, are powers of two.                             *)
(***************************************************************************)
Half(b) == Json!PowerOfTwo[b * ByteBits - 1]
Full(b) == Json!PowerOfTwo[b * ByteBits]
EndsInOrder ==
  /\ ByteBits \in Nat
  /\ \A b \in {1, 2, 4, 8} : /\ Half(b) \in Nat /\ Half(b) >= 1
                             /\ Full(b) \in Nat /\ Full(b) = 2 * Half(b)
  /\ Full(1) <= Half(2) /\ Full(2) <= Half(4) /\ Full(4) <= Half(8)
  /\ Json!Byte(3) \in Nat /\ Json!Byte(3) <= Half(1)

Powers(k, last) == CHOOSE g : g = [n \in 0..last |-> IF n = 0 THEN 1 ELSE k * g[n - 1]]

\* The powers of two and of ten are what their recursion says.
LEMMA PowersAre ==
  ASSUME NEW last \in Nat, NEW k \in {2, 10}
  PROVE  LET p == Powers(k, last)
         IN /\ p[0] = 1
            /\ \A n \in 0..last : p[n] \in Nat /\ p[n] >= 1
            /\ \A n \in 0..last : n # 0 => p[n] = k * p[n - 1]
<1> DEFINE p == Powers(k, last)
           D == 0..last
           op == [n \in 1..last |-> [v \in Nat |-> k * v]]
<1>0. last \in Int /\ 0 \in Int /\ k \in Nat
  OBVIOUS
<1>1. PICK f : IsCarried(f, 0, last, Nat, 1, op)
  <2>1. IsCarry(op, 0, last, Nat)
    BY <1>0 DEF IsCarry
  <2>2. 1 \in Nat
    OBVIOUS
  <2> HIDE DEF op
  <2> QED  BY ONLY <1>0, <2>1, <2>2, CarriedExists, Zenon
<1>2. f \in [D -> Nat] /\ \A n \in D : f[n] = IF n = 0 THEN 1 ELSE k * f[n - 1]
  <2>1. f \in [D -> Nat] /\ \A n \in D : f[n] = IF n = 0 THEN 1 ELSE op[n][f[n - 1]]
    BY <1>1 DEF IsCarried
  <2>2. ASSUME NEW n \in D, n # 0 PROVE op[n][f[n - 1]] = k * f[n - 1]
    <3>1. n - 1 \in D /\ n \in 1..last
      BY <1>0, <2>2
    <3> QED  BY <2>1, <3>1
  <2> QED  BY <2>1, <2>2
<1>3. f = [n \in D |-> IF n = 0 THEN 1 ELSE k * f[n - 1]]
  BY <1>2
<1>4. p = [n \in D |-> IF n = 0 THEN 1 ELSE k * p[n - 1]]
  BY <1>3 DEF Powers
<1> HIDE DEF p, op
<1>5. \A n \in D : p[n] = IF n = 0 THEN 1 ELSE k * p[n - 1]
  BY <1>4
<1> DEFINE S == {n \in D : p[n] \in Nat /\ p[n] >= 1}
<1>6. 0 \in S
  BY <1>0, <1>5
<1>7. ASSUME NEW i \in 0..(last - 1), i \in S PROVE i + 1 \in S
  <2>1. i + 1 \in D /\ i + 1 # 0 /\ (i + 1) - 1 = i
    BY <1>0
  <2>2. p[i + 1] = k * p[i]
    BY <1>5, <2>1
  <2>3. k = 2 \/ k = 10
    OBVIOUS
  <2> QED  BY <1>7, <2>1, <2>2, <2>3
<1>8. \A i \in D : i \in S
  <2> HIDE DEF S
  <2> QED  BY ONLY <1>0, <1>6, <1>7, InductionFrom, Zenon
<1>9. /\ p[0] = 1
      /\ \A n \in D : p[n] \in Nat /\ p[n] >= 1
      /\ \A n \in D : n # 0 => p[n] = k * p[n - 1]
  BY <1>5, <1>8
<1> QED  BY <1>9 DEF p

\* PowerOfTwo[] never falls.
LEMMA PowersGrow ==
  ASSUME ByteBits \in Nat
  PROVE  LET p == Json!PowerOfTwo
             D == 0..(8 * ByteBits)
         IN /\ \A n \in D : p[n] \in Nat /\ p[n] >= 1
            /\ \A n \in D : n # 0 => p[n] = 2 * p[n - 1]
            /\ \A i \in D : \A j \in D : i <= j => p[i] <= p[j]
<1> DEFINE last == 8 * ByteBits
           p == Json!PowerOfTwo
           D == 0..last
<1>0. last \in Nat /\ last \in Int /\ 2 \in {2, 10}
  OBVIOUS
<1>1. p = Powers(2, last)
  BY DEF Json!PowerOfTwo, Powers
<1> HIDE DEF last, p
<1>2. /\ \A n \in D : p[n] \in Nat /\ p[n] >= 1
      /\ \A n \in D : n # 0 => p[n] = 2 * p[n - 1]
  BY <1>0, <1>1, PowersAre
<1>3. ASSUME NEW i \in D, NEW j \in D, i <= j PROVE p[i] <= p[j]
  <2> DEFINE S == {k \in D : p[i] <= p[k]}
  <2>1. i \in S
    BY <1>2
  <2>2. ASSUME NEW k \in i..(last - 1), k \in S PROVE k + 1 \in S
    <3>1. k \in D /\ k + 1 \in D /\ k + 1 # 0 /\ (k + 1) - 1 = k
      BY <1>0
    <3>2. p[k + 1] = 2 * p[k]
      BY <1>2, <3>1
    <3> QED  BY <1>2, <2>2, <3>1, <3>2
  <2>3. i \in Int /\ j \in i..last
    BY <1>0, <1>3
  <2> HIDE DEF S
  <2>4. \A k \in i..last : k \in S
    BY ONLY <1>0, <2>1, <2>2, <2>3, InductionFrom, Zenon
  <2> QED  BY <2>3, <2>4 DEF S
<1> QED  BY <1>2, <1>3 DEF p, last

LEMMA EndsAreInOrder == ASSUME ByteBits \in Nat, ByteBits >= 3 PROVE EndsInOrder
<1> DEFINE p == Json!PowerOfTwo
           D == 0..(8 * ByteBits)
<1>1. /\ \A n \in D : p[n] \in Nat /\ p[n] >= 1
      /\ \A n \in D : n # 0 => p[n] = 2 * p[n - 1]
      /\ \A i \in D : \A j \in D : i <= j => p[i] <= p[j]
  BY PowersGrow
<1> HIDE DEF p
<1>2. ASSUME NEW b \in {1, 2, 4, 8}
      PROVE  /\ b * ByteBits \in D /\ b * ByteBits - 1 \in D /\ b * ByteBits # 0
  <2>1. b = 1 \/ b = 2 \/ b = 4 \/ b = 8
    OBVIOUS
  <2> QED  BY <2>1
<1>3. /\ 1 * ByteBits <= 2 * ByteBits - 1 /\ 2 * ByteBits <= 4 * ByteBits - 1
      /\ 4 * ByteBits <= 8 * ByteBits - 1
      /\ ByteBits - 3 \in D /\ ByteBits - 3 <= 1 * ByteBits - 1
  OBVIOUS
<1>4. 1 \in {1, 2, 4, 8} /\ 2 \in {1, 2, 4, 8} /\ 4 \in {1, 2, 4, 8} /\ 8 \in {1, 2, 4, 8}
  OBVIOUS
<1>5. \A b \in {1, 2, 4, 8} : /\ Half(b) \in Nat /\ Half(b) >= 1
                              /\ Full(b) \in Nat /\ Full(b) = 2 * Half(b)
  BY <1>1, <1>2 DEF Half, Full, p
<1>6. Full(1) <= Half(2) /\ Full(2) <= Half(4) /\ Full(4) <= Half(8)
  BY <1>1, <1>2, <1>3, <1>4 DEF Half, Full, p
<1>7. Json!Byte(3) \in Nat /\ Json!Byte(3) <= Half(1)
  BY <1>1, <1>2, <1>3, <1>4 DEF Half, Json!Byte, p
<1> QED  BY <1>5, <1>6, <1>7 DEF EndsInOrder

LEMMA Ends ==
  ASSUME NEW b
  PROVE  /\ Json!lowest(Json!Type(TRUE, b)) = -Half(b)
         /\ Json!lowest(Json!Type(FALSE, b)) = 0
         /\ Json!highest(Json!Type(TRUE, b)) = Half(b) - 1
         /\ Json!highest(Json!Type(FALSE, b)) = Full(b) - 1
BY DEF Json!lowest, Json!highest, Json!Type, Json!Bits, Half, Full

LEMMA TypesAre ==
  ASSUME NEW t \in Json!Types
  PROVE  /\ t = Json!Type(t.signed, t.bytes) /\ t.signed \in BOOLEAN
         /\ t.bytes = 1 \/ t.bytes = 2 \/ t.bytes = 4 \/ t.bytes = 8
BY DEF Json!Types, Json!Type

LEMMA EndsOfType ==
  ASSUME NEW t \in Json!Types
  PROVE  /\ Json!lowest(t) = (IF t.signed THEN -Half(t.bytes) ELSE 0)
         /\ Json!highest(t) = (IF t.signed THEN Half(t.bytes) - 1 ELSE Full(t.bytes) - 1)
BY DEF Json!lowest, Json!highest, Json!Bits, Half, Full

\* canConvertNumber() says whether the type that is asked for holds the number.
LEMMA ConvertibleWhenHeld ==
  ASSUME EndsInOrder, NEW out \in Json!Types, NEW in \in Json!Types,
         NEW n \in Int, Json!Holds(in, n)
  PROVE  Json!canConvertNumber(out, in, n) <=> Json!Holds(out, n)
<1> DEFINE a == out.bytes
           b == in.bytes
<1>1. /\ Half(1) \in Nat /\ Half(2) \in Nat /\ Half(4) \in Nat /\ Half(8) \in Nat
      /\ Half(1) >= 1 /\ Full(1) = 2 * Half(1) /\ Full(2) = 2 * Half(2)
      /\ Full(4) = 2 * Half(4) /\ Full(8) = 2 * Half(8)
      /\ Full(1) <= Half(2) /\ Full(2) <= Half(4) /\ Full(4) <= Half(8)
  BY DEF EndsInOrder
<1>2. /\ a = 1 \/ a = 2 \/ a = 4 \/ a = 8
      /\ b = 1 \/ b = 2 \/ b = 4 \/ b = 8
      /\ out.signed \in BOOLEAN /\ in.signed \in BOOLEAN
  BY TypesAre
<1>3. Json!Holds(out, n) <=> /\ n >= IF out.signed THEN -Half(a) ELSE 0
                             /\ n <= IF out.signed THEN Half(a) - 1 ELSE Full(a) - 1
  <2>1. Half(a) \in Nat /\ Full(a) \in Nat  BY <1>1, <1>2
  <2> QED  BY <2>1, <1>2, EndsOfType DEF Json!Holds
<1>4. /\ n >= IF in.signed THEN -Half(b) ELSE 0
      /\ n <= IF in.signed THEN Half(b) - 1 ELSE Full(b) - 1
  <2>1. Half(b) \in Nat /\ Full(b) \in Nat  BY <1>1, <1>2
  <2> QED  BY <2>1, <1>2, EndsOfType DEF Json!Holds
<1>5. /\ Json!highest(out) = IF out.signed THEN Half(a) - 1 ELSE Full(a) - 1
      /\ Json!lowest(out) = IF out.signed THEN -Half(a) ELSE 0
  BY EndsOfType
<1>6. CASE ~in.signed
  <2>1. Json!canConvertNumber(out, in, n) <=> IF a <= b THEN n <= Json!highest(out) ELSE TRUE
    BY <1>2, <1>6 DEF Json!canConvertNumber
  <2> HIDE DEF a, b
  <2> QED  BY <1>1, <1>2, <1>3, <1>4, <1>5, <1>6, <2>1
<1>7. CASE in.signed /\ out.signed
  <2>1. Json!canConvertNumber(out, in, n) <=>
          IF a < b THEN n >= Json!lowest(out) /\ n <= Json!highest(out) ELSE TRUE
    BY <1>2, <1>7 DEF Json!canConvertNumber
  <2> HIDE DEF a, b
  <2> QED  BY <1>1, <1>2, <1>3, <1>4, <1>5, <1>7, <2>1
<1>8. CASE in.signed /\ ~out.signed
  <2>1. Json!canConvertNumber(out, in, n) <=>
          n >= 0 /\ (a < b => n <= Json!highest(out))
    BY <1>2, <1>8 DEF Json!canConvertNumber
  <2> HIDE DEF a, b
  <2> QED  BY <1>1, <1>2, <1>3, <1>4, <1>5, <1>8, <2>1
<1> QED  BY <1>2, <1>6, <1>7, <1>8

LEMMA StoredTypeHolds ==
  ASSUME EndsInOrder, NEW t \in Json!Types, NEW n \in Int, Json!Holds(t, n)
  PROVE  LET v == Json!setInteger(t, n)
         IN v.type \in Json!Types /\ v.type.signed = t.signed /\ v.value = n /\ Json!Holds(v.type, n)
<1> DEFINE small == Json!Type(t.signed, 4)
           large == Json!Type(t.signed, 8)
           v == Json!setInteger(t, n)
<1>1. small \in Json!Types /\ large \in Json!Types /\ small.signed = t.signed /\ large.signed = t.signed
  BY TypesAre DEF Json!Types, Json!Type
<1>2. v.value = n /\ v.type = IF Json!canConvertNumber(small, t, n) THEN small ELSE large
  BY DEF Json!setInteger, Json!Stored
<1>3. Json!canConvertNumber(small, t, n) <=> Json!Holds(small, n)
  BY <1>1, ConvertibleWhenHeld
<1>4. Json!Holds(large, n)
  <2>1. Json!canConvertNumber(large, t, n)
    <3>1. large.bytes = 8 /\ large.signed = t.signed  BY DEF Json!Type
    <3>2. t.bytes = 1 \/ t.bytes = 2 \/ t.bytes = 4 \/ t.bytes = 8  BY TypesAre
    <3>3. t.signed \in BOOLEAN  BY TypesAre
    <3>4. CASE t.bytes # 8
      <4>1. t.bytes <= large.bytes /\ t.bytes < large.bytes  BY <3>1, <3>2, <3>4
      <4> HIDE DEF large
      <4> QED  BY <3>1, <3>3, <4>1 DEF Json!canConvertNumber
    <3>5. CASE t.bytes = 8
      <4>1. t = large  BY <3>5, TypesAre
      <4>2. n <= Json!highest(large)
        <5>1. n \in Json!lowest(large)..Json!highest(large)
          BY <4>1 DEF Json!Holds
        <5> HIDE DEF large
        <5> QED  BY <5>1
      <4>3. large.bytes <= t.bytes /\ t.bytes <= large.bytes  BY <3>1, <3>5
      <4> HIDE DEF large
      <4> QED  BY <3>1, <3>3, <4>2, <4>3 DEF Json!canConvertNumber
    <3> QED  BY <3>4, <3>5
  <2> QED  BY <1>1, <2>1, ConvertibleWhenHeld
<1> HIDE DEF small, large, v
<1>5. v.type \in Json!Types /\ v.type.signed = t.signed /\ v.value = n /\ Json!Holds(v.type, n)
  BY <1>1, <1>2, <1>3, <1>4
<1> QED  BY <1>5 DEF v

\* Every integer of every type is stored in a type that holds it, and whatever
\* type the program asks for, it gets the number when that type holds it and
\* zero, or the default it names, when not (convertNumber.hpp, VariantData.hpp).
THEOREM IntegersAreRead ==
  ASSUME ByteBits \in Nat, ByteBits >= 3,
         NEW e, e.type \in Json!Types, e.value \in Int, Json!Holds(e.type, e.value)
  PROVE  Json!ReadByEveryType(e)
<1> DEFINE n == e.value
           v == Json!setInteger(e.type, n)
<1>0. EndsInOrder
  BY EndsAreInOrder
<1>1. v.type \in Json!Types /\ v.value = n /\ Json!Holds(v.type, n) /\ n \in Int
  BY <1>0, StoredTypeHolds
<1> HIDE DEF v, n
<1>2. ASSUME NEW out \in Json!Types
      PROVE  /\ Json!isInteger(out, v) <=> Json!Holds(out, n)
             /\ Json!OrElse(out, v, 1) = IF Json!Holds(out, n) THEN n ELSE 1
             /\ Json!asIntegral(out, v) = IF Json!Holds(out, n) THEN n ELSE 0
  <2>1. Json!canConvertNumber(out, v.type, n) <=> Json!Holds(out, n)
    BY <1>0, <1>1, ConvertibleWhenHeld
  <2>2. Json!isInteger(out, v) <=> Json!canConvertNumber(out, v.type, n)
    BY <1>1 DEF Json!isInteger
  <2>3. Json!asIntegral(out, v) = IF Json!canConvertNumber(out, v.type, n) THEN n ELSE 0
    BY <1>1 DEF Json!asIntegral, Json!convertNumber
  <2>4. Json!OrElse(out, v, 1) = IF Json!isInteger(out, v) THEN Json!asIntegral(out, v) ELSE 1
    BY DEF Json!OrElse
  <2>5. CASE Json!Holds(out, n)
    BY ONLY <2>1, <2>2, <2>3, <2>4, <2>5
  <2>6. CASE ~Json!Holds(out, n)
    BY ONLY <2>1, <2>2, <2>3, <2>4, <2>6
  <2> QED  BY <2>5, <2>6
<1>3. Json!asBoolean(v) <=> n # 0
  BY <1>1 DEF Json!asBoolean
<1> QED  BY <1>1, <1>2, <1>3 DEF Json!ReadByEveryType, v, n

-----------------------------------------------------------------------------
LEMMA Remainder ==
  ASSUME NEW m \in Nat, m >= 1, NEW n \in Int, -m <= n, n < m
  PROVE  n % m = IF n >= 0 THEN n ELSE n + m
<1>1. CASE n >= 0  BY <1>1
<1>2. CASE n < 0  BY <1>2
<1> QED  BY <1>1, <1>2

\* Packed() keeps a number modulo its bytes, SignExtended() gets it back.
LEMMA RawComesBack ==
  ASSUME EndsInOrder, NEW b \in {1, 2, 4, 8}, NEW n \in Int, NEW code
  PROVE  LET raw == Json!Packed(code, b, n).raw
         IN /\ n \in -Half(b)..(Half(b) - 1) => Json!SignExtended(b, raw) = n
            /\ n \in 0..(Full(b) - 1) => raw = n
            /\ n \in -Half(b)..-1 => raw = n + Full(b)
            /\ Json!Packed(code, b, n).code = code /\ Json!Packed(code, b, n).bytes = b
<1> DEFINE p == Json!Packed(code, b, n)
<1>1. p.raw = n % Full(b) /\ p.code = code /\ p.bytes = b
  BY DEF Json!Packed, Full
<1>2. Full(b) \in Nat /\ Half(b) \in Nat /\ Half(b) >= 1 /\ Full(b) = 2 * Half(b)
  BY DEF EndsInOrder
<1> HIDE DEF p
<1>3. n \in 0..(Full(b) - 1) => p.raw = n
  <2> SUFFICES ASSUME n \in 0..(Full(b) - 1) PROVE p.raw = n
    OBVIOUS
  <2>1. Full(b) \in Nat /\ Full(b) >= 1 /\ -Full(b) <= n /\ n < Full(b) /\ n >= 0
    BY <1>2
  <2> QED  BY ONLY <1>1, <2>1, n \in Int, Remainder
<1>4. n \in -Half(b)..-1 => p.raw = n + Full(b)
  <2> SUFFICES ASSUME n \in -Half(b)..-1 PROVE p.raw = n + Full(b)
    OBVIOUS
  <2>1. Full(b) \in Nat /\ Full(b) >= 1 /\ -Full(b) <= n /\ n < Full(b) /\ ~(n >= 0)
    BY <1>2
  <2> QED  BY ONLY <1>1, <2>1, n \in Int, Remainder
<1>5. Json!SignExtended(b, p.raw) = IF p.raw > Half(b) - 1 THEN p.raw - Full(b) ELSE p.raw
  BY Ends DEF Json!SignExtended, Full
<1>6. ASSUME n \in -Half(b)..(Half(b) - 1) PROVE Json!SignExtended(b, p.raw) = n
  <2>1. CASE n >= 0
    <3>1. n \in 0..(Full(b) - 1)  BY <1>2, <1>6, <2>1
    <3>2. p.raw = n /\ ~(p.raw > Half(b) - 1)  BY <1>2, <1>3, <1>6, <3>1
    <3> QED  BY <1>5, <3>2
  <2>2. CASE n < 0
    <3>1. n \in -Half(b)..-1  BY <1>2, <1>6, <2>2
    <3>2. p.raw = n + Full(b) /\ p.raw > Half(b) - 1 /\ p.raw - Full(b) = n  BY <1>2, <1>4, <3>1
    <3> QED  BY <1>5, <3>2
  <2> QED  BY <1>2, <1>6, <2>1, <2>2
<1>7. /\ n \in -Half(b)..(Half(b) - 1) => Json!SignExtended(b, p.raw) = n
      /\ n \in 0..(Full(b) - 1) => p.raw = n
      /\ n \in -Half(b)..-1 => p.raw = n + Full(b)
      /\ p.code = code /\ p.bytes = b
  BY <1>1, <1>3, <1>4, <1>6
<1> QED  BY <1>7 DEF p

LEMMA SetKeepsValue == ASSUME NEW t, NEW n PROVE Json!setInteger(t, n).value = n
BY DEF Json!setInteger, Json!Stored

\* There is a smallest size that is large enough.
LEMMA SmallestSize ==
  ASSUME NEW S, 8 \in S
  PROVE  \E b \in {1, 2, 4, 8} : b \in S /\ \A c \in {1, 2, 4, 8} : c \in S => b <= c
<1>1. CASE 1 \in S  BY <1>1
<1>2. CASE 1 \notin S /\ 2 \in S  BY <1>2
<1>3. CASE 1 \notin S /\ 2 \notin S /\ 4 \in S  BY <1>3
<1>4. CASE 1 \notin S /\ 2 \notin S /\ 4 \notin S  BY <1>4
<1> QED  BY <1>1, <1>2, <1>3, <1>4

\* A packed number is read again.
ComesBack(p, n) == /\ Json!unpackInteger(p).value = n
                   /\ p.code = "fixint" => Json!IsFixint(p.raw)

LEMMA FixintComesBack ==
  ASSUME EndsInOrder, NEW n \in Int, -Json!Byte(3) <= n, n <= Half(1) - 1
  PROVE  ComesBack(Json!Packed("fixint", 1, n), n)
<1> DEFINE p == Json!Packed("fixint", 1, n)
<1>1. /\ Half(1) \in Nat /\ Half(1) >= 1 /\ Full(1) = 2 * Half(1) /\ Full(1) \in Nat
      /\ Json!Byte(3) \in Nat /\ Json!Byte(3) <= Half(1) /\ Full(1) = Json!PowerOfTwo[ByteBits]
  <2>1. 1 * ByteBits = ByteBits  BY DEF EndsInOrder
  <2> QED  BY <2>1 DEF EndsInOrder, Full
<1>2. n \in -Half(1)..(Half(1) - 1) /\ (n >= 0 => n \in 0..(Full(1) - 1)) /\ (n < 0 => n \in -Half(1)..-1)
  BY <1>1
<1>3. /\ p.code = "fixint" /\ Json!SignExtended(1, p.raw) = n
      /\ n >= 0 => p.raw = n
      /\ n < 0 => p.raw = n + Full(1)
  <2>1. 1 \in {1, 2, 4, 8}  OBVIOUS
  <2> QED  BY <1>2, <2>1, RawComesBack
<1>4. Json!IsFixint(p.raw) <=> p.raw <= Half(1) - 1 \/ p.raw >= Full(1) - Json!Byte(3)
  BY <1>1, Ends DEF Json!IsFixint
<1> HIDE DEF p
<1>5. Json!IsFixint(p.raw)
  BY <1>1, <1>3, <1>4
<1>6. Json!unpackInteger(p) = Json!setInteger(Json!Type(TRUE, 1), Json!SignExtended(1, p.raw))
  BY <1>3 DEF Json!unpackInteger
<1>7. Json!unpackInteger(p).value = n
  BY <1>3, <1>6, SetKeepsValue
<1> QED  BY <1>5, <1>7 DEF ComesBack, p

LEMMA UnsignedComesBack ==
  ASSUME EndsInOrder, NEW n \in Int, n >= 0, n < Full(8)
  PROVE  ComesBack(Json!packUnsigned(n), n)
<1>1. /\ Json!highest(Json!Type(TRUE, 1)) = Half(1) - 1 /\ Half(1) \in Nat
      /\ Json!Byte(3) \in Nat
      /\ \A b : Json!highest(Json!Type(FALSE, b)) = Full(b) - 1
  BY Ends DEF EndsInOrder
<1>2. CASE n <= Half(1) - 1
  <2>1. Json!packUnsigned(n) = Json!Packed("fixint", 1, n)
    BY <1>1, <1>2 DEF Json!packUnsigned
  <2>2. -Json!Byte(3) <= n  BY <1>1
  <2> QED  BY <1>2, <2>1, <2>2, FixintComesBack
<1>3. CASE ~(n <= Half(1) - 1)
  <2> DEFINE bytes == CHOOSE b \in {1, 2, 4, 8} :
                      /\ n <= Json!highest(Json!Type(FALSE, b))
                      /\ \A c \in {1, 2, 4, 8} : n <= Json!highest(Json!Type(FALSE, c)) => b <= c
             S == {b \in {1, 2, 4, 8} : n <= Json!highest(Json!Type(FALSE, b))}
             p == Json!Packed("uint", bytes, n)
  <2>1. 8 \in S
    <3>1. Full(8) \in Nat  BY DEF EndsInOrder
    <3>2. Json!highest(Json!Type(FALSE, 8)) = Full(8) - 1  BY Ends
    <3>3. n <= Full(8) - 1  BY <3>1
    <3> QED  BY <3>2, <3>3
  <2>2. \E b \in {1, 2, 4, 8} : b \in S /\ \A c \in {1, 2, 4, 8} : c \in S => b <= c
    <3> HIDE DEF S
    <3> QED  BY <2>1, SmallestSize
  <2>3. bytes \in {1, 2, 4, 8} /\ n <= Json!highest(Json!Type(FALSE, bytes))
    BY <2>2
  <2>4. Json!packUnsigned(n) = p
    BY <1>1, <1>3 DEF Json!packUnsigned
  <2> HIDE DEF bytes
  <2>5. n \in 0..(Full(bytes) - 1)
    <3>1. Full(bytes) \in Nat  BY <2>3 DEF EndsInOrder
    <3>2. Json!highest(Json!Type(FALSE, bytes)) = Full(bytes) - 1  BY Ends
    <3>3. n <= Full(bytes) - 1  BY ONLY <2>3, <3>2
    <3> QED  BY <3>1, <3>3
  <2>6. p.raw = n /\ p.code = "uint"
    BY <2>3, <2>5, RawComesBack
  <2> HIDE DEF p
  <2>7. Json!unpackInteger(p) = Json!setInteger(Json!JsonUInt, p.raw)
    BY <2>6 DEF Json!unpackInteger
  <2> QED  BY <2>4, <2>6, <2>7, SetKeepsValue DEF ComesBack
<1> QED  BY <1>2, <1>3

LEMMA SignedComesBack ==
  ASSUME EndsInOrder, NEW n \in Int, -Half(8) <= n, n < Half(8)
  PROVE  ComesBack(Json!packSigned(n), n)
<1>1. /\ Half(1) \in Nat /\ Half(1) >= 1 /\ Half(8) \in Nat /\ Full(8) = 2 * Half(8)
      /\ Json!Byte(3) \in Nat
      /\ \A b : Json!lowest(Json!Type(TRUE, b)) = -Half(b)
  BY Ends DEF EndsInOrder
<1>2. CASE n > 0
  <2>1. Json!packSigned(n) = Json!packUnsigned(n)
    BY <1>2 DEF Json!packSigned
  <2>2. n >= 0 /\ n < Full(8)  BY <1>1, <1>2
  <2> QED  BY <2>1, <2>2, UnsignedComesBack
<1>3. CASE ~(n > 0) /\ n >= -Json!Byte(3)
  <2>1. Json!packSigned(n) = Json!Packed("fixint", 1, n)
    BY <1>3 DEF Json!packSigned
  <2>2. -Json!Byte(3) <= n /\ n <= Half(1) - 1  BY <1>1, <1>3
  <2> QED  BY <2>1, <2>2, FixintComesBack
<1>4. CASE ~(n > 0) /\ ~(n >= -Json!Byte(3))
  <2> DEFINE bytes == CHOOSE b \in {1, 2, 4, 8} :
                      /\ n >= Json!lowest(Json!Type(TRUE, b))
                      /\ \A c \in {1, 2, 4, 8} : n >= Json!lowest(Json!Type(TRUE, c)) => b <= c
             S == {b \in {1, 2, 4, 8} : n >= Json!lowest(Json!Type(TRUE, b))}
             p == Json!Packed("int", bytes, n)
  <2>1. 8 \in S
    BY <1>1
  <2>2. \E b \in {1, 2, 4, 8} : b \in S /\ \A c \in {1, 2, 4, 8} : c \in S => b <= c
    <3> HIDE DEF S
    <3> QED  BY <2>1, SmallestSize
  <2>3. bytes \in {1, 2, 4, 8} /\ n >= Json!lowest(Json!Type(TRUE, bytes))
    BY <2>2
  <2>4. Json!packSigned(n) = p
    BY <1>4 DEF Json!packSigned
  <2> HIDE DEF bytes
  <2>5. n \in -Half(bytes)..(Half(bytes) - 1)
    <3>1. Half(bytes) \in Nat /\ Half(bytes) >= 1  BY <2>3 DEF EndsInOrder
    <3>2. Json!lowest(Json!Type(TRUE, bytes)) = -Half(bytes)  BY Ends
    <3>3. n < 0  BY <1>1, <1>4
    <3>4. n >= -Half(bytes)  BY ONLY <2>3, <3>2
    <3> QED  BY <3>1, <3>3, <3>4
  <2>6. Json!SignExtended(bytes, p.raw) = n /\ p.code = "int" /\ p.bytes = bytes
    BY <2>3, <2>5, RawComesBack
  <2> HIDE DEF p
  <2>7. Json!unpackInteger(p) = Json!setInteger(Json!JsonInteger, Json!SignExtended(p.bytes, p.raw))
    BY <2>6 DEF Json!unpackInteger
  <2> QED  BY <2>4, <2>6, <2>7, SetKeepsValue DEF ComesBack
<1> QED  BY <1>2, <1>3, <1>4

\* Every integer of every type comes back from its MessagePack form, whose code
\* is a fixint only when its byte is one (MsgPackSerializer.hpp, MsgPackDeserializer.hpp).
THEOREM IntegersComeBack ==
  ASSUME ByteBits \in Nat, ByteBits >= 3,
         NEW e, e.type \in Json!Types, e.value \in Int, Json!Holds(e.type, e.value)
  PROVE  Json!PackedAndRead(e)
<1> DEFINE n == e.value
           v == Json!setInteger(e.type, n)
           p == Json!packInteger(v)
<1>0. EndsInOrder
  BY EndsAreInOrder
<1>1. v.type \in Json!Types /\ v.value = n /\ Json!Holds(v.type, n) /\ n \in Int
  BY <1>0, StoredTypeHolds
<1> HIDE DEF v, n
<1>2. v.type.bytes \in {1, 2, 4, 8} /\ v.type.signed \in BOOLEAN
  BY <1>1, TypesAre
<1>3. /\ Half(1) \in Nat /\ Half(2) \in Nat /\ Half(4) \in Nat /\ Half(8) \in Nat
      /\ Half(1) >= 1 /\ Full(1) = 2 * Half(1) /\ Full(2) = 2 * Half(2)
      /\ Full(4) = 2 * Half(4) /\ Full(8) = 2 * Half(8)
      /\ Full(1) <= Half(2) /\ Full(2) <= Half(4) /\ Full(4) <= Half(8)
  BY <1>0 DEF EndsInOrder
<1>4. ComesBack(p, n)
  <2>1. CASE v.type.signed
    <3>1. n \in -Half(v.type.bytes)..(Half(v.type.bytes) - 1)
      BY <1>1, <2>1, EndsOfType DEF Json!Holds
    <3>2. -Half(8) <= n /\ n < Half(8)
      BY <1>2, <1>3, <3>1
    <3>3. p = Json!packSigned(n)
      BY <1>1, <2>1 DEF Json!packInteger
    <3> QED  BY <1>1, <3>2, <3>3, <1>0, SignedComesBack
  <2>2. CASE ~v.type.signed
    <3>1. n \in 0..(Full(v.type.bytes) - 1)
      BY <1>1, <2>2, EndsOfType DEF Json!Holds
    <3>2. n >= 0 /\ n < Full(8)
      BY <1>2, <1>3, <3>1
    <3>3. p = Json!packUnsigned(n)
      BY <1>1, <2>2 DEF Json!packInteger
    <3> QED  BY <1>1, <3>2, <3>3, <1>0, UnsignedComesBack
  <2> QED  BY <2>1, <2>2
<1> QED  BY <1>4 DEF Json!PackedAndRead, ComesBack, v, n

-----------------------------------------------------------------------------
(***************************************************************************)
(* How integers are compared.                                              *)
(***************************************************************************)
\* A cast to a type that holds the number changes nothing.
LEMMA CastKeeps ==
  ASSUME EndsInOrder, NEW t \in Json!Types, NEW n \in Int, Json!Holds(t, n)
  PROVE  Json!Cast(t, n) = n
<1> DEFINE b == t.bytes
<1>1. b \in {1, 2, 4, 8} /\ t.signed \in BOOLEAN
  BY TypesAre
<1>2. Half(b) \in Nat /\ Half(b) >= 1 /\ Full(b) \in Nat /\ Full(b) = 2 * Half(b)
  BY <1>1 DEF EndsInOrder
<1>3. Json!Cast(t, n) = IF t.signed THEN Json!SignExtended(b, Json!Packed("int", b, n).raw)
                        ELSE Json!Packed("int", b, n).raw
  BY DEF Json!Cast, Json!Packed, Json!Bits
<1>4. n \in (IF t.signed THEN -Half(b)..(Half(b) - 1) ELSE 0..(Full(b) - 1))
  BY EndsOfType DEF Json!Holds
<1> HIDE DEF b
<1>5. /\ n \in -Half(b)..(Half(b) - 1) => Json!SignExtended(b, Json!Packed("int", b, n).raw) = n
      /\ n \in 0..(Full(b) - 1) => Json!Packed("int", b, n).raw = n
  BY <1>1, RawComesBack
<1>6. CASE t.signed
  BY ONLY <1>3, <1>4, <1>5, <1>6
<1>7. CASE ~t.signed
  BY ONLY <1>3, <1>4, <1>5, <1>7
<1> QED  BY <1>6, <1>7

\* A type holds what a type that is not larger holds, but a negative number only
\* when it is signed, and a number above its half only when it is not or larger.
LEMMA LargerHolds ==
  ASSUME EndsInOrder, NEW s \in Json!Types, NEW t \in Json!Types, NEW n \in Int, Json!Holds(s, n),
         \/ s.bytes < t.bytes /\ (t.signed \/ n >= 0)
         \/ s.bytes = t.bytes /\ ~t.signed /\ n >= 0
  PROVE  Json!Holds(t, n)
<1>1. s.signed \in BOOLEAN /\ t.signed \in BOOLEAN
  BY TypesAre
<1>2. \/ s.bytes = 1 \/ s.bytes = 2 \/ s.bytes = 4 \/ s.bytes = 8
  BY TypesAre
<1>3. \/ t.bytes = 1 \/ t.bytes = 2 \/ t.bytes = 4 \/ t.bytes = 8
  BY TypesAre
<1>4. ~(t.bytes < s.bytes) /\ (~s.signed => n >= 0)
  <2>1. ~s.signed => n \in 0..(Full(s.bytes) - 1)
    BY <1>1, EndsOfType DEF Json!Holds
  <2> QED  BY <1>2, <1>3, <2>1
<1>5. s.bytes < t.bytes \/ (s.bytes = t.bytes /\ ~t.signed)
  OBVIOUS
<1>6. n >= 0 \/ t.signed
  OBVIOUS
<1>7. Json!canConvertNumber(t, s, n)
  <2>1. CASE ~s.signed /\ s.bytes < t.bytes
    BY <2>1 DEF Json!canConvertNumber
  <2>2. CASE ~s.signed /\ s.bytes = t.bytes
    <3>1. s = t
      <4>1. ~t.signed
        BY <1>2, <1>5, <2>2
      <4>2. s.signed = t.signed
        BY <1>1, <2>2, <4>1
      <4>3. s = Json!Type(s.signed, s.bytes) /\ t = Json!Type(t.signed, t.bytes)
        BY TypesAre
      <4> QED  BY ONLY <2>2, <4>2, <4>3
    <3>2. n <= Json!highest(t)
      <4>1. Json!Holds(t, n)
        BY <3>1
      <4>2. Json!highest(t) \in Int /\ Json!lowest(t) \in Int
        <5>1. Half(t.bytes) \in Nat /\ Full(t.bytes) \in Nat
          BY <1>3 DEF EndsInOrder
        <5> QED  BY <1>1, <5>1, EndsOfType
      <4> QED  BY ONLY <4>1, <4>2, n \in Int DEF Json!Holds
    <3>3. t.bytes <= s.bytes
      BY <1>2, <2>2
    <3> QED  BY <2>2, <3>2, <3>3 DEF Json!canConvertNumber
  <2>3. CASE s.signed /\ t.signed
    <3>1. s.bytes <= t.bytes
      BY <1>2, <1>3, <1>4
    <3> QED  BY <2>3, <3>1 DEF Json!canConvertNumber
  <2>4. CASE s.signed /\ ~t.signed
    <3>1. t.bytes >= s.bytes /\ n >= 0
      BY <1>2, <1>3, <1>4, <1>6, <2>4
    <3> QED  BY <2>4, <3>1 DEF Json!canConvertNumber
  <2> QED  BY <1>1, <1>5, <2>1, <2>2, <2>3, <2>4
<1> QED  BY <1>7, ConvertibleWhenHeld

\* An integer of the program and one of the document, which is visited as one of
\* the two types of eight bytes, are compared by their values, but for the one
\* pair that OrderKept leaves out (arithmeticCompare.hpp).
THEOREM OrdersAreKept ==
  ASSUME ByteBits \in Nat, ByteBits >= 3, NEW e,
         e.type \in Json!Types, e.first \in Int, Json!Holds(e.type, e.first), e.type.bytes = 8,
         e.other \in Json!Types, e.second \in Int, Json!Holds(e.other, e.second)
  PROVE  Json!OrderKept(e)
<1> DEFINE s == e.type
           t == e.other
           a == e.first
           b == e.second
<1>0. EndsInOrder
  BY EndsAreInOrder
<1> SUFFICES ASSUME ~(~s.signed /\ t.signed /\ b < 0 /\ t.bytes < s.bytes)
             PROVE  Json!arithmeticCompare(s, a, t, b) = Json!Ordered(a, b)
  BY DEF Json!OrderKept
<1>1. /\ s \in Json!Types /\ t \in Json!Types /\ a \in Int /\ b \in Int
      /\ Json!Holds(s, a) /\ Json!Holds(t, b) /\ s.bytes = 8
  OBVIOUS
<1> HIDE DEF s, t, a, b
<1>2. /\ s.signed \in BOOLEAN /\ t.signed \in BOOLEAN
      /\ t.bytes = 1 \/ t.bytes = 2 \/ t.bytes = 4 \/ t.bytes = 8
  BY <1>1, TypesAre
<1>3. ~(s.bytes < t.bytes) /\ (t.bytes < s.bytes \/ t.bytes = s.bytes) /\ ~(t.bytes < s.bytes /\ t.bytes = s.bytes)
  BY <1>1, <1>2
<1>4. CASE t.bytes < s.bytes
  <2>1. s.signed \/ b >= 0
    <3>1. ~t.signed => b >= 0
      <4>1. ~t.signed => b \in 0..(Full(t.bytes) - 1)
        BY <1>1, EndsOfType DEF Json!Holds
      <4> QED  BY <4>1
    <3> QED  BY <1>1, <1>2, <1>4, <3>1
  <2>2. Json!Holds(s, b)
    BY <1>0, <1>1, <1>4, <2>1, LargerHolds
  <2>3. Json!Cast(s, b) = b
    BY <1>0, <1>1, <2>2, CastKeeps
  <2> QED  BY <1>3, <1>4, <2>3 DEF Json!arithmeticCompare
<1>5. CASE t.bytes = s.bytes /\ s.signed = t.signed
  BY <1>3, <1>5 DEF Json!arithmeticCompare
<1>6. CASE t.bytes = s.bytes /\ ~s.signed /\ t.signed
  <2>1. Json!arithmeticCompare(s, a, t, b) = IF b < 0 THEN "Greater" ELSE Json!Ordered(a, Json!Cast(s, b))
    BY <1>1, <1>3, <1>6 DEF Json!arithmeticCompare
  <2>2. CASE b < 0
    <3>1. a >= 0
      <4>1. a \in 0..(Full(s.bytes) - 1)
        BY <1>1, <1>6, EndsOfType DEF Json!Holds
      <4> QED  BY <4>1
    <3>2. Json!Ordered(a, b) = "Greater"
      BY <1>1, <2>2, <3>1 DEF Json!Ordered
    <3> QED  BY <2>1, <2>2, <3>2
  <2>3. CASE ~(b < 0)
    <3>1. b >= 0  BY <1>1, <2>3
    <3>2. Json!Holds(s, b)
      BY <1>0, <1>1, <1>6, <3>1, LargerHolds
    <3>3. Json!Cast(s, b) = b
      BY <1>0, <1>1, <3>2, CastKeeps
    <3> QED  BY <2>1, <2>3, <3>3
  <2> QED  BY <2>2, <2>3
<1>7. CASE t.bytes = s.bytes /\ s.signed /\ ~t.signed
  <2>1. Json!arithmeticCompare(s, a, t, b) = IF a < 0 THEN "Less" ELSE Json!Ordered(Json!Cast(t, a), b)
    BY <1>1, <1>3, <1>7 DEF Json!arithmeticCompare
  <2>2. CASE a < 0
    <3>1. b >= 0
      <4>1. b \in 0..(Full(t.bytes) - 1)
        BY <1>1, <1>7, EndsOfType DEF Json!Holds
      <4> QED  BY <4>1
    <3>2. Json!Ordered(a, b) = "Less"
      BY <1>1, <2>2, <3>1 DEF Json!Ordered
    <3> QED  BY <2>1, <2>2, <3>2
  <2>3. CASE ~(a < 0)
    <3>1. a >= 0  BY <1>1, <2>3
    <3>2. Json!Holds(t, a)
      BY <1>0, <1>1, <1>7, <3>1, LargerHolds
    <3>3. Json!Cast(t, a) = a
      BY <1>0, <1>1, <3>2, CastKeeps
    <3> QED  BY <2>1, <2>3, <3>3
  <2> QED  BY <2>2, <2>3
<1>8. Json!arithmeticCompare(s, a, t, b) = Json!Ordered(a, b)
  BY <1>2, <1>3, <1>4, <1>5, <1>6, <1>7
<1> QED  BY <1>8 DEF s, t, a, b

-----------------------------------------------------------------------------
(***************************************************************************)
(* Integers as texts.  The digits that are written are the quotients by    *)
(* the powers of ten; what has been read of them is such a quotient too.   *)
(***************************************************************************)
LEMMA QuotientIs ==
  ASSUME NEW a \in Nat, NEW n \in Nat, n >= 1, NEW q \in Nat, q * n <= a, a < (q + 1) * n
  PROVE  a \div n = q
<1> DEFINE d == a \div n
           r == a % n
<1>1. d \in Int /\ r \in Nat /\ r < n /\ a = n * d + r
  OBVIOUS
<1> HIDE DEF d, r
<1>2. d * n <= a /\ a < (d + 1) * n
  BY ONLY <1>1, n \in Nat, a \in Nat
<1>3. ~(d < q)
  <2> SUFFICES ASSUME d + 1 <= q PROVE FALSE
    BY <1>1
  <2>1. (d + 1) * n <= q * n
    BY ONLY <1>1, d + 1 <= q, n \in Nat, q \in Nat
  <2>2. (d + 1) * n \in Int /\ q * n \in Int
    BY <1>1
  <2> QED  BY ONLY <1>2, <2>1, <2>2, q * n <= a, a \in Nat
<1>4. ~(q < d)
  <2> SUFFICES ASSUME q + 1 <= d PROVE FALSE
    BY <1>1
  <2>1. (q + 1) * n <= d * n
    BY ONLY <1>1, q + 1 <= d, n \in Nat, q \in Nat
  <2>2. (q + 1) * n \in Int /\ d * n \in Int
    BY <1>1
  <2> QED  BY ONLY <1>2, <2>1, <2>2, a < (q + 1) * n, a \in Nat
<1>5. d = q
  BY ONLY <1>1, <1>3, <1>4, q \in Nat
<1> QED  BY <1>5 DEF d

\* A digit more: what is left of it is what was there.
LEMMA QuotientOfTen ==
  ASSUME NEW a \in Nat, NEW m \in Nat, m >= 1
  PROVE  /\ a \div m \in Nat /\ (a \div m) % 10 \in 0..9 /\ a \div m <= a
         /\ a \div m = 10 * (a \div (10 * m)) + ((a \div m) % 10)
<1> DEFINE d == a \div m
           r == a % m
           q == d \div 10
           f == d % 10
<1>1. d \in Int /\ r \in Nat /\ r < m /\ a = m * d + r
  OBVIOUS
<1> HIDE DEF d, r
<1>2. d \in Nat /\ d <= a
  <2>1. ~(d < 0)
    <3> SUFFICES ASSUME d <= -1 PROVE FALSE
      BY <1>1
    <3>1. m * d <= -m
      BY ONLY <1>1, d <= -1, m \in Nat
    <3>2. m * d \in Int
      BY <1>1
    <3> QED  BY ONLY <1>1, <3>1, <3>2, a \in Nat, m \in Nat
  <2>2. d \in Nat
    BY <1>1, <2>1
  <2>3. d <= m * d
    BY ONLY <2>2, m \in Nat, m >= 1
  <2>4. m * d \in Nat
    BY <2>2
  <2> QED  BY ONLY <1>1, <2>2, <2>3, <2>4, a \in Nat
<1>3. q \in Nat /\ f \in 0..9 /\ d = 10 * q + f
  BY <1>2
<1> HIDE DEF q, f
<1>4. a \div (10 * m) = q
  <2> DEFINE n == 10 * m
  <2>1. m * d = 10 * (m * q) + m * f
    BY ONLY <1>2, <1>3, m \in Nat
  <2>2. 0 <= m * f /\ m * f <= 9 * m
    <3>1. f = 0 \/ f = 1 \/ f = 2 \/ f = 3 \/ f = 4 \/ f = 5 \/ f = 6 \/ f = 7 \/ f = 8 \/ f = 9
      BY <1>3
    <3> QED  BY <3>1
  <2>3. m * q \in Nat /\ m * f \in Nat /\ m * d \in Nat
    BY <1>2, <1>3
  <2>4. n \in Nat /\ n >= 1 /\ q * n = 10 * (m * q) /\ (q + 1) * n = 10 * (m * q) + 10 * m
    BY ONLY <1>3, m \in Nat, m >= 1
  <2>5. q * n <= a /\ a < (q + 1) * n
    <3> HIDE DEF n
    <3> QED  BY ONLY <1>1, <2>1, <2>2, <2>3, <2>4, m \in Nat, a \in Nat
  <2> HIDE DEF n
  <2>6. a \div n = q
    BY ONLY <1>3, <2>4, <2>5, a \in Nat, QuotientIs
  <2> QED  BY <2>6 DEF n
<1> QED  BY <1>2, <1>3, <1>4 DEF d, f

\* A power of ten is at least the power of two.
LEMMA TensAreLarge ==
  ASSUME ByteBits \in Nat
  PROVE  LET p == Json!PowerOfTen
             D == 0..(8 * ByteBits)
         IN /\ p[0] = 1
            /\ \A n \in D : p[n] \in Nat /\ p[n] >= 1 /\ p[n] >= Json!PowerOfTwo[n]
            /\ \A n \in D : n # 0 => p[n] = 10 * p[n - 1]
<1> DEFINE last == 8 * ByteBits
           p == Json!PowerOfTen
           t == Json!PowerOfTwo
           D == 0..last
           S == {n \in D : p[n] >= t[n]}
<1>0. last \in Nat /\ last \in Int /\ 0 \in Int /\ 2 \in {2, 10} /\ 10 \in {2, 10}
  OBVIOUS
<1>1. p = Powers(10, last) /\ t = Powers(2, last)
  BY DEF Json!PowerOfTen, Json!PowerOfTwo, Powers
<1> HIDE DEF last, p, t
<1>2. /\ p[0] = 1 /\ \A n \in D : p[n] \in Nat /\ p[n] >= 1
      /\ \A n \in D : n # 0 => p[n] = 10 * p[n - 1]
  BY <1>0, <1>1, PowersAre
<1>3. /\ t[0] = 1 /\ \A n \in D : t[n] \in Nat /\ t[n] >= 1
      /\ \A n \in D : n # 0 => t[n] = 2 * t[n - 1]
  BY <1>0, <1>1, PowersAre
<1>4. 0 \in S
  BY <1>0, <1>2, <1>3
<1>5. ASSUME NEW i \in 0..(last - 1), i \in S PROVE i + 1 \in S
  <2>1. i \in D /\ i + 1 \in D /\ i + 1 # 0 /\ (i + 1) - 1 = i
    BY <1>0
  <2>2. p[i + 1] = 10 * p[i] /\ t[i + 1] = 2 * t[i]
    BY <1>2, <1>3, <2>1
  <2> QED  BY <1>2, <1>3, <1>5, <2>1, <2>2
<1>6. \A i \in D : i \in S
  <2> HIDE DEF S
  <2> QED  BY ONLY <1>0, <1>4, <1>5, InductionFrom, Zenon
<1>7. /\ p[0] = 1
      /\ \A n \in D : p[n] \in Nat /\ p[n] >= 1 /\ p[n] >= t[n]
      /\ \A n \in D : n # 0 => p[n] = 10 * p[n - 1]
  BY <1>2, <1>6
<1> QED  BY <1>7 DEF p, t, last

\* What is written of a number: q[i] is what its first i digits are.
IsSpelled(q, n, width) ==
  /\ width \in Nat /\ width >= 1 /\ q \in [0..width -> Nat]
  /\ q[0] = 0 /\ q[width] = n
  /\ \A i \in 0..width : q[i] <= n
  /\ \A i \in 1..width : q[i] % 10 \in 0..9 /\ q[i] = 10 * q[i - 1] + (q[i] % 10)

Spelling(q, width, negative) ==
  LET digits == [i \in 1..width |-> Json!CharOf(q[i] % 10)]
  IN IF negative THEN <<"-">> \o digits ELSE digits

LEMMA SpelledOut ==
  ASSUME ByteBits \in Nat, ByteBits >= 3, NEW e \in Int, NEW n \in Nat,
         n = (IF e < 0 THEN -e ELSE e), n < Full(8)
  PROVE  \E q, width : IsSpelled(q, n, width) /\ Json!writeInteger(e) = Spelling(q, width, e < 0)
<1> DEFINE last == 8 * ByteBits
           p == Json!PowerOfTen
           Least(w) == n < p[w] /\ (w = 1 \/ n >= p[w - 1])
           width == CHOOSE w \in 1..last : Least(w)
           q == [i \in 0..width |-> n \div p[width - i]]
<1>0. last \in Nat /\ last >= 1
  OBVIOUS
<1>1. /\ p[0] = 1
      /\ \A k \in 0..last : p[k] \in Nat /\ p[k] >= 1 /\ p[k] >= Json!PowerOfTwo[k]
      /\ \A k \in 0..last : k # 0 => p[k] = 10 * p[k - 1]
  BY TensAreLarge
<1>2. Json!Bits(Json!JsonUInt) = last
  BY DEF Json!Bits, Json!JsonUInt, Json!Type
<1>3. Json!writeInteger(e) =
        LET digits == [i \in 1..width |-> Json!CharOf((n \div p[width - i]) % 10)]
        IN IF e < 0 THEN <<"-">> \o digits ELSE digits
  BY <1>2 DEF Json!writeInteger
<1>4. n < p[last]
  <2>1. last \in 0..last /\ Full(8) = Json!PowerOfTwo[last]
    BY <1>0 DEF Full
  <2>2. p[last] \in Nat /\ p[last] >= Full(8) /\ Full(8) \in Nat
    BY <1>1, <2>1, EndsAreInOrder DEF EndsInOrder
  <2> HIDE DEF last, p
  <2> QED  BY <2>2
<1> HIDE DEF last, p
<1>5. \E w \in 1..last : Least(w)
  <2> DEFINE T == {w \in Nat : w >= 1 /\ w <= last /\ n < p[w]}
  <2>1. last \in T
    BY <1>0, <1>4
  <2>2. PICK w \in T : \A y \in T : w <= y
    <3> T \subseteq Nat  OBVIOUS
    <3> HIDE DEF T
    <3> QED  BY <2>1, LeastNatural
  <2>3. CASE w = 1
    BY <1>0, <2>2, <2>3
  <2>4. CASE w # 1
    <3>1. w - 1 \in Nat /\ w - 1 >= 1 /\ w - 1 <= last /\ ~(w <= w - 1) /\ w - 1 \in 0..last
      BY <1>0, <2>2, <2>4
    <3>2. ~(n < p[w - 1])
      BY <2>2, <3>1
    <3>3. p[w - 1] \in Nat
      BY <1>1, <3>1
    <3> QED  BY <1>0, <2>2, <3>2, <3>3
  <2> QED  BY <2>3, <2>4
<1>6. width \in 1..last /\ n < p[width]
  BY <1>5
<1> HIDE DEF width
<1>7. /\ width \in Nat /\ width >= 1
      /\ \A i \in 0..width : width - i \in 0..last
      /\ \A i \in 1..width : /\ i \in 0..width /\ i - 1 \in 0..width
                             /\ width - (i - 1) # 0 /\ (width - (i - 1)) - 1 = width - i
      /\ 0 \in 0..width /\ width \in 0..width /\ width - width = 0 /\ width - 0 = width
  BY <1>0, <1>6
<1>8. ASSUME NEW i \in 0..width PROVE q[i] = n \div p[width - i] /\ q[i] \in Nat /\ q[i] <= n
  <2>1. p[width - i] \in Nat /\ p[width - i] >= 1
    BY <1>1, <1>7
  <2> QED  BY <2>1, QuotientOfTen
<1>9. ASSUME NEW i \in 1..width
      PROVE  q[i] % 10 \in 0..9 /\ q[i] = 10 * q[i - 1] + (q[i] % 10)
  <2> DEFINE m == p[width - i]
  <2>1. /\ i \in 0..width /\ i - 1 \in 0..width /\ width - i \in 0..last
        /\ width - (i - 1) \in 0..last /\ width - (i - 1) # 0 /\ (width - (i - 1)) - 1 = width - i
    BY <1>7
  <2>2. m \in Nat /\ m >= 1 /\ p[width - (i - 1)] = 10 * m
    BY <1>1, <2>1
  <2>3. q[i] = n \div m /\ q[i - 1] = n \div (10 * m)
    BY <1>8, <2>1, <2>2
  <2>4. /\ (n \div m) % 10 \in 0..9
        /\ n \div m = 10 * (n \div (10 * m)) + ((n \div m) % 10)
    BY <2>2, QuotientOfTen
  <2> HIDE DEF m, q
  <2> QED  BY <2>3, <2>4
<1>10. q[0] = 0
  <2>1. q[0] = n \div p[width] /\ p[width] \in Nat /\ p[width] >= 1
    BY <1>0, <1>1, <1>6, <1>7, <1>8
  <2>2. 0 * p[width] <= n /\ n < (0 + 1) * p[width]
    BY <1>6, <2>1
  <2> HIDE DEF q
  <2>3. n \div p[width] = 0
    BY ONLY <2>1, <2>2, n \in Nat, QuotientIs
  <2> QED  BY <2>1, <2>3
<1>11. q[width] = n
  <2>1. q[width] = n \div 1
    BY <1>1, <1>7, <1>8
  <2> QED  BY <2>1
<1>12. IsSpelled(q, n, width)
  <2>1. q \in [0..width -> Nat]
    BY <1>8
  <2> HIDE DEF q
  <2> QED  BY <1>7, <1>8, <1>9, <1>10, <1>11, <2>1 DEF IsSpelled
<1>13. [i \in 1..width |-> Json!CharOf((n \div p[width - i]) % 10)] = [i \in 1..width |-> Json!CharOf(q[i] % 10)]
  BY <1>7, <1>8
<1> HIDE DEF q
<1>14. Json!writeInteger(e) = Spelling(q, width, e < 0)
  BY <1>3, <1>13 DEF Spelling
<1> QED  BY <1>12, <1>14

LEMMA CharOfDigit ==
  ASSUME NEW d \in 0..9
  PROVE  Json!CharOf(d) \in DOMAIN DigitOf /\ DigitOf[Json!CharOf(d)] = d
BY DecimalAssumption DEF Json!CharOf, Digits

\* The digits stand in a text behind its first off characters, to its end.
StandIn(s, off, q, width) ==
  /\ off \in {0, 1} /\ Len(s) = off + width
  /\ \A i \in 1..width : s[off + i] = Json!CharOf(q[i] % 10)

\* The first loop of parseNumber() takes all digits of a number that fits.
LEMMA WholeIsRead ==
  ASSUME NEW n \in Nat, NEW q, NEW width, IsSpelled(q, n, width),
         NEW off, NEW s, StandIn(s, off, q, width),
         Json!highest(Json!JsonUInt) \in Nat, n <= Json!highest(Json!JsonUInt)
  PROVE  Json!Whole(s, off + 1) = [mantissa |-> n, at |-> Len(s) + 1]
<1> DEFINE from == off + 1
           end == off + width
           top == Json!highest(Json!JsonUInt)
           Body(f, i) == IF i < from THEN [mantissa |-> 0, at |-> from]
        ELSE LET r == f[i - 1]
             IN IF r.at # i \/ ~Json!IsDigit(s, i) \/ r.mantissa > top \div 10 THEN r
                ELSE IF r.mantissa * 10 > top - DigitOf[s[i]]
                     THEN [r EXCEPT !.mantissa = @ * 10]
                     ELSE [mantissa |-> r.mantissa * 10 + DigitOf[s[i]], at |-> i + 1]
           run == CHOOSE f : f = [i \in (from - 1)..Len(s) |-> Body(f, i)]
           g == [i \in off..end |-> [mantissa |-> q[i - off], at |-> i + 1]]
<1>text. /\ off \in {0, 1} /\ Len(s) = off + width
      /\ \A i \in 1..width : s[off + i] = Json!CharOf(q[i] % 10)
  BY DEF StandIn
<1>spelled. /\ width \in Nat /\ width >= 1 /\ q \in [0..width -> Nat] /\ q[0] = 0 /\ q[width] = n
      /\ \A i \in 1..width : /\ q[i - 1] \in Nat /\ q[i] \in Nat /\ q[i] <= n
                             /\ q[i] % 10 \in 0..9 /\ q[i] = 10 * q[i - 1] + (q[i] % 10)
  <2> HIDE DEF Body, run, g, from, end, top
  <2>1. /\ width \in Nat /\ width >= 1 /\ q \in [0..width -> Nat] /\ q[0] = 0 /\ q[width] = n
        /\ \A i \in 0..width : q[i] <= n
        /\ \A i \in 1..width : q[i] % 10 \in 0..9 /\ q[i] = 10 * q[i - 1] + (q[i] % 10)
    BY DEF IsSpelled
  <2>2. \A i \in 1..width : i \in 0..width /\ i - 1 \in 0..width
    BY <2>1
  <2> QED  BY <2>1, <2>2
<1>0. /\ from \in Nat /\ end \in Nat /\ off \in Nat /\ off \in Int /\ end \in Int /\ width \in Nat
      /\ from - 1 = off /\ off <= end /\ Len(s) = end /\ end - off = width
      /\ \A i \in off..end : (i < from <=> i = off) /\ i - off \in 0..width
      /\ \A i \in off..end : i # off => /\ i - off \in 1..width /\ off + (i - off) = i /\ i - 1 \in off..end
                                        /\ (i - 1) - off = (i - off) - 1 /\ (i - 1) + 1 = i
  <2> HIDE DEF Body, run, g, top
  <2>1. off \in Nat /\ width \in Nat
    BY <1>spelled, <1>text
  <2> QED  BY <1>text, <2>1
<1>1. Json!Whole(s, from) = run[end]
  <2>1. Json!Whole(s, from) = run[Len(s)]
    BY DEF Json!Whole
  <2> QED  BY ONLY <1>0, <2>1
<1>2. ASSUME NEW f, NEW i \in off..end, i # off, f[i - 1] = g[i - 1]
      PROVE  Body(f, i) = g[i]
  <2> DEFINE r == f[i - 1]
             before == q[(i - off) - 1]
             now == q[i - off]
  <2>1. /\ ~(i < from) /\ i - off \in 1..width /\ off + (i - off) = i /\ i - 1 \in off..end
        /\ (i - 1) - off = (i - off) - 1 /\ (i - 1) + 1 = i /\ (i - off) - 1 \in 0..width
    BY <1>0, <1>2
  <2>2. /\ before \in Nat /\ now \in Nat /\ now <= n
        /\ now % 10 \in 0..9 /\ now = 10 * before + (now % 10)
    BY <1>spelled, <2>1
  <2>3. s[i] = Json!CharOf(now % 10)
    BY <1>text, <2>1
  <2>4. s[i] \in DOMAIN DigitOf /\ DigitOf[s[i]] = now % 10
    BY <2>2, <2>3, CharOfDigit
  <2>5. Json!IsDigit(s, i)
    <3>1. i <= Len(s)  BY <1>0
    <3> QED  BY <2>4, <3>1 DEF Json!IsDigit, Json!At
  <2>6. r = [mantissa |-> before, at |-> i]
    BY <1>2, <2>1
  <2>7. r.mantissa = before /\ r.at = i
    BY <2>6
  <2>8. g[i] = [mantissa |-> now, at |-> i + 1]
    OBVIOUS
  <2> HIDE DEF r, before, now, g
  <2>9. ~(before > top \div 10) /\ ~(before * 10 > top - (now % 10)) /\ before * 10 + (now % 10) = now
    <3>1. 10 * before + (now % 10) <= top /\ top \in Nat
      BY <2>2
    <3> HIDE DEF top
    <3> QED  BY ONLY <2>2, <3>1
  <2>10. Body(f, i) = IF r.at # i \/ ~Json!IsDigit(s, i) \/ r.mantissa > top \div 10 THEN r
                ELSE IF r.mantissa * 10 > top - DigitOf[s[i]]
                     THEN [r EXCEPT !.mantissa = @ * 10]
                     ELSE [mantissa |-> r.mantissa * 10 + DigitOf[s[i]], at |-> i + 1]
    BY <2>1 DEF r
  <2> HIDE DEF Body, top
  <2> QED  BY <2>4, <2>5, <2>7, <2>8, <2>9, <2>10
<1>3. ASSUME NEW f PROVE Body(f, off) = g[off]
  <2>1. off < from /\ off \in off..end /\ q[off - off] = 0
    <3> HIDE DEF Body, run, g, top
    <3> QED  BY <1>0, <1>spelled
  <2> QED  BY <2>1
<1>4. g = [i \in (from - 1)..Len(s) |-> Body(g, i)]
  <2>1. ASSUME NEW i \in off..end PROVE g[i] = Body(g, i)
    <3> HIDE DEF Body, g
    <3> QED  BY <1>2, <1>3
  <2>2. g = [i \in off..end |-> g[i]]
    OBVIOUS
  <2> HIDE DEF Body, g
  <2> QED  BY <1>0, <2>1, <2>2
<1>5. run = [i \in (from - 1)..Len(s) |-> Body(run, i)]
  <2> HIDE DEF Body, g
  <2> QED  BY <1>4
<1> HIDE DEF run, g, Body
<1>6. \A i \in off..end : run[i] = Body(run, i)
  BY <1>0, <1>5
<1> DEFINE S == {i \in off..end : run[i] = g[i]}
<1>7. off \in S
  BY <1>0, <1>3, <1>6
<1>8. ASSUME NEW i \in off..(end - 1), i \in S PROVE i + 1 \in S
  <2>1. i + 1 \in off..end /\ i + 1 # off /\ (i + 1) - 1 = i
    BY <1>0
  <2>2. run[(i + 1) - 1] = g[(i + 1) - 1]
    BY <1>8, <2>1
  <2> QED  BY <1>2, <1>6, <2>1, <2>2
<1>9. \A i \in off..end : i \in S
  <2> HIDE DEF S, from, end
  <2> QED  BY ONLY <1>0, <1>7, <1>8, InductionFrom, Zenon
<1>10. run[end] = g[end]
  BY <1>0, <1>9
<1>11. g[end] = [mantissa |-> n, at |-> end + 1]
  BY <1>0, <1>spelled DEF g
<1> QED  BY <1>0, <1>1, <1>10, <1>11

\* Every integer of every type is written as a text that parseNumber() reads as
\* that integer, and the variant that is read stores it in a type that holds it
\* (TextFormatter.hpp, parseNumber.hpp, JsonDeserializer.hpp).
THEOREM IntegersReadAsWritten ==
  ASSUME ByteBits \in Nat, ByteBits >= 3,
         NEW e, e.type \in Json!Types, e.value \in Int, Json!Holds(e.type, e.value)
  PROVE  Json!WrittenAndRead(e)
<1> DEFINE v == e.value
           n == IF v < 0 THEN -v ELSE v
           s == Json!writeInteger(v)
           off == IF v < 0 THEN 1 ELSE 0
           number == Json!parseNumber(s)
           top == Json!highest(Json!JsonUInt)
<1>0. EndsInOrder
  BY EndsAreInOrder
<1>1. /\ Half(8) \in Nat /\ Half(8) >= 1 /\ Full(8) = 2 * Half(8) /\ Full(8) \in Nat
      /\ top = Full(8) - 1 /\ top \in Nat
  <2>1. Half(8) \in Nat /\ Half(8) >= 1 /\ Full(8) = 2 * Half(8) /\ Full(8) \in Nat
    BY <1>0 DEF EndsInOrder
  <2>2. top = Full(8) - 1
    BY Ends DEF Json!JsonUInt
  <2> HIDE DEF top
  <2> QED  BY <2>1, <2>2
<1>2. v \in Int /\ v >= -Half(8) /\ (v < 0 \/ v < Full(8))
  <2> DEFINE t == e.type
             b == t.bytes
  <2>1. /\ Half(1) \in Nat /\ Half(2) \in Nat /\ Half(4) \in Nat
        /\ Full(1) = 2 * Half(1) /\ Full(2) = 2 * Half(2) /\ Full(4) = 2 * Half(4)
        /\ Full(1) <= Half(2) /\ Full(2) <= Half(4) /\ Full(4) <= Half(8)
    BY <1>0 DEF EndsInOrder
  <2>2. (b = 1 \/ b = 2 \/ b = 4 \/ b = 8) /\ t.signed \in BOOLEAN
    BY TypesAre
  <2>3. v \in (IF t.signed THEN -Half(b) ELSE 0)..(IF t.signed THEN Half(b) - 1 ELSE Full(b) - 1)
    BY EndsOfType DEF Json!Holds
  <2>4. Half(b) \in Nat /\ Half(b) <= Half(8) /\ Full(b) \in Nat /\ Full(b) <= Full(8)
    BY <1>1, <2>1, <2>2
  <2> HIDE DEF t, b, v
  <2> QED  BY ONLY <1>1, <2>2, <2>3, <2>4
<1> HIDE DEF v
<1>3. n \in Nat /\ n < Full(8) /\ n <= top /\ off \in {0, 1} /\ off \in Nat
  BY <1>1, <1>2
<1>4. PICK q, width :
           IsSpelled(q, n, width) /\ s = Spelling(q, width, v < 0)
  <2> HIDE DEF n, s
  <2>1. n = (IF v < 0 THEN -v ELSE v)  BY DEF n
  <2> QED  BY <1>2, <1>3, <2>1, SpelledOut DEF s
<1> DEFINE digits == [i \in 1..width |-> Json!CharOf(q[i] % 10)]
<1>5. width \in Nat /\ width >= 1 /\ digits \in Seq({digits[i] : i \in 1..width}) /\ Len(digits) = width
  <2>1. width \in Nat /\ width >= 1
    BY <1>4 DEF IsSpelled
  <2> QED  BY <2>1
<1>6. /\ Len(s) = off + width
      /\ \A i \in 1..width : s[off + i] = Json!CharOf(q[i] % 10)
      /\ v < 0 => s[1] = "-"
  <2>1. CASE v < 0
    <3>1. s = <<"-">> \o digits /\ off = 1
      BY <1>4, <2>1 DEF Spelling
    <3>2. Len(s) = 1 + width /\ s[1] = "-" /\ \A i \in 1..width : s[1 + i] = digits[i]
      <4> DEFINE C == {digits[i] : i \in 1..width} \cup {"-"}
      <4>1. digits \in Seq(C) /\ Len(digits) = width
        BY <1>5
      <4>2. "-" \in C
        OBVIOUS
      <4> HIDE DEF digits, C, s
      <4>3. /\ Len(<<"-">> \o digits) = 1 + Len(digits) /\ (<<"-">> \o digits)[1] = "-"
            /\ \A i \in 1..Len(digits) : (<<"-">> \o digits)[i + 1] = digits[i]
        BY ONLY <4>1, <4>2, PutInFront
      <4>4. \A i \in 1..width : 1 + i = i + 1
        OBVIOUS
      <4> QED  BY ONLY <3>1, <4>1, <4>3, <4>4
    <3> QED  BY <2>1, <3>1, <3>2
  <2>2. CASE ~(v < 0)
    <3>1. s = digits /\ off = 0
      BY <1>4, <2>2 DEF Spelling
    <3> HIDE DEF s
    <3> QED  BY <1>5, <2>2, <3>1
  <2> QED  BY <2>1, <2>2
<1> HIDE DEF s, n, off, top
<1>7. Json!Whole(s, off + 1) = [mantissa |-> n, at |-> Len(s) + 1]
  <2>1. Json!highest(Json!JsonUInt) \in Nat /\ n <= Json!highest(Json!JsonUInt)
    BY <1>1, <1>3 DEF top
  <2> HIDE DEF digits
  <2>2. n \in Nat /\ IsSpelled(q, n, width) /\ StandIn(s, off, q, width)
    BY <1>3, <1>4, <1>6 DEF StandIn
  <2> HIDE DEF number
  <2> QED  BY ONLY <2>1, <2>2, WholeIsRead
<1>8. s[off + 1] \in DOMAIN DigitOf
  <2>1. 1 \in 1..width /\ q[1] % 10 \in 0..9
    BY <1>4, <1>5 DEF IsSpelled
  <2> QED  BY <1>6, <2>1, CharOfDigit
<1>9. /\ 1 <= Len(s) /\ off + 1 <= Len(s) /\ Len(s) \in Nat
      /\ Len(s) + 1 > Len(s)
  BY <1>3, <1>5, <1>6
<1>10. Json!At(s, 1) = s[1] /\ Json!IsDigit(s, off + 1)
  BY <1>8, <1>9 DEF Json!At, Json!IsDigit
<1>11. (IF s[1] \in {"-", "+"} THEN 2 ELSE 1) = off + 1 /\ (s[1] = "-") = (v < 0)
  <2>1. CASE v < 0
    BY <1>6, <2>1 DEF off
  <2>2. CASE ~(v < 0)
    <3>1. off = 0 /\ off + 1 = 1
      BY <2>2 DEF off
    <3>2. s[1] \in Digits
      BY <1>8, <3>1 DEF Digits
    <3>3. s[1] \notin {"-", "+"}
      BY <3>2, DecimalAssumption
    <3> QED  BY <2>2, <3>1, <3>3
  <2> QED  BY <2>1, <2>2
<1> DEFINE whole == Json!Whole(s, off + 1)
<1>12. whole.at = Len(s) + 1 /\ whole.mantissa = n
  BY <1>7
<1> HIDE DEF whole
<1>13. number = IF ~(v < 0) THEN Json!Number("UnsignedInteger", FALSE, n, 0)
                ELSE IF n <= Json!PowerOfTwo[Json!Bits(Json!JsonInteger) - 1]
                     THEN Json!Number("SignedInteger", TRUE, n, 0)
                ELSE Json!Float(s, TRUE, whole)
  <2>1. number = IF ~Json!IsDigit(s, off + 1) /\ Json!At(s, off + 1) # "." THEN Json!Invalid
                 ELSE IF whole.at > Len(s) /\ ~(s[1] = "-")
                      THEN Json!Number("UnsignedInteger", FALSE, whole.mantissa, 0)
                 ELSE IF whole.at > Len(s) /\ whole.mantissa <= Json!PowerOfTwo[Json!Bits(Json!JsonInteger) - 1]
                      THEN Json!Number("SignedInteger", TRUE, whole.mantissa, 0)
                 ELSE Json!Float(s, s[1] = "-", whole)
    BY <1>10, <1>11 DEF Json!parseNumber, whole
  <2>2. whole.at > Len(s)
    BY <1>9, <1>12
  <2> HIDE DEF number
  <2> QED  BY <1>10, <1>11, <1>12, <2>1, <2>2
<1>14. Json!PowerOfTwo[Json!Bits(Json!JsonInteger) - 1] = Half(8)
  BY DEF Json!Bits, Json!JsonInteger, Json!Type, Half
<1>15. Json!JsonInteger \in Json!Types /\ Json!JsonUInt \in Json!Types
  BY DEF Json!JsonInteger, Json!JsonUInt, Json!Type, Json!Types
<1> HIDE DEF number
<1>16. Json!IsInteger(number) /\ Json!FromText(number).value = v /\ Json!Holds(Json!FromText(number).type, v)
  <2>1. CASE v < 0
    <3>1. n = -v /\ n <= Half(8) /\ -n = v
      BY <1>1, <1>2, <2>1 DEF n
    <3>2. number = Json!Number("SignedInteger", TRUE, n, 0)
      BY <1>13, <1>14, <2>1, <3>1
    <3>3. number.type = "SignedInteger" /\ number.negative /\ number.mantissa = n
      BY <3>2 DEF Json!Number
    <3>4. Json!FromText(number) = Json!setInteger(Json!JsonInteger, v)
      BY <3>1, <3>3 DEF Json!FromText
    <3>5. Json!Holds(Json!JsonInteger, v)
      <4>1. Json!lowest(Json!JsonInteger) = -Half(8) /\ Json!highest(Json!JsonInteger) = Half(8) - 1
        BY Ends DEF Json!JsonInteger
      <4>2. v \in -Half(8)..(Half(8) - 1)
        BY <1>1, <1>2, <2>1
      <4> QED  BY <4>1, <4>2 DEF Json!Holds
    <3>6. /\ Json!setInteger(Json!JsonInteger, v).value = v
          /\ Json!Holds(Json!setInteger(Json!JsonInteger, v).type, v)
      BY <1>0, <1>2, <1>15, <3>5, StoredTypeHolds
    <3> QED  BY <3>3, <3>4, <3>6 DEF Json!IsInteger
  <2>2. CASE ~(v < 0)
    <3>1. n = v
      BY <2>2 DEF n
    <3>2. number = Json!Number("UnsignedInteger", FALSE, n, 0)
      BY <1>13, <2>2
    <3>3. number.type = "UnsignedInteger" /\ ~number.negative /\ number.mantissa = n
      BY <3>2 DEF Json!Number
    <3>4. Json!FromText(number) = Json!setInteger(Json!JsonUInt, v)
      BY <3>1, <3>3 DEF Json!FromText
    <3>5. Json!Holds(Json!JsonUInt, v)
      <4>1. Json!lowest(Json!JsonUInt) = 0 /\ Json!highest(Json!JsonUInt) = Full(8) - 1
        BY Ends DEF Json!JsonUInt
      <4>2. v \in 0..(Full(8) - 1)
        BY <1>1, <1>2, <2>2
      <4> QED  BY <4>1, <4>2 DEF Json!Holds
    <3>6. /\ Json!setInteger(Json!JsonUInt, v).value = v
          /\ Json!Holds(Json!setInteger(Json!JsonUInt, v).type, v)
      BY <1>0, <1>2, <1>15, <3>5, StoredTypeHolds
    <3> QED  BY <3>3, <3>4, <3>6 DEF Json!IsInteger
  <2> QED  BY <2>1, <2>2
<1> QED  BY <1>16 DEF Json!WrittenAndRead, number, s, v

-----------------------------------------------------------------------------
(***************************************************************************)
(* topicMatchesSub() walks through two texts character by character; MQTT  *)
(* compares their levels.  For texts of every length over every alphabet   *)
(* they agree, by induction on what is left of the filter: at the begin of *)
(* a level in both texts, the walk answers for the first levels and for    *)
(* what is behind them.                                                    *)
(***************************************************************************)

\* There is a place where a level ends, its first slash or the text's end.
LEMMA LevelEndIs ==
  ASSUME NEW S, NEW x \in Seq(S), NEW t \in 1..(Len(x) + 1)
  PROVE  /\ LevelEnd(x, t) \in t..(Len(x) + 1)
         /\ LevelEnd(x, t) > Len(x) \/ x[LevelEnd(x, t)] = "/"
         /\ \A i \in t..(LevelEnd(x, t) - 1) : x[i] # "/"
<1> DEFINE T == {e \in t..(Len(x) + 1) : e > Len(x) \/ x[e] = "/"}
<1>0. Len(x) \in Nat
  OBVIOUS
<1>1. Len(x) + 1 \in T
  BY <1>0
<1>2. PICK e \in T : \A y \in T : e <= y
  <2>1. T \subseteq Nat
    BY <1>0
  <2> HIDE DEF T
  <2> QED  BY <1>1, <2>1, LeastNatural
<1>3. e \in t..(Len(x) + 1) /\ (e > Len(x) \/ x[e] = "/")
  BY <1>0, <1>2
<1>4. ASSUME NEW k \in t..(e - 1) PROVE x[k] # "/"
  <2>1. k \in t..(Len(x) + 1) /\ k < e
    BY <1>0, <1>3
  <2>2. k \notin T
    BY <1>2, <2>1
  <2> QED  BY <2>1, <2>2
<1> QED  BY <1>3, <1>4 DEF LevelEnd

\* A level is the part of the text up to its end.
LEMMA LevelText ==
  ASSUME NEW S, NEW x \in Seq(S), NEW t \in 1..(Len(x) + 1), NEW e \in t..(Len(x) + 1)
  PROVE  LET v == SubSeq(x, t, e - 1)
         IN v \in Seq(S) /\ Len(v) = e - t /\ \A i \in 1..(e - t) : v[i] = x[t + i - 1]
<1>1. Len(x) \in Nat
  OBVIOUS
<1>2. e - 1 \in (t - 1)..Len(x) /\ (e - 1) - t + 1 = e - t
  BY <1>1
<1> QED  BY <1>1, <1>2

\* What defines the sequences of levels from every place of a text on.
IsLevels(f, x) ==
  f = [t \in 1..(Len(x) + 1) |->
         <<SubSeq(x, t, LevelEnd(x, t) - 1)>> \o
           IF LevelEnd(x, t) > Len(x) THEN <<>> ELSE f[LevelEnd(x, t) + 1]]
LevelsFrom(x) == CHOOSE f : IsLevels(f, x)

\* The recursion behind Levels has a solution, and it is a sequence of levels.
LEMMA LevelsExist ==
  ASSUME NEW S, NEW x \in Seq(S)
  PROVE  /\ IsLevels(LevelsFrom(x), x)
         /\ \A t \in 1..(Len(x) + 1) : LevelsFrom(x)[t] \in Seq(Seq(S))
<1> DEFINE D == 1..(Len(x) + 1)
           V == Seq(Seq(S))
           rank == [t \in D |-> Len(x) + 1 - t]
           rest(t, g) == IF LevelEnd(x, t) > Len(x) THEN <<>> ELSE g[LevelEnd(x, t) + 1]
           level(t) == SubSeq(x, t, LevelEnd(x, t) - 1)
           step == [t \in D |-> [g \in [D -> V] |-> <<level(t)>> \o rest(t, g)]]
<1>0. Len(x) \in Nat
  OBVIOUS
<1>1. ASSUME NEW t \in D
      PROVE  /\ level(t) \in Seq(S)
             /\ LevelEnd(x, t) <= Len(x) =>
                  LevelEnd(x, t) + 1 \in D /\ rank[LevelEnd(x, t) + 1] < rank[t]
             /\ \A g \in [D -> V] : rest(t, g) \in V
  <2>1. LevelEnd(x, t) \in t..(Len(x) + 1)
    BY LevelEndIs
  <2>2. level(t) \in Seq(S)
    BY <2>1, LevelText
  <2>3. LevelEnd(x, t) <= Len(x) => LevelEnd(x, t) + 1 \in D /\ LevelEnd(x, t) + 1 > t
    BY <1>0, <2>1
  <2>4. LevelEnd(x, t) <= Len(x) \/ LevelEnd(x, t) > Len(x)
    BY <1>0, <2>1
  <2> HIDE DEF level
  <2> QED  BY <1>0, <2>1, <2>2, <2>3, <2>4
<1>2. ASSUME NEW t \in D, NEW g \in [D -> V] PROVE <<level(t)>> \o rest(t, g) \in V
  <2>1. level(t) \in Seq(S) /\ rest(t, g) \in Seq(Seq(S))
    BY <1>1
  <2> HIDE DEF level, rest
  <2> QED  BY <2>1
<1>3. IsRecursion(D, V, rank, Len(x), step)
  <2>1. rank \in [D -> 0..Len(x)]
    BY <1>0
  <2>2. step \in [D -> [[D -> V] -> V]]
    <3> HIDE DEF level, rest, D, V
    <3> QED  BY <1>2
  <2>3. ASSUME NEW t \in D, NEW g \in [D -> V], NEW h \in [D -> V],
               \A y \in D : rank[y] < rank[t] => g[y] = h[y]
        PROVE  step[t][g] = step[t][h]
    <3>1. rest(t, g) = rest(t, h)
      <4>1. CASE LevelEnd(x, t) > Len(x)
        BY <4>1
      <4>2. CASE ~(LevelEnd(x, t) > Len(x))
        <5>1. LevelEnd(x, t) + 1 \in D /\ rank[LevelEnd(x, t) + 1] < rank[t]
          <6>1. LevelEnd(x, t) \in t..(Len(x) + 1)
            BY LevelEndIs
          <6>2. LevelEnd(x, t) <= Len(x)
            BY <1>0, <4>2, <6>1
          <6> HIDE DEF rank, D
          <6> QED  BY <1>1, <6>2
        <5> HIDE DEF rank, D
        <5> QED  BY <2>3, <4>2, <5>1
      <4> QED  BY <4>1, <4>2
    <3>2. step[t][g] = <<level(t)>> \o rest(t, g) /\ step[t][h] = <<level(t)>> \o rest(t, h)
      <4> HIDE DEF level, rest, D, V
      <4> QED  OBVIOUS
    <3> HIDE DEF step, rest, level
    <3> QED  BY <3>1, <3>2
  <2>4. V # {}
    <3>1. << >> \in V
      OBVIOUS
    <3> QED  BY <3>1
  <2> HIDE DEF step, rank, D, V
  <2> QED  BY <1>0, <2>1, <2>2, <2>3, <2>4 DEF IsRecursion
<1>4. PICK f : IsFixpoint(f, D, V, step)
  <2> HIDE DEF step, rank, D, V
  <2> QED  BY <1>3, RecursionExists
<1>5. f \in [D -> V] /\ \A t \in D : f[t] = step[t][f]
  BY <1>4 DEF IsFixpoint
<1>6. ASSUME NEW t \in D PROVE f[t] = <<level(t)>> \o rest(t, f)
  <2> HIDE DEF level, rest, D, V
  <2> QED  BY <1>5
<1>7. IsLevels(f, x)
  <2>1. f = [t \in D |-> f[t]]
    BY <1>5
  <2>2. f = [t \in D |-> <<level(t)>> \o rest(t, f)]
    <3> HIDE DEF level, rest, D, V
    <3> QED  BY <1>6, <2>1
  <2> QED  BY <2>2 DEF IsLevels
<1>8. IsLevels(LevelsFrom(x), x)
  BY <1>7 DEF LevelsFrom
<1> DEFINE L == LevelsFrom(x)
<1>9. \A t \in D : L[t] = <<level(t)>> \o rest(t, L)
  BY <1>8 DEF IsLevels
<1> HIDE DEF L
<1> DEFINE P == {n \in Nat : \A t \in D : rank[t] < n => L[t] \in V}
<1>10. \A n \in Nat : n \in P
  <2>1. 0 \in P
    BY <1>0
  <2>2. ASSUME NEW n \in Nat, n \in P PROVE n + 1 \in P
    <3> SUFFICES ASSUME NEW t \in D, rank[t] < n + 1 PROVE L[t] \in V
      BY DEF P
    <3>1. rest(t, L) \in V
      <4>1. CASE LevelEnd(x, t) > Len(x)
        <5>1. << >> \in V
          OBVIOUS
        <5> QED  BY <4>1, <5>1
      <4>2. CASE ~(LevelEnd(x, t) > Len(x))
        <5>1. LevelEnd(x, t) + 1 \in D /\ rank[LevelEnd(x, t) + 1] < rank[t]
          <6>1. LevelEnd(x, t) \in t..(Len(x) + 1)
            BY LevelEndIs
          <6>2. LevelEnd(x, t) <= Len(x)
            BY <1>0, <4>2, <6>1
          <6> HIDE DEF rank, D
          <6> QED  BY <1>1, <6>2
        <5>2. rank[LevelEnd(x, t) + 1] < n
          BY <1>0, <2>2, <5>1
        <5>3. L[LevelEnd(x, t) + 1] \in V
          BY <2>2, <5>1, <5>2
        <5> QED  BY <4>2, <5>3
      <4> QED  BY <4>1, <4>2
    <3>2. level(t) \in Seq(S) /\ L[t] = <<level(t)>> \o rest(t, L)
      BY <1>1, <1>9
    <3> HIDE DEF level, rest
    <3> QED  BY <3>1, <3>2
  <2> HIDE DEF P
  <2> QED  BY ONLY <2>1, <2>2, Induction, Zenon
<1>11. ASSUME NEW t \in D PROVE L[t] \in V
  <2>1. rank[t] < Len(x) + 1 /\ Len(x) + 1 \in Nat
    BY <1>0
  <2> QED  BY <1>10, <2>1
<1> QED  BY <1>8, <1>11 DEF L

\* A text's levels are its first one and those behind the first slash.
LEMMA LevelsSplit ==
  ASSUME NEW S, NEW x \in Seq(S), NEW t \in 1..(Len(x) + 1), NEW e, e = LevelEnd(x, t)
  PROVE  LET L == LevelsFrom(x)
         IN /\ L[t] \in Seq(Seq(S)) /\ Len(L[t]) >= 1
            /\ L[t][1] = SubSeq(x, t, e - 1)
            /\ e > Len(x) => Len(L[t]) = 1
            /\ e <= Len(x) => /\ e + 1 \in 1..(Len(x) + 1)
                              /\ L[e + 1] \in Seq(Seq(S)) /\ Len(L[e + 1]) >= 1
                              /\ Len(L[t]) = Len(L[e + 1]) + 1
                              /\ \A k \in 1..Len(L[e + 1]) : L[t][k + 1] = L[e + 1][k]
<1> DEFINE L == LevelsFrom(x)
           D == 1..(Len(x) + 1)
           rest(u) == IF LevelEnd(x, u) > Len(x) THEN <<>> ELSE L[LevelEnd(x, u) + 1]
           level(u) == SubSeq(x, u, LevelEnd(x, u) - 1)
<1>0. Len(x) \in Nat /\ e \in t..(Len(x) + 1) /\ t \in D
  BY LevelEndIs
<1>1. \A u \in D : L[u] \in Seq(Seq(S)) /\ L[u] = <<level(u)>> \o rest(u)
  BY LevelsExist DEF IsLevels
<1>2. \A u \in D : level(u) \in Seq(S)
  BY LevelEndIs, LevelText
<1>3. ASSUME NEW u \in D, NEW r \in Seq(Seq(S)), L[u] = <<level(u)>> \o r
      PROVE  /\ Len(L[u]) = Len(r) + 1 /\ L[u][1] = level(u)
             /\ \A k \in 1..Len(r) : L[u][k + 1] = r[k]
  <2>1. level(u) \in Seq(S)
    BY <1>2
  <2> HIDE DEF level, L, D
  <2> QED  BY <1>3, <2>1
<1>4. e > Len(x) \/ e <= Len(x)
  BY <1>0
<1>5. CASE e > Len(x)
  <2>1. rest(t) = <<>> /\ <<>> \in Seq(Seq(S)) /\ Len(<<>>) = 0 /\ ~(e <= Len(x))
    BY <1>0, <1>5
  <2>2. L[t] = <<level(t)>> \o <<>>
    BY <1>0, <1>1, <2>1
  <2>3. Len(L[t]) = 1 /\ L[t][1] = level(t)
    <3> HIDE DEF level, L, D
    <3> QED  BY <1>0, <1>3, <2>1, <2>2
  <2>4. level(t) = SubSeq(x, t, e - 1)
    OBVIOUS
  <2>5. L[t] \in Seq(Seq(S))
    BY <1>0, <1>1
  <2>6. /\ L[t] \in Seq(Seq(S)) /\ Len(L[t]) >= 1
        /\ L[t][1] = SubSeq(x, t, e - 1)
        /\ Len(L[t]) = 1
    <3> HIDE DEF level, L
    <3> QED  BY <2>3, <2>4, <2>5
  <2> HIDE DEF L
  <2> QED  BY ONLY <2>1, <2>6, Zenon DEF L
<1>6. CASE e <= Len(x)
  <2>1. e + 1 \in D /\ ~(e > Len(x))
    BY <1>0, <1>6
  <2>2. L[t] = <<level(t)>> \o L[e + 1] /\ L[e + 1] \in Seq(Seq(S))
    BY <1>0, <1>1, <2>1
  <2>3. /\ Len(L[t]) = Len(L[e + 1]) + 1 /\ L[t][1] = level(t)
        /\ \A k \in 1..Len(L[e + 1]) : L[t][k + 1] = L[e + 1][k]
    <3> HIDE DEF level, L, D
    <3> QED  BY <1>0, <1>3, <2>2
  <2>4. \A u \in D : Len(L[u]) >= 1
    <3> SUFFICES ASSUME NEW u \in D PROVE Len(L[u]) >= 1
      OBVIOUS
    <3>1. rest(u) \in Seq(Seq(S))
      <4>1. LevelEnd(x, u) \in u..(Len(x) + 1)
        BY LevelEndIs
      <4>2. CASE LevelEnd(x, u) > Len(x)
        BY <4>2
      <4>3. CASE ~(LevelEnd(x, u) > Len(x))
        <5>1. LevelEnd(x, u) + 1 \in D
          BY <1>0, <4>1, <4>3
        <5> HIDE DEF L, D
        <5> QED  BY <1>1, <4>3, <5>1
      <4> QED  BY <4>2, <4>3
    <3>2. Len(L[u]) = Len(rest(u)) + 1 /\ Len(rest(u)) \in Nat
      <4>1. L[u] = <<level(u)>> \o rest(u)
        BY <1>1
      <4> HIDE DEF level, L, D, rest
      <4> QED  BY <1>3, <3>1, <4>1
    <3> HIDE DEF L, rest
    <3> QED  BY <3>2
  <2>5. Len(L[t]) >= 1 /\ Len(L[e + 1]) >= 1 /\ L[t] \in Seq(Seq(S))
    BY <1>0, <1>1, <2>1, <2>4
  <2> HIDE DEF L
  <2> QED  BY <1>0, <1>6, <2>1, <2>2, <2>3, <2>5 DEF L
<1> QED  BY <1>4, <1>5, <1>6

-----------------------------------------------------------------------------
\* What topicMatchesSub() answers from two places of the texts on.
Answer(topic, sub, t, s, f) ==
  IF t > Len(topic) \/ s > Len(sub) THEN AtEnd(topic, sub, t, s)
  ELSE \/ sub[s] = "#"
       \/ sub[s] = "+" /\ f[BehindLevel(topic, t)][BehindPlus(sub, s)]
       \/ sub[s] \notin {"#", "+"} /\ topic[t] = sub[s] /\ f[t + 1][s + 1]

IsAnswer(f, topic, sub) ==
  f = [t \in 1..(Len(topic) + 1) |-> [s \in 1..(Len(sub) + 1) |-> Answer(topic, sub, t, s, f)]]
MatchFrom(topic, sub) == CHOOSE f : IsAnswer(f, topic, sub)

\* The places from which topicMatchesSub() goes on are further on.
LEMMA GoesOn ==
  ASSUME NEW S, NEW topic \in Seq(S), NEW sub \in Seq(S),
         NEW t \in 1..Len(topic), NEW s \in 1..Len(sub)
  PROVE  /\ BehindLevel(topic, t) \in (t + 1)..(Len(topic) + 1)
         /\ BehindPlus(sub, s) \in (s + 1)..(Len(sub) + 1)
         /\ t + 1 \in 1..(Len(topic) + 1) /\ s + 1 \in 1..(Len(sub) + 1)
<1>1. Len(topic) \in Nat /\ Len(sub) \in Nat /\ t \in 1..(Len(topic) + 1)
  OBVIOUS
<1>2. LevelEnd(topic, t) \in t..(Len(topic) + 1)
  BY <1>1, LevelEndIs
<1> QED  BY <1>1, <1>2 DEF BehindLevel, BehindPlus

\* The recursion behind topicMatchesSub() has a solution.
LEMMA AnswersExist ==
  ASSUME NEW S, NEW topic \in Seq(S), NEW sub \in Seq(S)
  PROVE  IsAnswer(MatchFrom(topic, sub), topic, sub)
<1> DEFINE D == 1..(Len(topic) + 1)
           E == 1..(Len(sub) + 1)
           V == [E -> BOOLEAN]
           rank == [t \in D |-> Len(topic) + 1 - t]
           step == [t \in D |-> [g \in [D -> V] |-> [s \in E |-> Answer(topic, sub, t, s, g)]]]
<1>0. Len(topic) \in Nat /\ Len(sub) \in Nat
  OBVIOUS
<1>1. ASSUME NEW t \in D, NEW s \in E, NEW g \in [D -> V] PROVE Answer(topic, sub, t, s, g) \in BOOLEAN
  BY Zenon DEF Answer, AtEnd
<1>2. ASSUME NEW t \in D, NEW s \in E, NEW g \in [D -> V], NEW h \in [D -> V],
             \A y \in D : rank[y] < rank[t] => g[y] = h[y]
      PROVE  Answer(topic, sub, t, s, g) = Answer(topic, sub, t, s, h)
  <2>1. CASE t > Len(topic) \/ s > Len(sub)
    BY <2>1 DEF Answer
  <2>2. CASE ~(t > Len(topic) \/ s > Len(sub))
    <3>1. t \in 1..Len(topic) /\ s \in 1..Len(sub)
      BY <1>0, <2>2
    <3>2. /\ BehindLevel(topic, t) \in D /\ BehindLevel(topic, t) > t
          /\ t + 1 \in D /\ t + 1 > t
      BY <1>0, <3>1, GoesOn
    <3>3. \A y \in D : y > t => rank[y] < rank[t]
      BY <1>0
    <3>4. g[BehindLevel(topic, t)] = h[BehindLevel(topic, t)] /\ g[t + 1] = h[t + 1]
      <4> HIDE DEF rank, D
      <4> QED  BY <1>2, <3>2, <3>3
    <3> QED  BY <3>4 DEF Answer
  <2> QED  BY <2>1, <2>2
<1>3. IsRecursion(D, V, rank, Len(topic), step)
  <2>1. rank \in [D -> 0..Len(topic)]
    BY <1>0
  <2>2. step \in [D -> [[D -> V] -> V]]
    <3> SUFFICES ASSUME NEW t \in D, NEW g \in [D -> V]
                 PROVE  [s \in E |-> Answer(topic, sub, t, s, g)] \in [E -> BOOLEAN]
      OBVIOUS
    <3>1. \A s \in E : Answer(topic, sub, t, s, g) \in BOOLEAN
      BY <1>1
    <3> HIDE DEF E
    <3> QED  BY <3>1
  <2>3. ASSUME NEW t \in D, NEW g \in [D -> V], NEW h \in [D -> V],
               \A y \in D : rank[y] < rank[t] => g[y] = h[y]
        PROVE  step[t][g] = step[t][h]
    <3>1. \A s \in E : Answer(topic, sub, t, s, g) = Answer(topic, sub, t, s, h)
      BY <1>2, <2>3
    <3>2. /\ step[t][g] = [s \in E |-> Answer(topic, sub, t, s, g)]
          /\ step[t][h] = [s \in E |-> Answer(topic, sub, t, s, h)]
      <4> HIDE DEF D, E, V
      <4> QED  OBVIOUS
    <3> HIDE DEF step, E
    <3> QED  BY <3>1, <3>2
  <2>4. V # {}
    <3>1. [s \in E |-> TRUE] \in V
      OBVIOUS
    <3> QED  BY <3>1
  <2> HIDE DEF step, rank, D, V
  <2> QED  BY <1>0, <2>1, <2>2, <2>3, <2>4 DEF IsRecursion
<1>4. PICK f : IsFixpoint(f, D, V, step)
  <2> HIDE DEF step, rank, D, V
  <2> QED  BY <1>3, RecursionExists
<1>5. f \in [D -> V] /\ \A t \in D : f[t] = step[t][f]
  BY <1>4 DEF IsFixpoint
<1>6. ASSUME NEW t \in D PROVE f[t] = [s \in E |-> Answer(topic, sub, t, s, f)]
  <2> HIDE DEF D, E, V
  <2> QED  BY <1>5
<1>7. IsAnswer(f, topic, sub)
  <2>1. f = [t \in D |-> f[t]]
    BY <1>5
  <2> HIDE DEF D, E
  <2>2. f = [t \in D |-> [s \in E |-> Answer(topic, sub, t, s, f)]]
    BY <1>6, <2>1
  <2> QED  BY <2>2 DEF IsAnswer, D, E
<1> QED  BY <1>7 DEF MatchFrom

-----------------------------------------------------------------------------
\* Where the level ends that is seen at a place of the text.
LEMMA LevelEndOf ==
  ASSUME NEW S, NEW x \in Seq(S), NEW t \in 1..(Len(x) + 1)
  PROVE  /\ t > Len(x) => LevelEnd(x, t) = t
         /\ t <= Len(x) /\ x[t] = "/" => LevelEnd(x, t) = t
         /\ t <= Len(x) /\ x[t] # "/" => LevelEnd(x, t + 1) = LevelEnd(x, t) /\ LevelEnd(x, t) > t
<1>0. Len(x) \in Nat
  OBVIOUS
<1>1. /\ LevelEnd(x, t) \in t..(Len(x) + 1)
      /\ LevelEnd(x, t) > Len(x) \/ x[LevelEnd(x, t)] = "/"
      /\ \A i \in t..(LevelEnd(x, t) - 1) : x[i] # "/"
  BY LevelEndIs
<1>2. ASSUME t <= Len(x), x[t] # "/"
      PROVE  LevelEnd(x, t + 1) = LevelEnd(x, t) /\ LevelEnd(x, t) > t
  <2>1. t + 1 \in 1..(Len(x) + 1)
    BY <1>0, <1>2
  <2>2. /\ LevelEnd(x, t + 1) \in (t + 1)..(Len(x) + 1)
        /\ LevelEnd(x, t + 1) > Len(x) \/ x[LevelEnd(x, t + 1)] = "/"
        /\ \A i \in (t + 1)..(LevelEnd(x, t + 1) - 1) : x[i] # "/"
    BY <2>1, LevelEndIs
  <2>3. LevelEnd(x, t) > t
    BY <1>0, <1>1, <1>2
  <2>4. ~ (LevelEnd(x, t) < LevelEnd(x, t + 1))
    <3> SUFFICES ASSUME LevelEnd(x, t) < LevelEnd(x, t + 1) PROVE FALSE
      OBVIOUS
    <3>1. LevelEnd(x, t) \in (t + 1)..(LevelEnd(x, t + 1) - 1) /\ LevelEnd(x, t) <= Len(x)
      BY <1>0, <1>1, <2>2, <2>3
    <3> QED  BY <1>0, <1>1, <2>2, <3>1
  <2>5. ~ (LevelEnd(x, t + 1) < LevelEnd(x, t))
    <3> SUFFICES ASSUME LevelEnd(x, t + 1) < LevelEnd(x, t) PROVE FALSE
      OBVIOUS
    <3>1. LevelEnd(x, t + 1) \in t..(LevelEnd(x, t) - 1) /\ LevelEnd(x, t + 1) <= Len(x)
      BY <1>0, <1>1, <2>2
    <3> QED  BY <1>0, <1>1, <2>2, <3>1
  <2> QED  BY <1>0, <1>1, <2>2, <2>3, <2>4, <2>5
<1>3. t > Len(x) => LevelEnd(x, t) = t
  BY <1>0, <1>1
<1>4. ASSUME t <= Len(x), x[t] = "/" PROVE LevelEnd(x, t) = t
  BY <1>0, <1>1, <1>4
<1> QED  BY <1>2, <1>3, <1>4

\* The rest of a filter that the code compares with "/#".
LEMMA SlashHash ==
  ASSUME NEW S, NEW x \in Seq(S), NEW s \in 1..(Len(x) + 1)
  PROVE  SubSeq(x, s, Len(x)) = <<"/", "#">> <=>
           Len(x) = s + 1 /\ x[s] = "/" /\ x[s + 1] = "#"
<1> DEFINE v == SubSeq(x, s, Len(x))
<1>0. Len(x) \in Nat
  OBVIOUS
<1>1. v \in Seq(S) /\ Len(v) = Len(x) + 1 - s /\ \A i \in 1..(Len(x) + 1 - s) : v[i] = x[s + i - 1]
  <2>1. Len(x) + 1 \in s..(Len(x) + 1) /\ (Len(x) + 1) - 1 = Len(x)
    BY <1>0
  <2>2. LET w == SubSeq(x, s, (Len(x) + 1) - 1)
        IN w \in Seq(S) /\ Len(w) = Len(x) + 1 - s /\ \A i \in 1..(Len(x) + 1 - s) : w[i] = x[s + i - 1]
    BY <2>1, LevelText
  <2> QED  BY <2>1, <2>2
<1> HIDE DEF v
<1>2. ASSUME v = <<"/", "#">>
      PROVE  Len(x) = s + 1 /\ x[s] = "/" /\ x[s + 1] = "#"
  <2>1. Len(v) = 2 /\ v[1] = "/" /\ v[2] = "#"
    BY <1>2
  <2>2. Len(x) = s + 1
    <3>1. Len(x) + 1 - s = 2
      BY <1>1, <2>1
    <3> QED  BY ONLY <1>0, <3>1, s \in 1..(Len(x) + 1)
  <2>3. v[1] = x[s] /\ v[2] = x[s + 1]
    BY <1>0, <1>1, <2>2
  <2> QED  BY <2>1, <2>2, <2>3
<1>3. ASSUME Len(x) = s + 1, x[s] = "/", x[s + 1] = "#"
      PROVE  v = <<"/", "#">>
  <2>1. Len(v) = 2 /\ v[1] = "/" /\ v[2] = "#"
    BY <1>0, <1>1, <1>3
  <2> QED  BY <1>1, <2>1
<1> QED  BY <1>2, <1>3 DEF v

\* F answers from all places as the code does.
IsMatch(F, topic, sub) ==
  \A t \in 1..(Len(topic) + 1), s \in 1..(Len(sub) + 1) :
    F[t][s] <=> Answer(topic, sub, t, s, F)

\* What the loop answers at places where it ends and where it goes on.
LEMMA MatchStep ==
  ASSUME NEW S, NEW topic \in Seq(S), NEW sub \in Seq(S), NEW F, IsMatch(F, topic, sub),
         NEW t \in 1..(Len(topic) + 1), NEW s \in 1..(Len(sub) + 1)
  PROVE  /\ t > Len(topic) /\ s > Len(sub) => F[t][s]
         /\ t <= Len(topic) /\ s > Len(sub) => ~F[t][s]
         /\ t > Len(topic) /\ s <= Len(sub) =>
              (F[t][s] <=> sub[s] = "#" \/ (Len(sub) = s + 1 /\ sub[s] = "/" /\ sub[s + 1] = "#"))
         /\ t <= Len(topic) /\ s <= Len(sub) /\ sub[s] = "#" => F[t][s]
         /\ t <= Len(topic) /\ s <= Len(sub) /\ sub[s] = "+" =>
              (F[t][s] <=> F[BehindLevel(topic, t)][BehindPlus(sub, s)])
         /\ t <= Len(topic) /\ s <= Len(sub) /\ sub[s] # "#" /\ sub[s] # "+" =>
              (F[t][s] <=> topic[t] = sub[s] /\ F[t + 1][s + 1])
<1> DEFINE sh == SubSeq(sub, s, Len(sub)) = <<"/", "#">>
           A == F[t][s]
           b == F[BehindLevel(topic, t)][BehindPlus(sub, s)]
           c == F[t + 1][s + 1]
<1>0. Len(topic) \in Nat /\ Len(sub) \in Nat
  OBVIOUS
<1>1. A <=> IF t > Len(topic) \/ s > Len(sub)
            THEN (t > Len(topic) /\ s > Len(sub)) \/ sh \/ (s <= Len(sub) /\ sub[s] = "#")
            ELSE \/ sub[s] = "#"
                 \/ sub[s] = "+" /\ b
                 \/ sub[s] \notin {"#", "+"} /\ topic[t] = sub[s] /\ c
  BY DEF IsMatch, Answer, AtEnd
<1>2. sh <=> Len(sub) = s + 1 /\ sub[s] = "/" /\ sub[s + 1] = "#"
  BY SlashHash
<1>3. s > Len(sub) => Len(sub) # s + 1
  BY <1>0
<1>4. /\ ~(t <= Len(topic)) <=> t > Len(topic)
      /\ ~(s <= Len(sub)) <=> s > Len(sub)
  BY <1>0
<1> HIDE DEF A, b, c, sh
<1>5. "#" # "+"
  OBVIOUS
<1>6. /\ t > Len(topic) /\ s > Len(sub) => A
      /\ t <= Len(topic) /\ s > Len(sub) => ~A
      /\ t > Len(topic) /\ s <= Len(sub) =>
           (A <=> sub[s] = "#" \/ (Len(sub) = s + 1 /\ sub[s] = "/" /\ sub[s + 1] = "#"))
  BY ONLY <1>1, <1>2, <1>3, <1>4, Zenon
<1>7. /\ t <= Len(topic) /\ s <= Len(sub) /\ sub[s] = "#" => A
      /\ t <= Len(topic) /\ s <= Len(sub) /\ sub[s] = "+" => (A <=> b)
      /\ t <= Len(topic) /\ s <= Len(sub) /\ sub[s] # "#" /\ sub[s] # "+" =>
           (A <=> topic[t] = sub[s] /\ c)
  BY ONLY <1>1, <1>4, <1>5, Zenon
<1> QED  BY <1>6, <1>7 DEF A, b, c

\* From the same place of two levels on.
Same(topic, sub, t, s, e, f) ==
  e - t = f - s /\ \A k \in s..(f - 1) : sub[k] = topic[(k - s) + t]

\* No wildcards up to f.
Literal(sub, s, f) == \A k \in s..(f - 1) : sub[k] # "+" /\ sub[k] # "#"

\* A level of a filter without wildcards matches a level that equals it.
LEMMA LiteralLevel ==
  ASSUME NEW S, NEW topic \in Seq(S), NEW sub \in Seq(S), NEW F, IsMatch(F, topic, sub)
  PROVE  \A t \in 1..(Len(topic) + 1), s \in 1..(Len(sub) + 1) :
           Literal(sub, s, LevelEnd(sub, s)) =>
             (F[t][s] <=> /\ Same(topic, sub, t, s, LevelEnd(topic, t), LevelEnd(sub, s))
                          /\ F[LevelEnd(topic, t)][LevelEnd(sub, s)])
<1> DEFINE D == 1..(Len(topic) + 1)
           E == 1..(Len(sub) + 1)
           Claim(t, s) ==
             Literal(sub, s, LevelEnd(sub, s)) =>
               (F[t][s] <=> /\ Same(topic, sub, t, s, LevelEnd(topic, t), LevelEnd(sub, s))
                            /\ F[LevelEnd(topic, t)][LevelEnd(sub, s)])
           P == {n \in Nat : \A t \in D, s \in E : Len(sub) + 1 - s = n => Claim(t, s)}
<1>0. Len(topic) \in Nat /\ Len(sub) \in Nat
  OBVIOUS
<1>1. ASSUME NEW n \in Nat, \A k \in Nat : k < n => k \in P PROVE n \in P
  <2> SUFFICES ASSUME NEW t \in D, NEW s \in E, Len(sub) + 1 - s = n,
                      Literal(sub, s, LevelEnd(sub, s))
               PROVE  F[t][s] <=> /\ Same(topic, sub, t, s, LevelEnd(topic, t), LevelEnd(sub, s))
                                  /\ F[LevelEnd(topic, t)][LevelEnd(sub, s)]
    BY DEF P
  <2> DEFINE e == LevelEnd(topic, t)
             f == LevelEnd(sub, s)
  <2>1. /\ t > Len(topic) => e = t
        /\ t <= Len(topic) /\ topic[t] = "/" => e = t
        /\ t <= Len(topic) /\ topic[t] # "/" => LevelEnd(topic, t + 1) = e /\ e > t
    BY LevelEndOf
  <2>2. /\ s > Len(sub) => f = s
        /\ s <= Len(sub) /\ sub[s] = "/" => f = s
        /\ s <= Len(sub) /\ sub[s] # "/" => LevelEnd(sub, s + 1) = f /\ f > s
    BY LevelEndOf
  <2>3. e \in t..(Len(topic) + 1) /\ f \in s..(Len(sub) + 1)
    BY LevelEndIs
  <2>4. /\ t <= Len(topic) /\ s > Len(sub) => ~F[t][s]
        /\ t > Len(topic) /\ s <= Len(sub) =>
              (F[t][s] <=> sub[s] = "#" \/ (Len(sub) = s + 1 /\ sub[s] = "/" /\ sub[s + 1] = "#"))
        /\ t <= Len(topic) /\ s <= Len(sub) /\ sub[s] # "#" /\ sub[s] # "+" =>
              (F[t][s] <=> topic[t] = sub[s] /\ F[t + 1][s + 1])
    <3> HIDE DEF P, Claim
    <3> QED  BY ONLY topic \in Seq(S), sub \in Seq(S), IsMatch(F, topic, sub), t \in D, s \in E, MatchStep, SMT
  <2> HIDE DEF e, f
  <2>5. CASE f = s
    <3>1. Same(topic, sub, t, s, e, f) <=> e = t
      BY <1>0, <2>3, <2>5 DEF Same
    <3>2. s > Len(sub) \/ (s <= Len(sub) /\ sub[s] = "/")
      BY <1>0, <2>2, <2>5
    <3>3. CASE e = t
      BY <2>5, <3>1, <3>3 DEF e, f
    <3>4. CASE e # t
      <4>1. t <= Len(topic) /\ topic[t] # "/"
        BY <1>0, <2>1, <3>4
      <4>2. ~F[t][s]
        BY <2>4, <3>2, <4>1
      <4> QED  BY <3>1, <3>4, <4>2 DEF e, f
    <3> QED  BY <3>3, <3>4
  <2>6. CASE f # s
    <3>1. s <= Len(sub) /\ sub[s] # "/" /\ f > s /\ LevelEnd(sub, s + 1) = f
      BY <1>0, <2>2, <2>6
    <3>2. sub[s] # "+" /\ sub[s] # "#"
      BY <2>3, <3>1 DEF Literal, f
    <3>3. CASE t > Len(topic)
      <4>1. ~F[t][s]
        BY <2>4, <3>1, <3>2, <3>3
      <4>2. ~Same(topic, sub, t, s, e, f)
        BY <2>1, <2>3, <3>1, <3>3 DEF Same
      <4> QED  BY <4>1, <4>2 DEF e, f
    <3>4. CASE t <= Len(topic) /\ topic[t] = "/"
      <4>1. ~F[t][s]
        BY <2>4, <3>1, <3>2, <3>4
      <4>2. ~Same(topic, sub, t, s, e, f)
        BY <2>1, <2>3, <3>1, <3>4 DEF Same
      <4> QED  BY <4>1, <4>2 DEF e, f
    <3>5. CASE t <= Len(topic) /\ topic[t] # "/"
      <4>1. t + 1 \in D /\ s + 1 \in E /\ LevelEnd(topic, t + 1) = e
        BY <1>0, <2>1, <3>1, <3>5
      <4>2. Literal(sub, s + 1, f)
        BY <2>3 DEF Literal, f
      <4>3. F[t + 1][s + 1] <=> Same(topic, sub, t + 1, s + 1, e, f) /\ F[e][f]
        <5>1. n - 1 \in Nat /\ n - 1 < n /\ Len(sub) + 1 - (s + 1) = n - 1
          BY <1>0, <3>1
        <5>2. n - 1 \in P
          BY <1>1, <5>1
        <5>3. Claim(t + 1, s + 1)
          BY <4>1, <5>1, <5>2 DEF P
        <5> QED  BY <3>1, <4>1, <4>2, <5>3
      <4>4. topic[t] = sub[s] /\ Same(topic, sub, t + 1, s + 1, e, f) <=> Same(topic, sub, t, s, e, f)
        <5>1. e - t = f - s <=> e - (t + 1) = f - (s + 1)
          BY <2>3
        <5>2. ASSUME \A k \in s..(f - 1) : sub[k] = topic[(k - s) + t]
              PROVE  topic[t] = sub[s] /\ \A k \in (s + 1)..(f - 1) : sub[k] = topic[(k - (s + 1)) + (t + 1)]
          <6>1. s \in s..(f - 1) /\ (s - s) + t = t
            BY <2>3, <3>1
          <6>2. \A k \in (s + 1)..(f - 1) : k \in s..(f - 1) /\ (k - (s + 1)) + (t + 1) = (k - s) + t
            BY <2>3
          <6> QED  BY <5>2, <6>1, <6>2
        <5>3. ASSUME topic[t] = sub[s], \A k \in (s + 1)..(f - 1) : sub[k] = topic[(k - (s + 1)) + (t + 1)]
              PROVE  \A k \in s..(f - 1) : sub[k] = topic[(k - s) + t]
          <6> SUFFICES ASSUME NEW k \in s..(f - 1) PROVE sub[k] = topic[(k - s) + t]
            OBVIOUS
          <6>1. CASE k = s
            <7>1. (k - s) + t = t
              BY <6>1
            <7> QED  BY <5>3, <6>1, <7>1
          <6>2. CASE k # s
            <7>1. k \in (s + 1)..(f - 1) /\ (k - (s + 1)) + (t + 1) = (k - s) + t
              BY <2>3, <6>2
            <7> QED  BY <5>3, <7>1
          <6> QED  BY <6>1, <6>2
        <5> QED  BY <5>1, <5>2, <5>3 DEF Same
      <4>5. F[t][s] <=> topic[t] = sub[s] /\ F[t + 1][s + 1]
        BY <2>4, <3>1, <3>2, <3>5
      <4> QED  BY <4>3, <4>4, <4>5 DEF e, f
    <3> QED  BY <1>0, <3>3, <3>4, <3>5
  <2> QED  BY <2>5, <2>6
<1>2. \A n \in Nat : n \in P
  <2> HIDE DEF P
  <2> QED  BY ONLY <1>1, StrongInduction, Zenon
<1>3. ASSUME NEW t \in D, NEW s \in E PROVE Claim(t, s)
  <2>1. Len(sub) + 1 - s \in Nat
    BY <1>0
  <2>2. Len(sub) + 1 - s \in P
    BY <1>2, <2>1
  <2> HIDE DEF Claim
  <2> QED  BY <2>1, <2>2
<1> QED  BY <1>3

-----------------------------------------------------------------------------
\* The first level of a filter matches the first level of a topic.
First(ts, ss) == ss[1] = <<"+">> \/ ss[1] = ts[1]

\* The reference, when one of the two has a single level.
LEMMA LevelsMatchStep ==
  ASSUME NEW S, NEW ts \in Seq(Seq(S)), NEW ss \in Seq(Seq(S)), Len(ts) >= 1, Len(ss) >= 1
  PROVE  /\ Len(ss) = 1 /\ ss[1] = <<"#">> => LevelsMatch(ts, ss)
         /\ Len(ss) = 1 /\ ss[1] # <<"#">> => (LevelsMatch(ts, ss) <=> Len(ts) = 1 /\ First(ts, ss))
         /\ Len(ss) >= 2 /\ Len(ts) = 1 =>
              (LevelsMatch(ts, ss) <=> Len(ss) = 2 /\ ss[2] = <<"#">> /\ First(ts, ss))
<1> DEFINE n == Len(ts)
           m == Len(ss)
           hash == ss[m] = <<"#">>
<1>0. n \in Nat /\ m \in Nat /\ n >= 1 /\ m >= 1
  OBVIOUS
<1>1. LevelsMatch(ts, ss) <=>
        /\ IF hash THEN n >= m - 1 ELSE n = m
        /\ \A k \in 1..(IF hash THEN m - 1 ELSE m) : ss[k] = <<"+">> \/ ss[k] = ts[k]
  BY Zenon DEF LevelsMatch, Fixed
<1>2. ASSUME m = 1, ss[1] = <<"#">> PROVE LevelsMatch(ts, ss)
  <2>1. hash /\ 1..(m - 1) = {} /\ n >= m - 1
    BY <1>0, <1>2
  <2> HIDE DEF hash, n, m
  <2> QED  BY <1>1, <2>1
<1>3. ASSUME m = 1, ss[1] # <<"#">> PROVE LevelsMatch(ts, ss) <=> n = 1 /\ First(ts, ss)
  <2>1. ~hash /\ 1..m = {1}
    BY <1>0, <1>3
  <2> HIDE DEF hash, n, m
  <2> QED  BY <1>1, <1>3, <2>1 DEF First
<1>4. ASSUME m >= 2, n = 1
      PROVE  LevelsMatch(ts, ss) <=> m = 2 /\ ss[2] = <<"#">> /\ First(ts, ss)
  <2>1. CASE hash
    <3>1. n >= m - 1 <=> m = 2
      <4> HIDE DEF n, m
      <4> QED  BY ONLY <1>0, <1>4
    <3>2. m = 2 => 1..(m - 1) = {1} /\ ss[2] = <<"#">>
      BY <1>0, <2>1
    <3> HIDE DEF hash, n, m
    <3> QED  BY <1>1, <2>1, <3>1, <3>2 DEF First
  <2>2. CASE ~hash
    <3>1. n # m /\ (m = 2 => ss[2] # <<"#">>)
      BY <1>0, <1>4, <2>2
    <3> HIDE DEF hash, n, m
    <3> QED  BY <1>1, <2>2, <3>1
  <2> QED  BY <2>1, <2>2
<1> QED  BY <1>2, <1>3, <1>4

\* The reference, when both have a level behind the first.
LEMMA LevelsMatchTail ==
  ASSUME NEW S, NEW ts \in Seq(Seq(S)), NEW ss \in Seq(Seq(S)),
         NEW u \in Seq(Seq(S)), NEW v \in Seq(Seq(S)), Len(u) >= 1, Len(v) >= 1,
         Len(ts) = Len(u) + 1, Len(ss) = Len(v) + 1,
         \A k \in 1..Len(u) : ts[k + 1] = u[k], \A k \in 1..Len(v) : ss[k + 1] = v[k]
  PROVE  LevelsMatch(ts, ss) <=> First(ts, ss) /\ LevelsMatch(u, v)
<1> DEFINE n == Len(u)
           m == Len(v)
           hash == v[m] = <<"#">>
           fix == IF hash THEN m - 1 ELSE m
           Equal(k) == ss[k] = <<"+">> \/ ss[k] = ts[k]
           EqualTail(k) == v[k] = <<"+">> \/ v[k] = u[k]
<1>0. n \in Nat /\ m \in Nat /\ n >= 1 /\ m >= 1
  OBVIOUS
<1>2. \A k \in 1..m : ss[k + 1] = v[k]
  OBVIOUS
<1>6. \A k \in 1..n : ts[k + 1] = u[k]
  OBVIOUS
<1>10. Len(ts) = n + 1 /\ Len(ss) = m + 1
  OBVIOUS
<1> HIDE DEF n, m
<1>11. fix \in 0..m
  BY ONLY <1>0
<1>12. ss[m + 1] = v[m]
  <2>1. m \in 1..m
    BY ONLY <1>0
  <2> QED  BY ONLY <1>2, <2>1
<1>1. LevelsMatch(u, v) <=>
        /\ IF hash THEN n >= m - 1 ELSE n = m
        /\ \A k \in 1..fix : EqualTail(k)
  BY Zenon DEF LevelsMatch, Fixed, n, m
<1>3. LevelsMatch(ts, ss) <=>
        /\ IF hash THEN n + 1 >= (m + 1) - 1 ELSE n + 1 = m + 1
        /\ \A k \in 1..(IF hash THEN (m + 1) - 1 ELSE m + 1) : Equal(k)
  BY <1>10, <1>12, Zenon DEF LevelsMatch, Fixed
<1>4. (IF hash THEN (m + 1) - 1 ELSE m + 1) = fix + 1
  BY ONLY <1>0
<1>5. (IF hash THEN n + 1 >= (m + 1) - 1 ELSE n + 1 = m + 1) <=> (IF hash THEN n >= m - 1 ELSE n = m)
  BY ONLY <1>0
<1>7. (IF hash THEN n >= m - 1 ELSE n = m) => fix <= n
  BY ONLY <1>0
<1>8. ASSUME fix <= n
      PROVE  (\A k \in 1..(fix + 1) : Equal(k)) <=> Equal(1) /\ \A k \in 1..fix : EqualTail(k)
  <2>1. \A k \in 1..fix : Equal(k + 1) <=> EqualTail(k)
    <3> SUFFICES ASSUME NEW k \in 1..fix PROVE Equal(k + 1) <=> EqualTail(k)
      OBVIOUS
    <3>1. k \in 1..m /\ k \in 1..n
      BY ONLY <1>0, <1>8, <1>11, k \in 1..fix
    <3>2. ss[k + 1] = v[k] /\ ts[k + 1] = u[k]
      BY <1>2, <1>6, <3>1
    <3> QED  BY <3>2
  <2>2. 1 \in 1..(fix + 1) /\ \A k \in 1..fix : k + 1 \in 1..(fix + 1)
    BY ONLY <1>0, <1>11
  <2>3. \A k \in 1..(fix + 1) : k # 1 => k - 1 \in 1..fix /\ (k - 1) + 1 = k
    BY ONLY <1>0, <1>11
  <2> HIDE DEF Equal, EqualTail, fix
  <2>4. ASSUME Equal(1), \A k \in 1..fix : EqualTail(k), NEW k \in 1..(fix + 1)
        PROVE  Equal(k)
    <3>1. CASE k = 1
      BY <2>4, <3>1
    <3>2. CASE k # 1
      <4>1. k - 1 \in 1..fix /\ (k - 1) + 1 = k
        BY <2>3, <3>2
      <4>2. Equal((k - 1) + 1)
        BY <2>1, <2>4, <4>1
      <4> QED  BY <4>1, <4>2
    <3> QED  BY <3>1, <3>2
  <2>5. ASSUME \A k \in 1..(fix + 1) : Equal(k)
        PROVE  Equal(1) /\ \A k \in 1..fix : EqualTail(k)
    BY <2>1, <2>2, <2>5
  <2> QED  BY <2>4, <2>5
<1>9. Equal(1) <=> First(ts, ss)
  BY DEF First
<1> HIDE DEF Equal, EqualTail, fix, hash
<1> QED  BY ONLY <1>1, <1>3, <1>4, <1>5, <1>7, <1>8, <1>9

\* The characters of the first level.
LEMMA FirstLevelIs ==
  ASSUME NEW S, NEW x \in Seq(S), NEW t \in 1..(Len(x) + 1), NEW e, e = LevelEnd(x, t)
  PROVE  LET v == LevelsFrom(x)[t][1]
         IN /\ v \in Seq(S) /\ Len(v) = e - t
            /\ \A i \in 1..(e - t) : v[i] = x[t + i - 1]
<1>1. e \in t..(Len(x) + 1)
  BY LevelEndIs
<1>2. LevelsFrom(x)[t][1] = SubSeq(x, t, e - 1)
  BY LevelsSplit
<1> QED  BY ONLY <1>1, <1>2, x \in Seq(S), t \in 1..(Len(x) + 1), LevelText

\* Two texts have the same level at two places if they agree up to its end.
LEMMA SameLevels ==
  ASSUME NEW S, NEW topic \in Seq(S), NEW sub \in Seq(S),
         NEW t \in 1..(Len(topic) + 1), NEW s \in 1..(Len(sub) + 1),
         NEW e, e = LevelEnd(topic, t), NEW f, f = LevelEnd(sub, s)
  PROVE  Same(topic, sub, t, s, e, f) <=> LevelsFrom(sub)[s][1] = LevelsFrom(topic)[t][1]
<1> DEFINE u == LevelsFrom(topic)[t][1]
           v == LevelsFrom(sub)[s][1]
<1>0. e \in t..(Len(topic) + 1) /\ f \in s..(Len(sub) + 1) /\ Len(topic) \in Nat /\ Len(sub) \in Nat
  BY LevelEndIs
<1>1. u \in Seq(S) /\ Len(u) = e - t /\ \A i \in 1..(e - t) : u[i] = topic[t + i - 1]
  BY FirstLevelIs
<1>2. v \in Seq(S) /\ Len(v) = f - s /\ \A i \in 1..(f - s) : v[i] = sub[s + i - 1]
  BY FirstLevelIs
<1> HIDE DEF u, v
<1>3. ASSUME v = u PROVE Same(topic, sub, t, s, e, f)
  <2>1. e - t = f - s
    BY <1>1, <1>2, <1>3
  <2>2. ASSUME NEW k \in s..(f - 1) PROVE sub[k] = topic[(k - s) + t]
    <3>1. (k - s) + 1 \in 1..(f - s) /\ s + ((k - s) + 1) - 1 = k /\ t + ((k - s) + 1) - 1 = (k - s) + t
      BY <1>0
    <3>2. v[(k - s) + 1] = sub[s + ((k - s) + 1) - 1]
      BY <1>2, <3>1
    <3>3. u[(k - s) + 1] = topic[t + ((k - s) + 1) - 1]
      BY <1>1, <2>1, <3>1
    <3> QED  BY <1>3, <3>1, <3>2, <3>3
  <2> QED  BY <2>1, <2>2 DEF Same
<1>4. ASSUME Same(topic, sub, t, s, e, f) PROVE v = u
  <2>1. Len(v) = Len(u)
    BY <1>1, <1>2, <1>4 DEF Same
  <2>2. ASSUME NEW i \in 1..Len(v) PROVE v[i] = u[i]
    <3>1. /\ i \in 1..(f - s) /\ i \in 1..(e - t) /\ s + i - 1 \in s..(f - 1)
          /\ ((s + i - 1) - s) + t = t + i - 1
      BY <1>0, <1>2, <1>4 DEF Same
    <3>2. v[i] = sub[s + i - 1] /\ u[i] = topic[t + i - 1]
      BY <1>1, <1>2, <3>1
    <3>3. sub[s + i - 1] = topic[((s + i - 1) - s) + t]
      BY <1>4, <3>1 DEF Same
    <3> QED  BY <3>1, <3>2, <3>3
  <2>3. v \in Seq(S) /\ u \in Seq(S)
    BY <1>1, <1>2
  <2> QED  BY ONLY <2>1, <2>2, <2>3
<1> QED  BY <1>3, <1>4 DEF u, v

-----------------------------------------------------------------------------
\* What MatchesAsMqtt asks of the levels holds of those behind the first.
LEMMA TailLevels ==
  ASSUME NEW S, NEW x \in Seq(S), NEW t \in 1..(Len(x) + 1), LevelEnd(x, t) <= Len(x)
  PROVE  LET L == LevelsFrom(x) IN
         /\ NoneEmpty(L[t]) => NoneEmpty(L[LevelEnd(x, t) + 1])
         /\ Valid(L[t]) => Valid(L[LevelEnd(x, t) + 1]) /\ L[t][1] # <<"#">>
<1> DEFINE a == LevelsFrom(x)[t]
           b == LevelsFrom(x)[LevelEnd(x, t) + 1]
<1>1. /\ a \in Seq(Seq(S)) /\ b \in Seq(Seq(S)) /\ Len(b) >= 1 /\ Len(a) = Len(b) + 1
      /\ \A k \in 1..Len(b) : a[k + 1] = b[k]
  BY LevelsSplit
<1> HIDE DEF a, b
<1>2. Len(b) \in Nat
  BY <1>1
<1> DEFINE n == Len(b)
<1>3. n \in Nat /\ n >= 1 /\ Len(a) = n + 1 /\ \A k \in 1..n : a[k + 1] = b[k]
  BY <1>1, <1>2
<1> HIDE DEF n
<1>4. \A k \in 1..n : k + 1 \in 1..(n + 1) /\ (k + 1 = n + 1 => k = n)
  BY ONLY <1>3
<1>5. NoneEmpty(a) => NoneEmpty(b)
  BY ONLY <1>3, <1>4 DEF NoneEmpty, n
<1>6. ASSUME Valid(a) PROVE Valid(b)
  <2> SUFFICES ASSUME NEW k \in 1..n
               PROVE  /\ (\E i \in 1..Len(b[k]) : b[k][i] = "+") => b[k] = <<"+">>
                      /\ (\E i \in 1..Len(b[k]) : b[k][i] = "#") => b[k] = <<"#">> /\ k = n
    BY Zenon DEF Valid, n
  <2>1. a[k + 1] = b[k] /\ k + 1 \in 1..Len(a) /\ (k + 1 = Len(a) => k = n)
    BY ONLY <1>3, <1>4, k \in 1..n
  <2>2. /\ (\E i \in 1..Len(a[k + 1]) : a[k + 1][i] = "+") => a[k + 1] = <<"+">>
        /\ (\E i \in 1..Len(a[k + 1]) : a[k + 1][i] = "#") => a[k + 1] = <<"#">> /\ k + 1 = Len(a)
    BY ONLY <1>6, <2>1, Zenon DEF Valid
  <2> QED  BY ONLY <2>1, <2>2, Zenon
<1>7. ASSUME Valid(a), a[1] = <<"#">> PROVE FALSE
  <2>1. 1 \in 1..Len(a) /\ 1 # Len(a)
    BY ONLY <1>3
  <2>2. Len(a[1]) = 1 /\ a[1][1] = "#"
    BY ONLY <1>7
  <2>3. 1 \in 1..Len(a[1])
    BY ONLY <2>2
  <2> QED  BY ONLY <1>7, <2>1, <2>2, <2>3, Zenon DEF Valid
<1> QED  BY <1>5, <1>6, <1>7 DEF a, b

\* A level that is not empty begins with a character of its own.
LEMMA StartsLevel ==
  ASSUME NEW S, NEW x \in Seq(S), NEW t \in 1..(Len(x) + 1), NoneEmpty(LevelsFrom(x)[t])
  PROVE  t <= Len(x) /\ x[t] # "/" /\ LevelEnd(x, t) > t
<1> DEFINE v == LevelsFrom(x)[t][1]
           f == LevelEnd(x, t)
<1>0. Len(x) \in Nat /\ f \in t..(Len(x) + 1)
  BY LevelEndIs
<1>1. v \in Seq(S) /\ Len(v) = f - t
  BY FirstLevelIs
<1>2. v # <<>>
  <2>1. LevelsFrom(x)[t] \in Seq(Seq(S)) /\ Len(LevelsFrom(x)[t]) >= 1
    BY LevelsSplit
  <2>2. 1 \in 1..Len(LevelsFrom(x)[t])
    BY <2>1
  <2> QED  BY <2>2 DEF NoneEmpty
<1>3. Len(v) # 0
  <2> HIDE DEF v
  <2> QED  BY <1>1, <1>2
<1>4. /\ t > Len(x) => f = t
      /\ t <= Len(x) /\ x[t] = "/" => f = t
  BY LevelEndOf
<1> HIDE DEF v, f
<1>5. f # t
  BY <1>0, <1>1, <1>3
<1> QED  BY <1>0, <1>4, <1>5 DEF f

\* A wildcard in a level is the whole level.
LEMMA WildLevel ==
  ASSUME NEW S, NEW sub \in Seq(S), NEW s \in 1..(Len(sub) + 1),
         NEW f, f = LevelEnd(sub, s), f > s, Valid(LevelsFrom(sub)[s])
  PROVE  LET L == LevelsFrom(sub)[s] IN
         /\ (\E k \in s..(f - 1) : sub[k] = "+") => L[1] = <<"+">>
         /\ (\E k \in s..(f - 1) : sub[k] = "#") => L[1] = <<"#">> /\ Len(L) = 1
         /\ L[1] = <<"+">> => sub[s] = "+" /\ f = s + 1
         /\ L[1] = <<"#">> => sub[s] = "#" /\ f = s + 1
<1> DEFINE L == LevelsFrom(sub)[s]
           v == L[1]
<1>0. Len(sub) \in Nat /\ f \in s..(Len(sub) + 1)
  BY LevelEndIs
<1>1. v \in Seq(S) /\ Len(v) = f - s /\ \A i \in 1..(f - s) : v[i] = sub[s + i - 1]
  BY FirstLevelIs
<1>2. L \in Seq(Seq(S)) /\ Len(L) >= 1
  BY LevelsSplit
<1>3. 1 \in 1..Len(L)
  <2> HIDE DEF L
  <2> QED  BY <1>2
<1>4. /\ (\E i \in 1..Len(v) : v[i] = "+") => v = <<"+">>
      /\ (\E i \in 1..Len(v) : v[i] = "#") => v = <<"#">> /\ 1 = Len(L)
  BY <1>3 DEF Valid
<1>5. /\ v = <<"#">> => Len(v) = 1 /\ v[1] = "#"
      /\ v = <<"+">> => Len(v) = 1 /\ v[1] = "+"
  <2>1. Len(<<"#">>) = 1 /\ <<"#">>[1] = "#" /\ Len(<<"+">>) = 1 /\ <<"+">>[1] = "+"
    OBVIOUS
  <2> HIDE DEF v
  <2> QED  BY ONLY <2>1, Zenon
<1> HIDE DEF v, L
<1>6. \A k \in s..(f - 1) : (k - s) + 1 \in 1..(f - s) /\ s + ((k - s) + 1) - 1 = k
  BY <1>0
<1>7. ASSUME NEW k \in s..(f - 1) PROVE \E i \in 1..Len(v) : v[i] = sub[k]
  <2>1. (k - s) + 1 \in 1..Len(v) /\ v[(k - s) + 1] = sub[k]
    BY ONLY <1>1, <1>6, k \in s..(f - 1)
  <2> QED  BY ONLY <2>1
<1>8. v[1] = sub[s]
  <2>1. 1 \in 1..(f - s) /\ s + 1 - 1 = s
    BY <1>0
  <2> QED  BY ONLY <1>1, <2>1
<1>9. Len(v) = 1 => f = s + 1
  <2>1. f - s = 1 => f = s + 1
    BY <1>0
  <2> QED  BY ONLY <1>1, <2>1, Zenon
<1>10. (\E k \in s..(f - 1) : sub[k] = "+") => v = <<"+">>
  BY ONLY <1>4, <1>7, Zenon
<1>11. (\E k \in s..(f - 1) : sub[k] = "#") => v = <<"#">> /\ Len(L) = 1
  BY ONLY <1>4, <1>7, Zenon
<1>12. /\ v = <<"#">> => sub[s] = "#" /\ f = s + 1
       /\ v = <<"+">> => sub[s] = "+" /\ f = s + 1
  BY ONLY <1>5, <1>8, <1>9, Zenon
<1> QED  BY ONLY <1>10, <1>11, <1>12, Zenon DEF v, L

\* A "#" where a level begins is the filter's last level.
LEMMA HashLevel ==
  ASSUME NEW S, NEW sub \in Seq(S), NEW s \in 1..(Len(sub) + 1),
         Valid(LevelsFrom(sub)[s]), NoneEmpty(LevelsFrom(sub)[s])
  PROVE  LET L == LevelsFrom(sub)[s] IN
         /\ sub[s] = "#" <=> L[1] = <<"#">>
         /\ sub[s] = "#" => Len(L) = 1 /\ Len(sub) = s
<1> DEFINE L == LevelsFrom(sub)[s]
           f == LevelEnd(sub, s)
<1>0. Len(sub) \in Nat /\ f \in s..(Len(sub) + 1) /\ s <= Len(sub) /\ f > s
  BY LevelEndIs, StartsLevel
<1>1. /\ (\E k \in s..(f - 1) : sub[k] = "#") => L[1] = <<"#">> /\ Len(L) = 1
      /\ L[1] = <<"#">> => sub[s] = "#" /\ f = s + 1
  BY <1>0, WildLevel
<1>2. sub[s] = "#" => L[1] = <<"#">> /\ Len(L) = 1
  <2>1. s \in s..(f - 1)
    BY <1>0
  <2> HIDE DEF f, L
  <2> QED  BY ONLY <1>1, <2>1, Zenon
<1>3. f <= Len(sub) => Len(L) # 1
  <2> SUFFICES ASSUME f <= Len(sub) PROVE Len(L) # 1
    OBVIOUS
  <2> DEFINE M == LevelsFrom(sub)[f + 1]
  <2>1. M \in Seq(Seq(S)) /\ Len(M) >= 1 /\ Len(L) = Len(M) + 1
    BY LevelsSplit
  <2> HIDE DEF M, L
  <2> QED  BY <2>1
<1> HIDE DEF f, L
<1>4. sub[s] = "#" => Len(sub) = s
  <2> SUFFICES ASSUME sub[s] = "#" PROVE Len(sub) = s
    OBVIOUS
  <2>1. ~(f <= Len(sub)) /\ f = s + 1
    BY <1>1, <1>2, <1>3
  <2> QED  BY <1>0, <2>1
<1> QED  BY ONLY <1>1, <1>2, <1>4, Zenon DEF L

\* What is left to match behind the first levels.
After(F, topic, sub, e, f) ==
  \/ e <= Len(topic) /\ f <= Len(sub) /\ F[e + 1][f + 1]
  \/ e > Len(topic) /\ f <= Len(sub) /\ sub[f + 1] = "#"
  \/ e > Len(topic) /\ f > Len(sub)

\* At the begin of two levels, the walk compares these, then what is behind.
LEMMA FirstLevel ==
  ASSUME NEW S, NEW topic \in Seq(S), NEW sub \in Seq(S), NEW F, IsMatch(F, topic, sub),
         NEW t \in 1..(Len(topic) + 1), NEW s \in 1..(Len(sub) + 1),
         NEW e, e = LevelEnd(topic, t), NEW f, f = LevelEnd(sub, s),
         Valid(LevelsFrom(sub)[s]), NoneEmpty(LevelsFrom(sub)[s]), NoneEmpty(LevelsFrom(topic)[t]),
         sub[s] # "#"
  PROVE  F[t][s] <=> First(LevelsFrom(topic)[t], LevelsFrom(sub)[s]) /\ After(F, topic, sub, e, f)
<1> DEFINE n == Len(topic)
           m == Len(sub)
           LT == LevelsFrom(topic)
           LS == LevelsFrom(sub)
<1>0. /\ n \in Nat /\ e \in t..(n + 1) /\ (e > n \/ topic[e] = "/")
      /\ m \in Nat /\ f \in s..(m + 1) /\ (f > m \/ sub[f] = "/")
  BY LevelEndIs
<1>1. t <= n /\ e > t /\ s <= m /\ f > s
  BY StartsLevel
<1>2. e <= n => e + 1 \in 1..(n + 1) /\ e + 1 <= n
  <2> SUFFICES ASSUME e <= n PROVE e + 1 \in 1..(n + 1) /\ e + 1 <= n
    OBVIOUS
  <2>1. e + 1 \in 1..(n + 1)
    BY <1>0, <1>1
  <2>2. NoneEmpty(LT[e + 1])
    BY TailLevels
  <2> QED  BY <2>1, <2>2, StartsLevel
<1>3. f <= m => /\ f + 1 \in 1..(m + 1) /\ f + 1 <= m /\ sub[f + 1] # "/"
                /\ sub[f + 1] = "#" => m = f + 1
  <2> SUFFICES ASSUME f <= m
               PROVE  /\ f + 1 \in 1..(m + 1) /\ f + 1 <= m /\ sub[f + 1] # "/"
                      /\ sub[f + 1] = "#" => m = f + 1
    OBVIOUS
  <2>1. f + 1 \in 1..(m + 1)
    BY <1>0, <1>1
  <2>2. NoneEmpty(LS[f + 1]) /\ Valid(LS[f + 1])
    BY TailLevels
  <2> QED  BY <2>1, <2>2, StartsLevel, HashLevel
<1>4. e \in 1..(n + 1) /\ f \in 1..(m + 1)
  BY <1>0
<1> DEFINE u == BehindLevel(topic, t)
           w == BehindPlus(sub, s)
<1>5. F[e][f] <=> After(F, topic, sub, e, f)
  <2>1. /\ e > n /\ f > m => F[e][f]
        /\ e <= n /\ f > m => ~F[e][f]
        /\ e > n /\ f <= m =>
             (F[e][f] <=> sub[f] = "#" \/ (m = f + 1 /\ sub[f] = "/" /\ sub[f + 1] = "#"))
        /\ e <= n /\ f <= m /\ sub[f] # "#" /\ sub[f] # "+" =>
             (F[e][f] <=> topic[e] = sub[f] /\ F[e + 1][f + 1])
    <3> HIDE DEF LT, LS
    <3> QED  BY ONLY topic \in Seq(S), sub \in Seq(S), IsMatch(F, topic, sub), <1>4, MatchStep, SMT DEF n, m
  <2> HIDE DEF n, m
  <2>2. (e <= n <=> ~(e > n)) /\ (f <= m <=> ~(f > m))
    BY ONLY <1>0
  <2>3. "/" # "#" /\ "/" # "+"
    OBVIOUS
  <2>4. After(F, topic, sub, e, f) <=>
          \/ e <= n /\ f <= m /\ F[e + 1][f + 1]
          \/ e > n /\ f <= m /\ sub[f + 1] = "#"
          \/ e > n /\ f > m
    BY ONLY Zenon DEF After, n, m
  <2> QED  BY ONLY <1>0, <1>3, <2>1, <2>2, <2>3, <2>4
<1>6. ASSUME sub[s] = "+", f = s + 1 PROVE F[t][s] <=> After(F, topic, sub, e, f)
  <2>1. F[t][s] <=> F[u][w]
    <3> HIDE DEF LT, LS
    <3> QED  BY ONLY topic \in Seq(S), sub \in Seq(S), IsMatch(F, topic, sub),
                     t \in 1..(Len(topic) + 1), s \in 1..(Len(sub) + 1), <1>1, <1>6, MatchStep, SMT
                DEF n, m, u, w
  <2>2. u = IF e <= n THEN e + 1 ELSE e
    BY DEF BehindLevel
  <2>3. w = IF f <= m THEN f + 1 ELSE f
    <3>1. s < m /\ sub[s + 1] = "/" <=> f <= m
      BY <1>0, <1>1, <1>6
    <3>2. s + 2 = f + 1
      BY <1>6
    <3> HIDE DEF m
    <3> QED  BY ONLY <1>6, <3>1, <3>2 DEF BehindPlus, w, m
  <2>4. u \in 1..(n + 1) /\ w \in 1..(m + 1)
    <3> HIDE DEF u, w, n, m
    <3> QED  BY ONLY <1>2, <1>3, <1>4, <2>2, <2>3
  <2>5. /\ u > n /\ w > m => F[u][w]
        /\ u <= n /\ w > m => ~F[u][w]
        /\ u > n /\ w <= m =>
             (F[u][w] <=> sub[w] = "#" \/ (m = w + 1 /\ sub[w] = "/" /\ sub[w + 1] = "#"))
    <3> HIDE DEF LT, LS, u, w
    <3> QED  BY ONLY topic \in Seq(S), sub \in Seq(S), IsMatch(F, topic, sub), <2>4, MatchStep, SMT DEF n, m
  <2> HIDE DEF n, m, u, w
  <2>6. After(F, topic, sub, e, f) <=>
          \/ e <= n /\ f <= m /\ F[e + 1][f + 1]
          \/ e > n /\ f <= m /\ sub[f + 1] = "#"
          \/ e > n /\ f > m
    BY ONLY Zenon DEF After, n, m
  <2>7. CASE e <= n /\ f <= m
    BY ONLY <1>0, <2>1, <2>2, <2>3, <2>6, <2>7
  <2>8. CASE e <= n /\ ~(f <= m)
    BY ONLY <1>0, <1>2, <2>1, <2>2, <2>3, <2>5, <2>6, <2>8
  <2>9. CASE ~(e <= n) /\ f <= m
    BY ONLY <1>0, <1>3, <2>1, <2>2, <2>3, <2>5, <2>6, <2>9
  <2>10. CASE ~(e <= n) /\ ~(f <= m)
    BY ONLY <1>0, <2>1, <2>2, <2>3, <2>5, <2>6, <2>10
  <2> QED  BY ONLY <2>7, <2>8, <2>9, <2>10, Zenon
<1>7. /\ (\E k \in s..(f - 1) : sub[k] = "+") => LS[s][1] = <<"+">>
      /\ (\E k \in s..(f - 1) : sub[k] = "#") => LS[s][1] = <<"#">>
      /\ LS[s][1] = <<"+">> => sub[s] = "+" /\ f = s + 1
      /\ LS[s][1] = <<"#">> => sub[s] = "#"
  BY <1>1, WildLevel
<1>8. CASE sub[s] = "+"
  <2>1. s \in s..(f - 1)
    BY <1>0, <1>1
  <2>2. LS[s][1] = <<"+">> /\ f = s + 1
    BY ONLY <1>7, <1>8, <2>1, Zenon
  <2> QED  BY <1>6, <1>8, <2>2 DEF First
<1>9. CASE sub[s] # "+"
  <2>1. Literal(sub, s, f)
    BY ONLY <1>7, <1>9, sub[s] # "#", Zenon DEF Literal
  <2>2. F[t][s] <=> Same(topic, sub, t, s, e, f) /\ F[e][f]
    BY <2>1, LiteralLevel
  <2>3. Same(topic, sub, t, s, e, f) <=> LS[s][1] = LT[t][1]
    BY SameLevels
  <2>4. First(LT[t], LS[s]) <=> LS[s][1] = LT[t][1]
    BY ONLY <1>7, <1>9, Zenon DEF First
  <2> HIDE DEF LT, LS
  <2> QED  BY ONLY <1>5, <2>2, <2>3, <2>4, Zenon DEF LT, LS
<1> QED  BY <1>8, <1>9

\* At the begin of any two levels, the walk answers what MQTT says.
LEMMA LevelsFromMatch ==
  ASSUME NEW S, NEW topic \in Seq(S), NEW sub \in Seq(S), NEW F, IsMatch(F, topic, sub)
  PROVE  \A t \in 1..(Len(topic) + 1), s \in 1..(Len(sub) + 1) :
           /\ Valid(LevelsFrom(sub)[s]) /\ NoneEmpty(LevelsFrom(sub)[s])
           /\ NoneEmpty(LevelsFrom(topic)[t])
           => (F[t][s] <=> LevelsMatch(LevelsFrom(topic)[t], LevelsFrom(sub)[s]))
<1> DEFINE n == Len(topic)
           m == Len(sub)
           LT == LevelsFrom(topic)
           LS == LevelsFrom(sub)
           D == 1..(n + 1)
           E == 1..(m + 1)
           Good(t, s) == Valid(LS[s]) /\ NoneEmpty(LS[s]) /\ NoneEmpty(LT[t])
           P == {k \in Nat : \A t \in D, s \in E :
                   m + 1 - s = k /\ Good(t, s) => (F[t][s] <=> LevelsMatch(LT[t], LS[s]))}
<1>0. n \in Nat /\ m \in Nat
  OBVIOUS
<1>1. ASSUME NEW k \in Nat, \A i \in Nat : i < k => i \in P PROVE k \in P
  <2> SUFFICES ASSUME NEW t \in D, NEW s \in E, m + 1 - s = k, Good(t, s)
               PROVE  F[t][s] <=> LevelsMatch(LT[t], LS[s])
    BY DEF P
  <2> DEFINE e == LevelEnd(topic, t)
             f == LevelEnd(sub, s)
             ts == LT[t]
             ss == LS[s]
             u == LT[e + 1]
             v == LS[f + 1]
  <2>1. /\ e \in t..(n + 1) /\ t <= n /\ e > t
        /\ f \in s..(m + 1) /\ s <= m /\ f > s
    BY LevelEndIs, StartsLevel
  <2>2. /\ ts \in Seq(Seq(S)) /\ Len(ts) >= 1 /\ (e > n => Len(ts) = 1)
        /\ e <= n => /\ e + 1 \in D /\ u \in Seq(Seq(S)) /\ Len(u) >= 1
                     /\ Len(ts) = Len(u) + 1 /\ \A i \in 1..Len(u) : ts[i + 1] = u[i]
    BY LevelsSplit
  <2>3. /\ ss \in Seq(Seq(S)) /\ Len(ss) >= 1 /\ (f > m => Len(ss) = 1)
        /\ f <= m => /\ f + 1 \in E /\ v \in Seq(Seq(S)) /\ Len(v) >= 1
                     /\ Len(ss) = Len(v) + 1 /\ \A i \in 1..Len(v) : ss[i + 1] = v[i]
    BY LevelsSplit
  <2>4. sub[s] = "#" <=> ss[1] = <<"#">>
    BY HashLevel
  <2>5. CASE sub[s] = "#"
    <3>1. Len(ss) = 1 /\ ss[1] = <<"#">>
      BY <2>4, <2>5, HashLevel
    <3>2. LevelsMatch(ts, ss)
      <4> HIDE DEF ts, ss
      <4> QED  BY ONLY <2>2, <2>3, <3>1, LevelsMatchStep
    <3>3. F[t][s]
      BY <2>1, <2>5, MatchStep
    <3> QED  BY <3>2, <3>3
  <2>6. CASE sub[s] # "#"
    <3>1. F[t][s] <=> First(ts, ss) /\ After(F, topic, sub, e, f)
      BY <2>6, FirstLevel
    <3>2. ss[1] # <<"#">>
      BY <2>4, <2>6
    <3>3. CASE e <= n /\ f <= m
      <4>1. Good(e + 1, f + 1)
        BY <3>3, TailLevels
      <4>2. F[e + 1][f + 1] <=> LevelsMatch(u, v)
        <5>1. m + 1 - (f + 1) \in Nat /\ m + 1 - (f + 1) < k
          BY <1>0, <2>1, <3>3
        <5>2. m + 1 - (f + 1) \in P
          BY <1>1, <5>1
        <5>3. e + 1 \in D /\ f + 1 \in E
          BY <2>2, <2>3, <3>3
        <5> HIDE DEF Good, n, m, LT, LS, D, E, e, f
        <5> QED  BY ONLY <4>1, <5>2, <5>3, Zenon DEF P, u, v
      <4>3. LevelsMatch(ts, ss) <=> First(ts, ss) /\ LevelsMatch(u, v)
        <5> HIDE DEF ts, ss, u, v, e, f
        <5> QED  BY ONLY <2>2, <2>3, <3>3, LevelsMatchTail
      <4>4. After(F, topic, sub, e, f) <=> F[e + 1][f + 1]
        <5>1. ~(e > n) /\ ~(f > m)
          BY <1>0, <2>1, <3>3
        <5> HIDE DEF e, f
        <5> QED  BY ONLY <3>3, <5>1, Zenon DEF After, n, m
      <4> HIDE DEF ts, ss, u, v, e, f
      <4> QED  BY ONLY <3>1, <4>2, <4>3, <4>4, Zenon DEF ts, ss
    <3>4. CASE e <= n /\ ~(f <= m)
      <4>1. Len(ss) = 1 /\ Len(ts) # 1
        <5>1. f > m
          BY <1>0, <2>1, <3>4
        <5>2. Len(u) \in Nat
          BY <2>2, <3>4
        <5> DEFINE lu == Len(u)
        <5>3. lu \in Nat /\ lu >= 1 /\ Len(ts) = lu + 1
          BY <2>2, <3>4, <5>2
        <5>4. Len(ts) # 1
          <6> HIDE DEF lu, ts
          <6> QED  BY ONLY <5>3
        <5> QED  BY <2>3, <5>1, <5>4
      <4>2. ~LevelsMatch(ts, ss)
        <5> HIDE DEF ts, ss
        <5> QED  BY ONLY <2>2, <2>3, <3>2, <4>1, LevelsMatchStep
      <4>3. ~After(F, topic, sub, e, f)
        <5>1. ~(e > n)
          BY <1>0, <2>1, <3>4
        <5> HIDE DEF e, f
        <5> QED  BY ONLY <3>4, <5>1, Zenon DEF After, n, m
      <4> HIDE DEF ts, ss, e, f
      <4> QED  BY ONLY <3>1, <4>2, <4>3, Zenon DEF ts, ss
    <3>5. CASE ~(e <= n) /\ f <= m
      <4>1. e > n
        BY <1>0, <2>1, <3>5
      <4>2. Len(ts) = 1 /\ Len(ss) >= 2 /\ (Len(ss) = 2 <=> Len(v) = 1) /\ ss[2] = v[1]
        <5>1. Len(v) \in Nat /\ 1 \in 1..Len(v)
          <6> HIDE DEF v
          <6> QED  BY ONLY <2>3, <3>5
        <5>2. ss[1 + 1] = v[1]
          BY <2>3, <3>5, <5>1
        <5> DEFINE lv == Len(v)
        <5>3. Len(ss) = lv + 1 /\ lv \in Nat /\ lv >= 1
          BY <2>3, <3>5, <5>1
        <5> HIDE DEF v, ss, ts, e, lv
        <5>4. Len(ss) >= 2 /\ (Len(ss) = 2 <=> lv = 1) /\ 1 + 1 = 2
          BY ONLY <5>3
        <5> QED  BY ONLY <2>2, <4>1, <5>2, <5>4 DEF lv
      <4>3. Good(t, f + 1)
        BY <3>5, TailLevels
      <4>4. /\ sub[f + 1] = "#" <=> v[1] = <<"#">>
            /\ sub[f + 1] = "#" => Len(v) = 1
        BY <2>3, <3>5, <4>3, HashLevel
      <4>5. LevelsMatch(ts, ss) <=> Len(ss) = 2 /\ ss[2] = <<"#">> /\ First(ts, ss)
        <5> HIDE DEF ts, ss
        <5> QED  BY ONLY <2>2, <2>3, <4>2, LevelsMatchStep
      <4>6. After(F, topic, sub, e, f) <=> sub[f + 1] = "#"
        <5>1. ~(f > m)
          BY <1>0, <2>1, <3>5
        <5> HIDE DEF e, f
        <5> QED  BY ONLY <3>5, <4>1, <5>1, Zenon DEF After, n, m
      <4> HIDE DEF ts, ss, e, f, v
      <4> QED  BY ONLY <3>1, <4>2, <4>4, <4>5, <4>6, Zenon DEF ts, ss
    <3>6. CASE ~(e <= n) /\ ~(f <= m)
      <4>1. e > n /\ f > m
        BY <1>0, <2>1, <3>6
      <4>2. Len(ts) = 1 /\ Len(ss) = 1
        BY <2>2, <2>3, <4>1
      <4>3. LevelsMatch(ts, ss) <=> First(ts, ss)
        <5> HIDE DEF ts, ss
        <5> QED  BY ONLY <2>2, <2>3, <3>2, <4>2, LevelsMatchStep
      <4>4. After(F, topic, sub, e, f)
        <5> HIDE DEF e, f
        <5> QED  BY ONLY <4>1, Zenon DEF After, n, m
      <4> HIDE DEF ts, ss, e, f
      <4> QED  BY ONLY <3>1, <4>3, <4>4, Zenon DEF ts, ss
    <3> QED  BY ONLY <3>3, <3>4, <3>5, <3>6, Zenon
  <2> QED  BY <2>5, <2>6
<1>2. \A k \in Nat : k \in P
  <2> HIDE DEF P
  <2> QED  BY ONLY <1>1, StrongInduction, Zenon
<1>3. ASSUME NEW t \in D, NEW s \in E, Good(t, s)
      PROVE  F[t][s] <=> LevelsMatch(LT[t], LS[s])
  <2>1. m + 1 - s \in Nat
    BY <1>0
  <2>2. m + 1 - s \in P
    BY <1>2, <2>1
  <2> HIDE DEF Good, LT, LS, D, E, m
  <2> QED  BY ONLY <1>3, <2>2, t \in D, s \in E DEF P
<1> QED  BY <1>3

\* topicMatchesSub() routes a report to a client whenever MQTT says that the
\* client's filter matches, and only then: for every topic and every valid
\* filter without empty levels.
THEOREM TopicsMatchAsMqtt ==
  ASSUME NEW S, NEW topic \in Seq(S), NEW sub \in Seq(S)
  PROVE  MatchesAsMqtt([topic |-> topic, sub |-> sub])
<1> DEFINE F == MatchFrom(topic, sub)
<1>0. Len(topic) \in Nat /\ Len(sub) \in Nat /\ 1 \in 1..(Len(topic) + 1) /\ 1 \in 1..(Len(sub) + 1)
  OBVIOUS
<1>1. F = [t \in 1..(Len(topic) + 1) |-> [s \in 1..(Len(sub) + 1) |-> Answer(topic, sub, t, s, F)]]
  BY AnswersExist DEF IsAnswer
<1>2. IsMatch(F, topic, sub) /\ F[1][1] \in BOOLEAN
  <2> DEFINE D == 1..(Len(topic) + 1)
             E == 1..(Len(sub) + 1)
  <2> HIDE DEF F, D, E
  <2>1. F = [t \in D |-> [s \in E |-> Answer(topic, sub, t, s, F)]]
    BY <1>1 DEF D, E
  <2>2. \A t \in D, s \in E : F[t][s] = Answer(topic, sub, t, s, F)
    BY ONLY <2>1
  <2>3. \A t \in D, s \in E : F[t][s] <=> Answer(topic, sub, t, s, F)
    BY ONLY <2>2
  <2>4. Answer(topic, sub, 1, 1, F) \in BOOLEAN
    BY ONLY Zenon DEF Answer, AtEnd
  <2>5. F[1][1] \in BOOLEAN
    BY <1>0, <2>2, <2>4 DEF D, E
  <2> QED  BY <2>3, <2>5 DEF IsMatch, D, E
<1>3. topicMatchesSub(topic, sub) = F[1][1]
  BY DEF topicMatchesSub, MatchFrom, IsAnswer, Answer
<1>4. Levels(topic) = LevelsFrom(topic)[1] /\ Levels(sub) = LevelsFrom(sub)[1]
  BY DEF Levels, LevelsFrom, IsLevels
<1> HIDE DEF F
<1>5. Valid(Levels(sub)) /\ NoneEmpty(Levels(sub)) /\ NoneEmpty(Levels(topic)) =>
        (F[1][1] <=> LevelsMatch(Levels(topic), Levels(sub)))
  BY <1>0, <1>2, <1>4, LevelsFromMatch
<1>6. LevelsMatch(Levels(topic), Levels(sub)) \in BOOLEAN
  BY Zenon DEF LevelsMatch
<1> QED  BY <1>2, <1>3, <1>5, <1>6 DEF MatchesAsMqtt
=============================================================================
