-------------------------- MODULE TlsClientProofs ---------------------------
(***************************************************************************)
(* Theorems about TlsClient, for every size of the buffers, of the records *)
(* and of the packets: both directions of a TLS connection are byte        *)
(* channels, and a handler of the bridge stays within its packet.          *)
(***************************************************************************)
EXTENDS TlsClient, DataLemmas

\* A sequence of consecutive numbers from b + 1 on.
Run(s, b) == \A i \in 1..Len(s) : s[i] = b + i

\* Two neighbours on the line: pieces of one record, or of one and the next.
Linked(p, q) == IF p.end THEN q.first = p.last + 1
                ELSE q.first = p.first /\ q.last = p.last /\ q.end

\* The line carries the bytes from b + 1 to e.
Chain(l, b, e) ==
  /\ l = <<>> => e = b
  /\ l # <<>> => /\ l[1].first = b + 1
                 /\ l[Len(l)].end /\ l[Len(l)].last = e
                 /\ \A i \in 1..Len(l) : l[i].first <= l[i].last /\ l[i].last <= e
                 /\ \A i \in 1..(Len(l) - 1) : Linked(l[i], l[i + 1])

\* What a read call may return.
Results == [bytes : Seq(Nat), line : Seq(Pieces), arrived : Nat, inLeft : Nat,
            plain : Seq(Nat), rbuf : Seq(Nat)]

\* The layers of r carry on from each other, the first one at b + 1.
InOrder(r, b, e) ==
  /\ Run(r.bytes, b)
  /\ Run(r.rbuf, b + Len(r.bytes))
  /\ Run(r.plain, b + Len(r.bytes) + Len(r.rbuf))
  /\ Chain(r.line, b + Len(r.bytes) + Len(r.rbuf) + Len(r.plain), e)

Counted(r) == r.arrived \in 0..Len(r.line) /\ r.inLeft \in 0..r.arrived

LayersInv ==
  /\ Run(got, 0) /\ Len(got) <= sent
  /\ Len(rbuf) <= RbufSize
  /\ stage # "closed" => InOrder(Unread, Len(got), sent)

-----------------------------------------------------------------------------
(***************************************************************************)
(* Sequences.                                                              *)
(***************************************************************************)
LEMMA FrontOfRun ==
  ASSUME NEW s \in Seq(Nat), NEW b \in Nat, NEW n \in Nat, Run(s, b)
  PROVE  /\ Front(s, n) \in Seq(Nat) /\ Behind(s, n) \in Seq(Nat)
         /\ Len(Front(s, n)) <= n
         /\ Len(Front(s, n)) + Len(Behind(s, n)) = Len(s)
         /\ Run(Front(s, n), b)
         /\ Run(Behind(s, n), b + Len(Front(s, n)))
         /\ Len(s) <= n => Front(s, n) = s /\ Behind(s, n) = <<>>
<1>1. CASE n < Len(s)
  <2>1. Front(s, n) = SubSeq(s, 1, n)  BY <1>1 DEF Front, Smaller
  <2>2. Front(s, n) \in Seq(Nat) /\ Len(Front(s, n)) = n
        /\ \A i \in 1..n : Front(s, n)[i] = s[i]
    BY <1>1, <2>1
  <2>3. Behind(s, n) \in Seq(Nat) /\ Len(Behind(s, n)) = Len(s) - n
        /\ \A i \in 1..(Len(s) - n) : Behind(s, n)[i] = s[n + i]
    <3>1. Behind(s, n) = SubSeq(s, n + 1, Len(s))  BY DEF Behind
    <3>2. Len(s) \in Nat /\ n + 1 \in 1..Len(s)  BY <1>1
    <3>3. \A i \in 1..(Len(s) - n) : (n + 1) + i - 1 = n + i  BY <3>2
    <3> QED  BY <3>1, <3>2, <3>3
  <2>4. Run(Front(s, n), b)
    <3>1. ASSUME NEW i \in 1..n PROVE Front(s, n)[i] = b + i
      <4>1. i \in 1..Len(s)  BY <1>1
      <4> QED  BY <2>2, <4>1 DEF Run
    <3> QED  BY <2>2, <3>1 DEF Run
  <2>5. Run(Behind(s, n), b + n)  BY <1>1, <2>3 DEF Run
  <2> QED  BY <1>1, <2>2, <2>3, <2>4, <2>5
<1>2. CASE ~(n < Len(s))
  <2>1. Front(s, n) = SubSeq(s, 1, Len(s))  BY <1>2 DEF Front, Smaller
  <2>2. Front(s, n) = s  BY <2>1
  <2>3. Behind(s, n) = <<>>  BY <1>2 DEF Behind
  <2> QED  BY <1>2, <2>2, <2>3 DEF Run
<1> QED  BY <1>1, <1>2

LEMMA Sums ==
  ASSUME NEW b \in Nat, NEW x \in Nat, NEW y \in Nat, NEW z \in Nat, x + y = z
  PROVE  b + x + y = b + z /\ x <= z /\ y <= z
OBVIOUS

LEMMA SumsOfThree ==
  ASSUME NEW b \in Nat, NEW x \in Nat, NEW y \in Nat, NEW z \in Nat, z = x + y
  PROVE  b + z + 0 = b + x + y /\ b + x + y = b + 0 + z
OBVIOUS

LEMMA LenIsNat ==
  ASSUME NEW s \in Seq(Nat)
  PROVE  Len(s) \in Nat
OBVIOUS

LEMMA RunConcat ==
  ASSUME NEW s \in Seq(Nat), NEW t \in Seq(Nat), NEW b \in Nat,
         Run(s, b), Run(t, b + Len(s))
  PROVE  s \o t \in Seq(Nat) /\ Run(s \o t, b) /\ Len(s \o t) = Len(s) + Len(t)
<1>1. s \o t \in Seq(Nat) /\ Len(s \o t) = Len(s) + Len(t)
  OBVIOUS
<1>2. ASSUME NEW i \in 1..(Len(s) + Len(t)) PROVE (s \o t)[i] = b + i
  <2>1. CASE i <= Len(s)  BY <2>1 DEF Run
  <2>2. CASE i > Len(s)
    <3>1. i - Len(s) \in 1..Len(t)  BY <2>2
    <3>2. (s \o t)[i] = t[i - Len(s)]  BY <2>2
    <3> QED  BY <3>1, <3>2 DEF Run
  <2> QED  BY <2>1, <2>2
<1> QED  BY <1>1, <1>2 DEF Run

-----------------------------------------------------------------------------
(***************************************************************************)
(* The read calls.                                                         *)
(***************************************************************************)
\* A record's bytes, and the rest of the line behind its pieces.
LEMMA NextRecord ==
  ASSUME line \in Seq(Pieces), arrived \in 0..Len(line), sent \in Nat,
         NEW b \in Nat, Chain(line, b, sent), RecordThere
  PROVE  LET text == RecordBytes(line[1])  rest == Behind(line, PiecesOfRecord)
         IN /\ text \in Seq(Nat) /\ Run(text, b)
            /\ rest \in Seq(Pieces) /\ Len(rest) = Len(line) - PiecesOfRecord
            /\ Chain(rest, b + Len(text), sent)
            /\ PiecesOfRecord \in 1..arrived
<1> DEFINE k == PiecesOfRecord
           text == RecordBytes(line[1])
           rest == Behind(line, k)
<1>1. line # <<>> /\ k \in {1, 2} /\ k <= arrived /\ Len(line) >= k
  BY DEF RecordThere, PiecesOfRecord
<1>2. line[1] \in Pieces /\ line[1].first = b + 1 /\ line[1].first <= line[1].last
      /\ line[1].last \in Nat
  <2>1. 1 \in 1..Len(line) /\ line[1] \in Pieces  BY <1>1
  <2>2. line[1].first = b + 1 /\ line[1].first <= line[1].last
    BY <1>1, <2>1 DEF Chain
  <2> QED  BY <2>1, <2>2 DEF Pieces
<1>3. text \in Seq(Nat) /\ Len(text) = line[1].last - b /\ Run(text, b)
  <2>1. text = [i \in 1..(line[1].last - b) |-> b + i]
    <3>1. /\ line[1].last - line[1].first + 1 = line[1].last - b
          /\ \A i \in 1..(line[1].last - b) : line[1].first + i - 1 = b + i
      BY <1>2
    <3> QED  BY <3>1 DEF RecordBytes
  <2>2. line[1].last - b \in Nat /\ \A i \in 1..(line[1].last - b) : b + i \in Nat
    BY <1>2
  <2> DEFINE n == line[1].last - b
  <2> HIDE DEF text, n
  <2>3. text = [i \in 1..n |-> b + i] /\ n \in Nat /\ \A i \in 1..n : b + i \in Nat
    BY <2>1, <2>2 DEF n
  <2>4. text \in Seq(Nat) /\ Len(text) = n /\ \A i \in 1..n : text[i] = b + i
    BY <2>3
  <2> QED  BY <2>4 DEF Run, n
<1>4. rest \in Seq(Pieces) /\ Len(rest) = Len(line) - k
      /\ \A i \in 1..(Len(line) - k) : rest[i] = line[k + i]
  <2>1. rest = SubSeq(line, k + 1, Len(line))  BY DEF Behind
  <2> HIDE DEF rest, k
  <2> QED  BY <1>1, <2>1
<1>5. line[k].end /\ line[k].last = line[1].last
  <2>1. CASE line[1].end  BY <2>1 DEF PiecesOfRecord
  <2>2. CASE ~line[1].end
    <3>1. k = 2 /\ 1 \in 1..(Len(line) - 1)  BY <1>1, <2>2 DEF PiecesOfRecord
    <3>2. Linked(line[1], line[1 + 1])  BY <1>1, <3>1 DEF Chain
    <3> QED  BY <2>2, <3>1, <3>2 DEF Linked
  <2> QED  BY <2>1, <2>2
<1>6. Chain(rest, line[1].last, sent)
  <2>1. CASE Len(line) = k
    <3>1. rest = <<>> /\ line[Len(line)].last = sent  BY <1>1, <1>4, <2>1 DEF Chain
    <3> QED  BY <1>5, <2>1, <3>1 DEF Chain
  <2>2. CASE Len(line) # k
    <3>1. Len(rest) \in Nat /\ Len(rest) > 0 /\ rest # <<>>  BY <1>1, <1>4, <2>2
    <3>2. rest[1] = line[k + 1] /\ rest[Len(rest)] = line[Len(line)]
      BY <1>1, <1>4, <3>1
    <3>3. Linked(line[k], line[k + 1])
      <4>1. k \in 1..(Len(line) - 1)  BY <1>1, <2>2
      <4> QED  BY <1>1, <4>1 DEF Chain
    <3>4. rest[1].first = line[1].last + 1  BY <1>5, <3>2, <3>3 DEF Linked
    <3>5. rest[Len(rest)].end /\ rest[Len(rest)].last = sent
      BY <1>1, <3>2 DEF Chain
    <3>6. ASSUME NEW i \in 1..Len(rest)
          PROVE  rest[i].first <= rest[i].last /\ rest[i].last <= sent
      <4>1. k + i \in 1..Len(line) /\ rest[i] = line[k + i]  BY <1>1, <1>4
      <4> QED  BY <1>1, <4>1 DEF Chain
    <3>7. ASSUME NEW i \in 1..(Len(rest) - 1) PROVE Linked(rest[i], rest[i + 1])
      <4>1. /\ k + i \in 1..(Len(line) - 1)
            /\ rest[i] = line[k + i] /\ rest[i + 1] = line[(k + i) + 1]
        BY <1>1, <1>4
      <4>2. Linked(line[k + i], line[(k + i) + 1])  BY <1>1, <4>1 DEF Chain
      <4> QED  BY <4>1, <4>2
    <3> QED  BY <3>1, <3>4, <3>5, <3>6, <3>7 DEF Chain
  <2> QED  BY <2>1, <2>2
<1>7. b + Len(text) = line[1].last  BY <1>2, <1>3
<1> QED  BY <1>1, <1>3, <1>4, <1>6, <1>7

\* mbedtls_ssl_read() carries on where the bytes that were read end.
LEMMA SslReadInOrder ==
  ASSUME StreamTypeOK, NEW b \in Nat, NEW size \in Nat \ {0},
         Run(plain, b), Chain(line, b + Len(plain), sent)
  PROVE  LET r == mbedtls_ssl_read(size)
         IN /\ r \in Results /\ Counted(r) /\ r.rbuf = rbuf
            /\ Len(r.bytes) <= size
            /\ Run(r.bytes, b) /\ Run(r.plain, b + Len(r.bytes))
            /\ Chain(r.line, b + Len(r.bytes) + Len(r.plain), sent)
<1> DEFINE r == mbedtls_ssl_read(size)
<1>0. /\ plain \in Seq(Nat) /\ rbuf \in Seq(Nat) /\ line \in Seq(Pieces) /\ sent \in Nat
      /\ arrived \in 0..Len(line) /\ inLeft \in 0..arrived
  BY DEF StreamTypeOK
<1>1. CASE plain # <<>>
  <2> DEFINE f == Front(plain, size)  g == Behind(plain, size)
  <2>1. r = [bytes |-> f, line |-> line, arrived |-> arrived, inLeft |-> inLeft,
             plain |-> g, rbuf |-> rbuf]
    BY <1>1 DEF mbedtls_ssl_read, Unread
  <2>2. /\ f \in Seq(Nat) /\ g \in Seq(Nat) /\ Len(f) <= size
        /\ Len(f) + Len(g) = Len(plain) /\ Run(f, b) /\ Run(g, b + Len(f))
    BY <1>0, FrontOfRun
  <2> HIDE DEF f, g, r
  <2>3. b + Len(f) + Len(g) = b + Len(plain)
    <3>1. Len(f) \in Nat /\ Len(g) \in Nat /\ Len(plain) \in Nat
      BY <1>0, <2>2, LenIsNat
    <3>2. Len(f) + Len(g) = Len(plain)  BY <2>2
    <3> QED  BY <3>1, <3>2, Sums
  <2>4. r \in Results /\ Counted(r)  BY <1>0, <2>1, <2>2 DEF Results, Counted
  <2> QED  BY <2>1, <2>2, <2>3, <2>4 DEF r
<1>2. CASE plain = <<>> /\ RecordThere
  <2> DEFINE k == PiecesOfRecord  text == RecordBytes(line[1])
             f == Front(text, size)  g == Behind(text, size)  l == Behind(line, k)
  <2>1. r = [bytes |-> f, line |-> l, arrived |-> arrived - k, inLeft |-> 0,
             plain |-> g, rbuf |-> rbuf]
    BY <1>2 DEF mbedtls_ssl_read, Unread
  <2>2. Len(plain) = 0 /\ b + Len(plain) = b  BY <1>2
  <2>3. /\ text \in Seq(Nat) /\ Run(text, b)
        /\ l \in Seq(Pieces) /\ Len(l) = Len(line) - k
        /\ Chain(l, b + Len(text), sent) /\ k \in 1..arrived
    BY <1>0, <1>2, <2>2, NextRecord
  <2> HIDE DEF k, text, l
  <2>4. /\ f \in Seq(Nat) /\ g \in Seq(Nat) /\ Len(f) <= size
        /\ Len(f) + Len(g) = Len(text) /\ Run(f, b) /\ Run(g, b + Len(f))
    BY <2>3, FrontOfRun
  <2> HIDE DEF f, g, r
  <2>5. b + Len(f) + Len(g) = b + Len(text)
    <3>1. Len(f) \in Nat /\ Len(g) \in Nat /\ Len(text) \in Nat
      BY <2>3, <2>4, LenIsNat
    <3>2. Len(f) + Len(g) = Len(text)  BY <2>4
    <3> QED  BY <3>1, <3>2, Sums
  <2>6. r \in Results /\ Counted(r)
    BY <1>0, <2>1, <2>3, <2>4 DEF Results, Counted
  <2> QED  BY <2>1, <2>3, <2>4, <2>5, <2>6 DEF r
<1>3. CASE plain = <<>> /\ ~RecordThere
  <2>1. r = [bytes |-> <<>>, line |-> line, arrived |-> arrived, inLeft |-> arrived,
             plain |-> plain, rbuf |-> rbuf]
    BY <1>3 DEF mbedtls_ssl_read, Unread
  <2> HIDE DEF r
  <2>2. b + 0 = b /\ b + 0 + Len(plain) = b + Len(plain)  BY <1>0
  <2>3. r \in Results /\ Counted(r)  BY <1>0, <2>1 DEF Results, Counted
  <2>4. Run(r.bytes, b)  BY <2>1 DEF Run
  <2> QED  BY <2>1, <2>2, <2>3, <2>4 DEF r
<1> QED  BY <1>1, <1>2, <1>3

\* So does read(buf, size), behind what _rbuf holds.
LEMMA ReadBufferInOrder ==
  ASSUME StreamTypeOK, NEW b \in Nat, NEW size \in Nat \ {0}, InOrder(Unread, b, sent)
  PROVE  LET r == ReadBuffer(size)
         IN /\ r \in Results /\ Counted(r) /\ InOrder(r, b, sent)
            /\ Len(r.bytes) <= size /\ Len(r.rbuf) <= Len(rbuf)
            /\ (Len(rbuf) <= size => r.rbuf = <<>> \/ r.bytes = <<>>)
<1> DEFINE kept == Front(rbuf, size)  left == Behind(rbuf, size)
           rest == mbedtls_ssl_read(size - Len(kept))
           r == ReadBuffer(size)
<1>0. /\ plain \in Seq(Nat) /\ rbuf \in Seq(Nat) /\ line \in Seq(Pieces) /\ sent \in Nat
      /\ arrived \in 0..Len(line) /\ inLeft \in 0..arrived
  BY DEF StreamTypeOK
<1>1. Run(rbuf, b) /\ Run(plain, b + Len(rbuf)) /\ Chain(line, b + Len(rbuf) + Len(plain), sent)
  <2>1. b + 0 = b  OBVIOUS
  <2> QED  BY <2>1 DEF InOrder, Unread
<1>2. /\ kept \in Seq(Nat) /\ left \in Seq(Nat) /\ Len(kept) <= size
      /\ Len(kept) + Len(left) = Len(rbuf) /\ Run(kept, b) /\ Run(left, b + Len(kept))
      /\ (Len(rbuf) <= size => kept = rbuf /\ left = <<>>)
  BY <1>0, <1>1, FrontOfRun
<1>3. CASE ~ok \/ stage # "done"
  <2>1. r = Unread  BY <1>3 DEF ReadBuffer
  <2>2. Unread \in Results /\ Counted(Unread)
    BY <1>0 DEF Unread, Results, Counted
  <2>3. Len(Unread.bytes) = 0 /\ Unread.rbuf = rbuf /\ Unread.bytes = <<>>  BY DEF Unread
  <2>4. Len(Unread.rbuf) <= Len(rbuf)  BY <1>0, <2>3
  <2> QED  BY <2>1, <2>2, <2>3, <2>4
<1>4. CASE ok /\ stage = "done" /\ (Len(kept) = size \/ NoData)
  <2>1. r = [bytes |-> kept, line |-> line, arrived |-> arrived, inLeft |-> inLeft,
             plain |-> plain, rbuf |-> left]
    BY <1>4 DEF ReadBuffer, Unread
  <2> HIDE DEF r, kept, left
  <2>2. b + Len(kept) + Len(left) = b + Len(rbuf) /\ Len(left) <= Len(rbuf)
    <3>1. Len(kept) \in Nat /\ Len(left) \in Nat /\ Len(rbuf) \in Nat
      BY <1>0, <1>2, LenIsNat
    <3>2. Len(kept) + Len(left) = Len(rbuf)  BY <1>2
    <3> QED  BY <3>1, <3>2, Sums
  <2>3. r \in Results /\ Counted(r)  BY <1>0, <1>2, <2>1 DEF Results, Counted
  <2>4. InOrder(r, b, sent)  BY <1>1, <1>2, <2>1, <2>2 DEF InOrder
  <2> QED  BY <1>2, <2>1, <2>2, <2>3, <2>4 DEF r
<1>5. CASE ok /\ stage = "done" /\ Len(kept) # size /\ ~NoData
  <2>1. r = [rest EXCEPT !.bytes = kept \o rest.bytes, !.rbuf = left]
    BY <1>5 DEF ReadBuffer
  <2>2. kept = rbuf /\ left = <<>> /\ size - Len(kept) \in Nat \ {0}
    <3>1. Len(rbuf) <= size
      <4>1. SUFFICES ASSUME Len(rbuf) > size PROVE FALSE  BY <1>0
      <4>2. Len(kept) = size  BY <1>0, <4>1 DEF Front, Smaller
      <4> QED  BY <1>5, <4>2
    <3>2. kept = rbuf /\ left = <<>>  BY <1>2, <3>1
    <3>3. Len(rbuf) \in Nat /\ Len(rbuf) # size  BY <1>0, <1>5, <3>2, LenIsNat
    <3>4. size - Len(rbuf) \in Nat \ {0}  BY <3>1, <3>3
    <3> HIDE DEF kept, left
    <3> QED  BY <3>2, <3>4
  <2>3. /\ rest \in Results /\ Counted(rest) /\ rest.rbuf = rbuf
        /\ Len(rest.bytes) <= size - Len(kept)
        /\ Run(rest.bytes, b + Len(rbuf))
        /\ Run(rest.plain, b + Len(rbuf) + Len(rest.bytes))
        /\ Chain(rest.line, b + Len(rbuf) + Len(rest.bytes) + Len(rest.plain), sent)
    <3>1. b + Len(rbuf) \in Nat  BY <1>0
    <3> QED  BY <1>1, <2>2, <3>1, SslReadInOrder
  <2> HIDE DEF rest, r, kept, left
  <2>4. rest.bytes \in Seq(Nat) /\ rest.plain \in Seq(Nat)  BY <2>3 DEF Results
  <2>5. /\ kept \o rest.bytes \in Seq(Nat) /\ Run(kept \o rest.bytes, b)
        /\ Len(kept \o rest.bytes) = Len(rbuf) + Len(rest.bytes)
    BY <1>0, <1>1, <2>2, <2>3, <2>4, RunConcat
  <2>6. r = [bytes |-> kept \o rest.bytes, line |-> rest.line, arrived |-> rest.arrived,
             inLeft |-> rest.inLeft, plain |-> rest.plain, rbuf |-> <<>>]
    BY <2>1, <2>2, <2>3 DEF Results
  <2>7. r \in Results /\ Counted(r)  BY <2>3, <2>5, <2>6 DEF Results, Counted
  <2>8. Len(<<>>) = 0 /\ b + Len(r.bytes) + 0 = b + Len(rbuf) + Len(rest.bytes)
    <3>1. Len(rbuf) \in Nat /\ Len(rest.bytes) \in Nat  BY <1>0, <2>4, LenIsNat
    <3>2. Len(r.bytes) = Len(rbuf) + Len(rest.bytes)  BY <2>5, <2>6
    <3>3. b + Len(r.bytes) + 0 = b + Len(rbuf) + Len(rest.bytes)
      <4> DEFINE m == Len(rbuf)  n == Len(rest.bytes)  k == Len(r.bytes)
      <4>1. m \in Nat /\ n \in Nat /\ k = m + n  BY <3>1, <3>2
      <4> HIDE DEF m, n, k
      <4>2. k \in Nat  BY <4>1
      <4>3. b + k + 0 = b + m + n  BY <4>1, <4>2
      <4> QED  BY <4>3 DEF m, n, k
    <3> QED  BY <3>3
  <2>9. InOrder(r, b, sent)
    <3>1. Run(<<>>, b + Len(r.bytes))  BY DEF Run
    <3> QED  BY <2>3, <2>5, <2>6, <2>8, <3>1 DEF InOrder
  <2>10. Len(r.bytes) <= size /\ Len(r.rbuf) <= Len(rbuf) /\ r.rbuf = <<>>
    <3>1. Len(rbuf) \in Nat /\ Len(rest.bytes) \in Nat  BY <1>0, <2>4, LenIsNat
    <3>2. Len(rest.bytes) <= size - Len(rbuf)  BY <2>2, <2>3
    <3>3. Len(r.bytes) = Len(rbuf) + Len(rest.bytes)  BY <2>5, <2>6
    <3>4. r.rbuf = <<>> /\ Len(r.rbuf) = 0  BY <2>6
    <3> QED  BY <3>1, <3>2, <3>3, <3>4
  <2> QED  BY <2>7, <2>9, <2>10 DEF r
<1> QED  BY <1>3, <1>4, <1>5

\* So does read(), which fills _rbuf when it is empty.
LEMMA ReadOneInOrder ==
  ASSUME StreamTypeOK, NEW b \in Nat, InOrder(Unread, b, sent), Len(rbuf) <= RbufSize
  PROVE  LET r == ReadOne
         IN /\ r \in Results /\ Counted(r) /\ InOrder(r, b, sent)
            /\ Len(r.rbuf) <= RbufSize /\ Len(r.bytes) <= 1
<1> DEFINE fill == ReadBuffer(RbufSize)
           filled == IF rbuf # <<>> THEN Unread
                     ELSE [fill EXCEPT !.rbuf = fill.bytes, !.bytes = <<>>]
           r == ReadOne
<1>0. /\ plain \in Seq(Nat) /\ rbuf \in Seq(Nat) /\ line \in Seq(Pieces) /\ sent \in Nat
      /\ arrived \in 0..Len(line) /\ inLeft \in 0..arrived
  BY DEF StreamTypeOK
<1>1. /\ filled \in Results /\ Counted(filled) /\ InOrder(filled, b, sent)
      /\ Len(filled.rbuf) <= RbufSize /\ filled.bytes = <<>>
  <2>1. CASE rbuf # <<>>
    <3>1. filled = Unread  BY <2>1
    <3>2. Unread \in Results /\ Counted(Unread)
      BY <1>0 DEF Unread, Results, Counted
    <3>3. Unread.rbuf = rbuf /\ Unread.bytes = <<>>  BY DEF Unread
    <3> QED  BY <3>1, <3>2, <3>3
  <2>2. CASE rbuf = <<>>
    <3>1. /\ fill \in Results /\ Counted(fill) /\ InOrder(fill, b, sent)
          /\ Len(fill.bytes) <= RbufSize /\ Len(fill.rbuf) <= 0
      BY <1>0, <2>2, ReadBufferInOrder, SizesAssumption
    <3> HIDE DEF fill
    <3>2. fill.rbuf = <<>>  BY <3>1 DEF Results
    <3>3. filled = [bytes |-> <<>>, line |-> fill.line, arrived |-> fill.arrived,
                    inLeft |-> fill.inLeft, plain |-> fill.plain, rbuf |-> fill.bytes]
      BY <2>2, <3>1 DEF Results
    <3> HIDE DEF filled
    <3>4. filled \in Results /\ Counted(filled)
      BY <3>1, <3>3 DEF Results, Counted
    <3>5. Len(fill.bytes) \in Nat /\ b + 0 = b
      BY <3>1, LenIsNat DEF Results
    <3>6. /\ Run(fill.bytes, b)
          /\ Run(fill.plain, b + Len(fill.bytes) + 0)
          /\ Chain(fill.line, b + Len(fill.bytes) + 0 + Len(fill.plain), sent)
      <4>1. Len(fill.rbuf) = 0  BY <3>2
      <4> QED  BY <3>1, <4>1 DEF InOrder
    <3>7. Run(<<>>, b)  BY DEF Run
    <3>8. b + Len(fill.bytes) + 0 = b + 0 + Len(fill.bytes)
      BY ONLY <3>5, b \in Nat
    <3>9. InOrder(filled, b, sent)
      <4>1. /\ filled.bytes = <<>> /\ Len(filled.bytes) = 0 /\ filled.rbuf = fill.bytes
            /\ filled.plain = fill.plain /\ filled.line = fill.line
        BY <3>3
      <4> QED  BY <3>5, <3>6, <3>7, <3>8, <4>1 DEF InOrder
    <3> QED  BY <3>1, <3>3, <3>4, <3>9
  <2> QED  BY <2>1, <2>2
<1>2. r = IF filled.rbuf = <<>> THEN filled
          ELSE [filled EXCEPT !.bytes = <<Head(filled.rbuf)>>, !.rbuf = Tail(filled.rbuf)]
  BY DEF ReadOne
<1> HIDE DEF filled, r
<1>3. CASE filled.rbuf = <<>>
  <2>1. r = filled  BY <1>2, <1>3
  <2>2. Len(filled.bytes) = 0  BY <1>1
  <2> QED  BY <1>1, <2>1, <2>2 DEF r
<1>4. CASE filled.rbuf # <<>>
  <2> DEFINE h == <<Head(filled.rbuf)>>  t == Tail(filled.rbuf)
  <2>1. filled.rbuf \in Seq(Nat) /\ filled.plain \in Seq(Nat)  BY <1>1 DEF Results
  <2>2. r = [bytes |-> h, line |-> filled.line, arrived |-> filled.arrived,
             inLeft |-> filled.inLeft, plain |-> filled.plain, rbuf |-> t]
    BY <1>1, <1>2, <1>4 DEF Results
  <2>3. /\ h \in Seq(Nat) /\ t \in Seq(Nat) /\ Len(h) = 1
        /\ Len(t) \in Nat /\ 1 + Len(t) = Len(filled.rbuf)
        /\ h[1] = filled.rbuf[1]
        /\ \A i \in 1..Len(t) : t[i] = filled.rbuf[i + 1]
    BY <1>4, <2>1
  <2>4. Run(filled.rbuf, b) /\ Run(filled.plain, b + 0 + Len(filled.rbuf))
        /\ Chain(filled.line, b + 0 + Len(filled.rbuf) + Len(filled.plain), sent)
    <3>1. Len(filled.bytes) = 0 /\ b + 0 = b  BY <1>1
    <3> QED  BY <1>1, <3>1 DEF InOrder
  <2> HIDE DEF h, t
  <2>5. Run(h, b)
    <3>1. 1 \in 1..Len(filled.rbuf)  BY <2>3
    <3>2. h[1] = b + 1  BY <2>3, <2>4, <3>1 DEF Run
    <3> QED  BY <2>3, <3>2 DEF Run
  <2>6. Run(t, b + 1)
    <3>1. ASSUME NEW i \in 1..Len(t) PROVE t[i] = b + 1 + i
      <4>1. i + 1 \in 1..Len(filled.rbuf)  BY <2>3
      <4>2. filled.rbuf[i + 1] = b + (i + 1)  BY <2>4, <4>1 DEF Run
      <4> QED  BY <2>3, <4>2
    <3> QED  BY <3>1 DEF Run
  <2>7. b + 1 + Len(t) = b + 0 + Len(filled.rbuf)
    <3>1. Len(filled.rbuf) \in Nat /\ Len(filled.rbuf) = 1 + Len(t)
      BY <2>1, <2>3, LenIsNat
    <3> QED  BY <2>3, <3>1, SumsOfThree
  <2>8. r \in Results /\ Counted(r)  BY <1>1, <2>2, <2>3 DEF Results, Counted
  <2>9. InOrder(r, b, sent)
    <3>1. r.bytes = h /\ r.rbuf = t /\ r.plain = filled.plain /\ r.line = filled.line
      BY <2>2
    <3> QED  BY <2>3, <2>4, <2>5, <2>6, <2>7, <3>1 DEF InOrder
  <2>10. Len(r.rbuf) <= RbufSize /\ Len(r.bytes) <= 1
    <3>1. Len(t) <= RbufSize  BY <1>1, <2>3, SizesAssumption
    <3>2. Len(h) <= 1  BY <2>3
    <3>3. r.bytes = h /\ r.rbuf = t  BY <2>2
    <3> QED  BY <3>1, <3>2, <3>3
  <2> QED  BY <2>8, <2>9, <2>10 DEF r
<1> QED  BY <1>3, <1>4 DEF r

\* The handlers' bytes follow on from those before.
LEMMA GotMore ==
  ASSUME NEW r \in Results, InOrder(r, Len(got), sent), Run(got, 0), got \in Seq(Nat),
         sent \in Nat
  PROVE  /\ got \o r.bytes \in Seq(Nat) /\ Run(got \o r.bytes, 0)
         /\ Len(got \o r.bytes) = Len(got) + Len(r.bytes)
         /\ Len(got) + Len(r.bytes) <= sent
<1>1. Len(got) \in Nat /\ 0 + Len(got) = Len(got)  BY LenIsNat
<1>2. r.bytes \in Seq(Nat) /\ r.rbuf \in Seq(Nat) /\ r.plain \in Seq(Nat)
      /\ r.line \in Seq(Pieces)
  BY DEF Results
<1>3. Run(r.bytes, 0 + Len(got))  BY <1>1 DEF InOrder
<1>4. Run(got \o r.bytes, 0) /\ got \o r.bytes \in Seq(Nat)
      /\ Len(got \o r.bytes) = Len(got) + Len(r.bytes)
  BY <1>2, <1>3, RunConcat
<1> DEFINE b == Len(got) + Len(r.bytes) + Len(r.rbuf) + Len(r.plain)
<1>5. Chain(r.line, b, sent)  BY DEF InOrder
<1>6. b \in Nat /\ Len(got) + Len(r.bytes) <= b
  <2> DEFINE w == Len(got)  x == Len(r.bytes)  y == Len(r.rbuf)  z == Len(r.plain)
  <2>1. w \in Nat /\ x \in Nat /\ y \in Nat /\ z \in Nat  BY <1>1, <1>2, LenIsNat
  <2> HIDE DEF w, x, y, z
  <2>2. w + x + y + z \in Nat /\ w + x <= w + x + y + z  BY <2>1
  <2> QED  BY <2>2 DEF w, x, y, z
<1>7. b <= sent
  <2> HIDE DEF b
  <2>1. CASE r.line = <<>>  BY <1>5, <1>6, <2>1 DEF Chain
  <2>2. CASE r.line # <<>>
    <3>1. 1 \in 1..Len(r.line) /\ r.line[1] \in Pieces  BY <1>2, <2>2
    <3>2. /\ r.line[1].first = b + 1 /\ r.line[1].first <= r.line[1].last
          /\ r.line[1].last <= sent /\ r.line[1].last \in Nat
      BY <1>5, <2>2, <3>1 DEF Chain, Pieces
    <3> QED  BY <1>6, <3>2
  <2> QED  BY <2>1, <2>2
<1>8. Len(got) + Len(r.bytes) <= sent
  <2> DEFINE w == Len(got) + Len(r.bytes)
  <2>1. w \in Nat  BY <1>1, <1>2, LenIsNat
  <2> HIDE DEF w, b
  <2>2. w <= b  BY <1>6 DEF w
  <2>3. w <= sent  BY <1>6, <1>7, <2>1, <2>2
  <2> QED  BY <2>3 DEF w
<1> QED  BY <1>4, <1>8

\* A call of a handler keeps the layers in order.
LEMMA HasReadKeeps ==
  ASSUME StreamTypeOK, LayersInv, stage # "closed",
         NEW r \in Results, Counted(r), InOrder(r, Len(got), sent), Len(r.rbuf) <= RbufSize,
         HasRead(r)
  PROVE  StreamTypeOK' /\ LayersInv' /\ sent' = sent
         /\ Len(got) <= Len(got') /\ Len(got') <= sent
<1>0. /\ r.bytes \in Seq(Nat) /\ r.rbuf \in Seq(Nat) /\ r.plain \in Seq(Nat)
      /\ r.line \in Seq(Pieces) /\ got \in Seq(Nat) /\ sent \in Nat
  BY DEF Results, StreamTypeOK
<1>1. /\ stage' = stage /\ ok' = ok /\ open' = open /\ sent' = sent
      /\ hello' = hello /\ fed' = fed /\ heard' = heard /\ said' = said
      /\ line' = r.line /\ arrived' = r.arrived /\ inLeft' = r.inLeft
      /\ plain' = r.plain /\ rbuf' = r.rbuf /\ got' = got \o r.bytes
  BY DEF HasRead, Leave, helloVars
<1>2. /\ got \o r.bytes \in Seq(Nat) /\ Run(got \o r.bytes, 0)
      /\ Len(got \o r.bytes) = Len(got) + Len(r.bytes)
      /\ Len(got) + Len(r.bytes) <= sent
  BY <1>0, GotMore DEF LayersInv
<1>3. StreamTypeOK'
  <2>1. arrived' \in 0..Len(line') /\ inLeft' \in 0..arrived'
    BY <1>1 DEF Counted
  <2>2. got' \in Seq(Nat) /\ line' \in Seq(Pieces) /\ plain' \in Seq(Nat)
        /\ rbuf' \in Seq(Nat)
    BY <1>0, <1>1, <1>2
  <2> QED  BY <1>1, <2>1, <2>2 DEF StreamTypeOK
<1>4. Len(got') = Len(got) + Len(r.bytes) /\ Len(got') <= sent
  BY <1>1, <1>2
<1>5. InOrder(Unread, Len(got), sent)'
  <2>1. /\ Unread'.bytes = <<>> /\ Unread'.rbuf = r.rbuf /\ Unread'.plain = r.plain
        /\ Unread'.line = r.line /\ Len(Unread'.bytes) = 0
    BY <1>1 DEF Unread
  <2>2. Len(got') \in Nat /\ Len(got') + 0 = Len(got')
    <3>1. got' \in Seq(Nat)  BY <1>1, <1>2
    <3> QED  BY <3>1, LenIsNat
  <2>3. Run(<<>>, Len(got'))  BY DEF Run
  <2>4. /\ Run(r.rbuf, Len(got'))
        /\ Run(r.plain, Len(got') + Len(r.rbuf))
        /\ Chain(r.line, Len(got') + Len(r.rbuf) + Len(r.plain), sent)
    BY <1>4 DEF InOrder
  <2>5. InOrder(Unread', Len(got'), sent)  BY <2>1, <2>2, <2>3, <2>4 DEF InOrder
  <2> QED  BY <1>1, <2>5
<1>6. LayersInv'
  <2>1. Run(got, 0)'  BY <1>1, <1>2 DEF Run
  <2>2. (Len(got) <= sent)'  BY <1>1, <1>4
  <2>3. (Len(rbuf) <= RbufSize)'  BY <1>1
  <2> QED  BY <1>5, <2>1, <2>2, <2>3 DEF LayersInv
<1>7. Len(got) <= Len(got')
  <2>1. Len(got) \in Nat /\ Len(r.bytes) \in Nat  BY <1>0, LenIsNat
  <2> DEFINE w == Len(got)  x == Len(r.bytes)
  <2>2. w \in Nat /\ x \in Nat  BY <2>1
  <2> HIDE DEF w, x
  <2>3. w <= w + x  BY <2>2
  <2> QED  BY <1>4, <2>3 DEF w, x
<1> QED  BY <1>1, <1>3, <1>4, <1>6, <1>7

-----------------------------------------------------------------------------
(***************************************************************************)
(* The other steps of the connection.                                      *)
(***************************************************************************)
LEMMA SameLayers ==
  ASSUME LayersInv, UNCHANGED <<line, plain, rbuf, got, sent>>,
         stage' # "closed" => stage # "closed"
  PROVE  LayersInv'
<1>1. stage' # "closed" => InOrder(Unread', Len(got'), sent')
  <2>1. SUFFICES ASSUME stage # "closed" PROVE InOrder(Unread', Len(got'), sent')
    OBVIOUS
  <2>2. InOrder(Unread, Len(got), sent)  BY <2>1 DEF LayersInv
  <2>3. /\ Unread'.bytes = Unread.bytes /\ Unread'.rbuf = Unread.rbuf
        /\ Unread'.plain = Unread.plain /\ Unread'.line = Unread.line
        /\ got' = got /\ sent' = sent
    BY DEF Unread
  <2> QED  BY <2>2, <2>3 DEF InOrder
<1>2. Run(got', 0) /\ Len(got') <= sent' /\ Len(rbuf') <= RbufSize
  BY DEF LayersInv
<1> QED  BY <1>1, <1>2 DEF LayersInv

LEMMA StopKeeps ==
  ASSUME StreamTypeOK, LayersInv, Stop
  PROVE  StreamTypeOK' /\ LayersInv' /\ UNCHANGED <<sent, got>>
<1>1. /\ stage' = "closed" /\ ok' = FALSE /\ rbuf' = <<>> /\ plain' = <<>>
      /\ line' = <<>> /\ arrived' = 0 /\ inLeft' = 0
      /\ hello' = hello /\ fed' = fed /\ heard' = heard /\ said' = said
      /\ open' = open /\ sent' = sent /\ got' = got
  BY DEF Stop, helloVars
<1>2. Len(<<>>) = 0  OBVIOUS
<1>3. StreamTypeOK'
  <2>1. arrived' \in 0..Len(line') /\ inLeft' \in 0..arrived'  BY <1>1, <1>2
  <2>2. line' \in Seq(Pieces) /\ rbuf' \in Seq(Nat) /\ plain' \in Seq(Nat)  BY <1>1
  <2> QED  BY <1>1, <2>1, <2>2 DEF StreamTypeOK
<1>4. LayersInv'  BY <1>1, <1>2, SizesAssumption DEF LayersInv
<1> QED  BY <1>1, <1>3, <1>4

\* A record of one piece, or of two, behind the others.
LEMMA ChainAppend ==
  ASSUME NEW l \in Seq(Pieces), NEW b \in Nat, NEW e \in Nat, NEW n \in Nat \ {0},
         Chain(l, b, e), NEW p \in Pieces, p.first = e + 1, p.last = e + n, p.end
  PROVE  Chain(Append(l, p), b, e + n)
<1> DEFINE m == Append(l, p)  k == Len(l)
<1>1. /\ k \in Nat /\ Len(m) = k + 1 /\ m # <<>> /\ m[k + 1] = p
      /\ \A i \in 1..k : m[i] = l[i] /\ m[i] \in Pieces
  OBVIOUS
<1> HIDE DEF m, k
<1>2. m[1].first = b + 1
  <2>1. CASE k = 0  BY <1>1, <2>1 DEF k, Chain
  <2>2. CASE k # 0  BY <1>1, <2>2 DEF k, Chain
  <2> QED  BY <2>1, <2>2
<1>3. ASSUME NEW i \in 1..(k + 1) PROVE m[i].first <= m[i].last /\ m[i].last <= e + n
  <2>1. CASE i = k + 1  BY <1>1, <2>1
  <2>2. CASE i # k + 1
    <3>1. i \in 1..k /\ l # <<>>  BY <1>1, <2>2 DEF k
    <3>2. m[i] = l[i] /\ m[i].first <= m[i].last /\ m[i].last <= e
      BY <1>1, <3>1 DEF Chain, k
    <3>3. m[i].last \in Nat  BY <1>1, <3>1 DEF Pieces
    <3> QED  BY <3>2, <3>3
  <2> QED  BY <2>1, <2>2
<1>4. ASSUME NEW i \in 1..k PROVE Linked(m[i], m[i + 1])
  <2>0. l # <<>>  BY <1>1 DEF k
  <2>1. CASE i = k
    <3>1. m[i].end /\ m[i].last = e  BY <1>1, <2>0, <2>1 DEF k, Chain
    <3> QED  BY <1>1, <2>1, <3>1 DEF Linked
  <2>2. CASE i # k
    <3>1. i \in 1..(k - 1) /\ i + 1 \in 1..k  BY <1>1, <2>2
    <3>2. Linked(l[i], l[i + 1])  BY <2>0, <3>1 DEF k, Chain
    <3> QED  BY <1>1, <3>1, <3>2
  <2> QED  BY <2>1, <2>2
<1>5. (k + 1) - 1 = k  BY <1>1
<1> QED  BY <1>1, <1>2, <1>3, <1>4, <1>5 DEF Chain, m

LEMMA ChainAppendTwo ==
  ASSUME NEW l \in Seq(Pieces), NEW b \in Nat, NEW e \in Nat, NEW n \in Nat \ {0},
         Chain(l, b, e), NEW p \in Pieces, p.first = e + 1, p.last = e + n, p.end,
         NEW q \in Pieces, q.first = p.first, q.last = p.last, ~q.end
  PROVE  Chain(l \o <<q, p>>, b, e + n)
<1> DEFINE m == l \o <<q, p>>  k == Len(l)
<1>1. /\ k \in Nat /\ Len(m) = k + 2 /\ m # <<>> /\ m[k + 1] = q /\ m[k + 2] = p
      /\ \A i \in 1..k : m[i] = l[i] /\ m[i] \in Pieces
  OBVIOUS
<1> HIDE DEF m, k
<1>2. m[1].first = b + 1
  <2>1. CASE k = 0  BY <1>1, <2>1 DEF k, Chain
  <2>2. CASE k # 0  BY <1>1, <2>2 DEF k, Chain
  <2> QED  BY <2>1, <2>2
<1>3. ASSUME NEW i \in 1..(k + 2) PROVE m[i].first <= m[i].last /\ m[i].last <= e + n
  <2>1. CASE i \in {k + 1, k + 2}  BY <1>1, <2>1
  <2>2. CASE i \notin {k + 1, k + 2}
    <3>1. i \in 1..k /\ l # <<>>  BY <1>1, <2>2 DEF k
    <3>2. m[i] = l[i] /\ m[i].first <= m[i].last /\ m[i].last <= e
      BY <1>1, <3>1 DEF Chain, k
    <3>3. m[i].last \in Nat  BY <1>1, <3>1 DEF Pieces
    <3> QED  BY <3>2, <3>3
  <2> QED  BY <2>1, <2>2
<1>4. ASSUME NEW i \in 1..(k + 1) PROVE Linked(m[i], m[i + 1])
  <2>1. CASE i = k + 1
    <3>1. m[i] = q /\ m[i + 1] = p  BY <1>1, <2>1
    <3> QED  BY <3>1 DEF Linked
  <2>2. CASE i = k
    <3>0. l # <<>> /\ k \in 1..k  BY <1>1, <2>2 DEF k
    <3>1. m[i].end /\ m[i].last = e  BY <1>1, <2>2, <3>0 DEF k, Chain
    <3> QED  BY <1>1, <2>2, <3>1 DEF Linked
  <2>3. CASE i \notin {k, k + 1}
    <3>1. i \in 1..(k - 1) /\ i + 1 \in 1..k /\ l # <<>>  BY <1>1, <2>3 DEF k
    <3>2. Linked(l[i], l[i + 1])  BY <3>1 DEF k, Chain
    <3> QED  BY <1>1, <3>1, <3>2
  <2> QED  BY <2>1, <2>2, <2>3
<1>5. (k + 2) - 1 = k + 1  BY <1>1
<1> QED  BY <1>1, <1>2, <1>3, <1>4, <1>5 DEF Chain, m

LEMMA SendKeeps ==
  ASSUME StreamTypeOK, LayersInv, NEW n \in 1..MaxRecord, SendRecord(n)
  PROVE  StreamTypeOK' /\ LayersInv' /\ sent' \in Nat /\ sent' > sent /\ got' = got
<1> DEFINE p == Piece(n, TRUE)  q == Piece(n, FALSE)
           b == Len(got) + 0 + Len(rbuf) + Len(plain)
<1>0. /\ plain \in Seq(Nat) /\ rbuf \in Seq(Nat) /\ line \in Seq(Pieces) /\ sent \in Nat
      /\ got \in Seq(Nat) /\ arrived \in 0..Len(line) /\ inLeft \in 0..arrived
      /\ n \in Nat \ {0}
  BY SizesAssumption DEF StreamTypeOK
<1>1. /\ stage = "done" /\ stage' = stage /\ ok' = ok /\ open' = open /\ sent' = sent + n
      /\ hello' = hello /\ fed' = fed /\ heard' = heard /\ said' = said
      /\ arrived' = arrived /\ inLeft' = inLeft
      /\ plain' = plain /\ rbuf' = rbuf /\ got' = got
      /\ line' = Append(line, p) \/ line' = line \o <<q, p>>
  BY DEF SendRecord, helloVars
<1>2. /\ p = [first |-> sent + 1, last |-> sent + n, end |-> TRUE]
      /\ q = [first |-> sent + 1, last |-> sent + n, end |-> FALSE]
  BY DEF Piece
<1> HIDE DEF p, q
<1>3. p \in Pieces /\ q \in Pieces
  <2>1. sent + 1 \in Nat /\ sent + n \in Nat  BY <1>0
  <2> QED  BY <1>2, <2>1 DEF Pieces
<1>4. line' \in Seq(Pieces) /\ Len(line) <= Len(line')
  <2>1. CASE line' = Append(line, p)
    BY <1>0, <1>3, <2>1
  <2>2. CASE line' = line \o <<q, p>>
    <3>1. <<q, p>> \in Seq(Pieces) /\ Len(<<q, p>>) = 2  BY <1>3
    <3> QED  BY <1>0, <2>2, <3>1
  <2> QED  BY <1>1, <2>1, <2>2
<1>5. StreamTypeOK'
  <2>1. arrived \in 0..Len(line')  BY <1>0, <1>4
  <2>2. sent' \in Nat  BY <1>0, <1>1
  <2> QED  BY <1>0, <1>1, <1>4, <2>1, <2>2 DEF StreamTypeOK
<1>6. b \in Nat /\ Chain(line, b, sent)
  <2>1. Len(got) \in Nat /\ Len(rbuf) \in Nat /\ Len(plain) \in Nat  BY <1>0, LenIsNat
  <2>2. Len(Unread.bytes) = 0 /\ Unread.rbuf = rbuf /\ Unread.plain = plain
        /\ Unread.line = line
    BY DEF Unread
  <2> QED  BY <1>1, <2>1, <2>2 DEF LayersInv, InOrder
<1>7. Chain(line', b, sent')
  <2> HIDE DEF b
  <2>1. CASE line' = Append(line, p)
    BY <1>0, <1>1, <1>2, <1>3, <1>6, <2>1, ChainAppend
  <2>2. CASE line' = line \o <<q, p>>
    <3>1. /\ p.first = sent + 1 /\ p.last = sent + n /\ p.end
          /\ q.first = p.first /\ q.last = p.last /\ ~q.end
      BY <1>2
    <3>2. Chain(line \o <<q, p>>, b, sent + n)
      BY <1>0, <1>3, <1>6, <3>1, ChainAppendTwo
    <3> QED  BY <1>1, <2>2, <3>2
  <2> QED  BY <1>1, <2>1, <2>2
<1>8. InOrder(Unread', Len(got'), sent')
  <2>1. /\ Unread'.bytes = <<>> /\ Len(Unread'.bytes) = 0 /\ Unread'.rbuf = rbuf
        /\ Unread'.plain = plain /\ Unread'.line = line'
        /\ Unread.bytes = <<>> /\ Unread.rbuf = rbuf /\ Unread.plain = plain
    BY <1>1 DEF Unread
  <2>2. InOrder(Unread, Len(got), sent)  BY <1>1 DEF LayersInv
  <2> QED  BY <1>1, <1>7, <2>1, <2>2 DEF InOrder
<1>9. LayersInv'
  <2>1. Len(got) <= sent + n
    <3>1. Len(got) \in Nat /\ Len(got) <= sent  BY <1>0, LenIsNat DEF LayersInv
    <3> QED  BY <1>0, <3>1
  <2> QED  BY <1>1, <1>8, <2>1 DEF LayersInv
<1> QED  BY <1>0, <1>1, <1>5, <1>9

LEMMA PreReadKeeps ==
  ASSUME PreSize = RbufSize, StreamTypeOK, LayersInv, stage # "closed", PreRead
  PROVE  StreamTypeOK' /\ LayersInv' /\ UNCHANGED <<sent, got>>
<1> DEFINE r == ReadBuffer(PreSize)  b == Len(got)
<1>0. /\ plain \in Seq(Nat) /\ rbuf \in Seq(Nat) /\ sent \in Nat /\ got \in Seq(Nat)
      /\ b \in Nat
  BY LenIsNat DEF StreamTypeOK
<1>1. /\ stage' = stage /\ ok' = ok /\ open' = open /\ sent' = sent /\ got' = got
      /\ hello' = hello /\ fed' = fed /\ heard' = heard /\ said' = said
      /\ line' = r.line /\ arrived' = r.arrived /\ inLeft' = r.inLeft
      /\ plain' = r.plain
      /\ rbuf' = IF r.rbuf = <<>> THEN Front(r.bytes, RbufSize) ELSE r.rbuf
  BY DEF PreRead, Leave, helloVars
<1>2. /\ r \in Results /\ Counted(r) /\ InOrder(r, b, sent)
      /\ Len(r.bytes) <= RbufSize /\ Len(r.rbuf) <= Len(rbuf)
      /\ (r.rbuf = <<>> \/ r.bytes = <<>>)
  <2>1. InOrder(Unread, b, sent) /\ Len(rbuf) <= PreSize  BY DEF LayersInv
  <2> QED  BY <1>0, <2>1, ReadBufferInOrder, SizesAssumption
<1> HIDE DEF r
<1>3. /\ r.bytes \in Seq(Nat) /\ r.rbuf \in Seq(Nat) /\ r.plain \in Seq(Nat)
      /\ r.line \in Seq(Pieces)
  BY <1>2 DEF Results
<1>4. /\ rbuf' \in Seq(Nat) /\ Len(rbuf') <= RbufSize
      /\ Run(rbuf', b) /\ Len(r.bytes) + Len(r.rbuf) = Len(rbuf')
      /\ Len(rbuf') \in Nat /\ Len(r.bytes) \in Nat /\ Len(r.rbuf) \in Nat
  <2>1. CASE r.rbuf = <<>>
    <3>1. Run(r.bytes, b)  BY <1>2 DEF InOrder
    <3>2. RbufSize \in Nat  BY SizesAssumption
    <3>3. Front(r.bytes, RbufSize) = r.bytes
      BY <1>0, <1>2, <1>3, <3>1, <3>2, FrontOfRun
    <3>4. rbuf' = r.bytes /\ Len(r.rbuf) = 0  BY <1>1, <2>1, <3>3
    <3>5. Len(r.bytes) \in Nat  BY <1>3, LenIsNat
    <3> QED  BY <1>2, <1>3, <3>1, <3>4, <3>5
  <2>2. CASE r.rbuf # <<>>
    <3>1. r.bytes = <<>> /\ rbuf' = r.rbuf /\ Len(r.bytes) = 0  BY <1>1, <1>2, <2>2
    <3>2. Run(r.rbuf, b + Len(r.bytes))  BY <1>2 DEF InOrder
    <3>3. Len(r.rbuf) \in Nat /\ b + 0 = b /\ Len(rbuf) \in Nat  BY <1>0, <1>3, LenIsNat
    <3>4. Len(r.rbuf) <= RbufSize  BY <1>2, <3>3, SizesAssumption DEF LayersInv
    <3> QED  BY <1>3, <3>1, <3>2, <3>3, <3>4
  <2> QED  BY <2>1, <2>2
<1>5. StreamTypeOK'
  <2>1. arrived' \in 0..Len(line') /\ inLeft' \in 0..arrived'
    BY <1>1, <1>2 DEF Counted
  <2> QED  BY <1>0, <1>1, <1>3, <1>4, <2>1 DEF StreamTypeOK
<1>6. InOrder(Unread', Len(got'), sent')
  <2>1. /\ Unread'.bytes = <<>> /\ Len(Unread'.bytes) = 0 /\ Unread'.rbuf = rbuf'
        /\ Unread'.plain = r.plain /\ Unread'.line = r.line
    BY <1>1 DEF Unread
  <2> DEFINE x == Len(r.bytes)  y == Len(r.rbuf)  z == Len(rbuf')
  <2>2. x \in Nat /\ y \in Nat /\ z \in Nat /\ x + y = z  BY <1>4
  <2>3. Run(r.plain, b + x + y) /\ Chain(r.line, b + x + y + Len(r.plain), sent)
    BY <1>2 DEF InOrder
  <2> HIDE DEF b, x, y, z
  <2>4. b + x + y = b + 0 + z /\ b + 0 = b  BY <1>0, <2>2
  <2>5. Run(r.plain, b + 0 + z) /\ Chain(r.line, b + 0 + z + Len(r.plain), sent)
    BY <2>3, <2>4
  <2>6. Run(<<>>, b)  BY DEF Run
  <2> QED  BY <1>1, <1>4, <2>1, <2>4, <2>5, <2>6 DEF InOrder, b, z
<1>7. LayersInv'  BY <1>1, <1>4, <1>6 DEF LayersInv
<1> QED  BY <1>1, <1>5, <1>7

-----------------------------------------------------------------------------
(***************************************************************************)
(* Upwards: every step keeps the layers in order, and is a step of the     *)
(* byte channel or leaves it alone.                                        *)
(***************************************************************************)
UpInv == /\ TypeOK /\ LayersInv
         /\ step # "idle" => stage = "done"

LEMMA NumbersAreSeq ==
  ASSUME NEW n \in Nat
  PROVE  /\ Numbers(n) \in Seq(Nat) /\ Len(Numbers(n)) = n
         /\ \A i \in 1..n : Numbers(n)[i] = i
BY DEF Numbers

\* The beginning of a sequence.
LEMMA FirstOnes ==
  ASSUME NEW s \in Seq(Nat), NEW t \in Seq(Nat), Len(s) <= Len(t),
         \A i \in 1..Len(s) : s[i] = t[i]
  PROVE  s = SubSeq(t, 1, Len(s))
<1>1. Len(s) \in Nat /\ Len(t) \in Nat  BY LenIsNat
<1>2. /\ SubSeq(t, 1, Len(s)) \in Seq(Nat) /\ Len(SubSeq(t, 1, Len(s))) = Len(s)
      /\ \A i \in 1..Len(s) : SubSeq(t, 1, Len(s))[i] = t[i]
  BY <1>1
<1> DEFINE u == SubSeq(t, 1, Len(s))
<1> HIDE DEF u
<1>3. u \in Seq(Nat) /\ Len(u) = Len(s) /\ \A i \in 1..Len(s) : u[i] = s[i]
  BY <1>2 DEF u
<1>4. s = u  BY <1>3
<1> QED  BY <1>4 DEF u

\* The bytes the handlers have read are the first ones.
LEMMA RunIsFirst ==
  ASSUME NEW s \in Seq(Nat), Run(s, 0), NEW n \in Nat, Len(s) <= n
  PROVE  s = SubSeq(Numbers(n), 1, Len(s))
<1>1. Len(s) \in Nat  BY LenIsNat
<1>2. Numbers(n) \in Seq(Nat) /\ Len(Numbers(n)) = n
      /\ \A i \in 1..n : Numbers(n)[i] = i
  BY NumbersAreSeq
<1>3. \A i \in 1..Len(s) : s[i] = Numbers(n)[i]  BY <1>1, <1>2 DEF Run
<1> QED  BY <1>1, <1>2, <1>3, FirstOnes

UpStep == [Up!Next]_(Up!vars)

LEMMA UpInit == Init => UpInv /\ Up!Init
<1>1. SUFFICES ASSUME Init PROVE UpInv /\ Up!Init
  OBVIOUS
<1>2. StreamTypeOK
  <2>0. /\ stage = "new" /\ ok = FALSE /\ open = TRUE
        /\ hello = <<>> /\ fed = <<>> /\ heard = <<>> /\ said = 0
        /\ sent = 0 /\ line = <<>> /\ arrived = 0 /\ inLeft = 0
        /\ plain = <<>> /\ rbuf = <<>> /\ got = <<>>
    BY <1>1 DEF Init, StreamInit
  <2>1. ok \in BOOLEAN /\ open \in BOOLEAN  BY <2>0
  <2>2. arrived \in 0..Len(line) /\ inLeft \in 0..arrived
    <3>1. Len(<<>>) = 0  OBVIOUS
    <3> QED  BY <2>0, <3>1
  <2>3. hello \in Seq(1..2) /\ fed \in Seq(1..2) /\ heard \in Seq(1..2)  BY <2>0
  <2>4. plain \in Seq(Nat) /\ rbuf \in Seq(Nat) /\ got \in Seq(Nat) /\ line \in Seq(Pieces)
    BY <2>0
  <2>5. said \in 0..2 /\ sent \in Nat /\ stage \in {"new", "accepted", "done", "closed"}
    BY <2>0
  <2> QED  BY <2>1, <2>2, <2>3, <2>4, <2>5 DEF StreamTypeOK
<1>3. TypeOK
  <2>1. 1 \in 1..Len(Packets)
    <3>1. Len(Packets) \in Nat /\ Len(Packets) # 0  BY PacketAssumption
    <3> QED  BY <3>1
  <2>2. /\ step = "idle" /\ reads = <<>> /\ packet = 1 /\ cut = FALSE /\ misled = FALSE
        /\ number = 0 /\ down = <<>> /\ written = 0 /\ sealed = <<>>
        /\ short = FALSE /\ accepted = <<>> /\ peerOk = TRUE
    BY <1>1 DEF Init
  <2>3. cut \in BOOLEAN /\ misled \in BOOLEAN /\ short \in BOOLEAN /\ peerOk \in BOOLEAN
    BY <2>2
  <2>4. reads \in Seq(ReadCalls) /\ down \in Seq(Records) /\ accepted \in Seq(Nat)
        /\ sealed \in Seq(Nat)
    BY <2>2
  <2>5. step \in {"idle", "read", "answer", "preread"} /\ number \in Nat /\ written \in Nat
        /\ packet \in 1..Len(Packets)
    BY <2>1, <2>2
  <2> QED  BY <1>2, <2>3, <2>4, <2>5 DEF TypeOK
<1>4. LayersInv
  <2>1. got = <<>> /\ rbuf = <<>> /\ plain = <<>> /\ line = <<>> /\ sent = 0
    BY <1>1 DEF Init, StreamInit
  <2>2. Unread.bytes = <<>> /\ Unread.rbuf = <<>> /\ Unread.plain = <<>>
        /\ Unread.line = <<>>
    BY <2>1 DEF Unread
  <2>3. Len(<<>>) = 0 /\ Run(<<>>, 0) /\ Chain(<<>>, 0, 0)  BY DEF Run, Chain
  <2>4. InOrder(Unread, Len(got), sent)  BY <2>1, <2>2, <2>3 DEF InOrder
  <2> QED  BY <2>1, <2>3, <2>4, SizesAssumption DEF LayersInv
<1>5. Up!Init
  <2>1. sent = 0 /\ got = <<>>  BY <1>1 DEF Init, StreamInit
  <2>2. Numbers(0) \in Seq(Nat) /\ Len(Numbers(0)) = 0  BY NumbersAreSeq
  <2>3. Numbers(0) = <<>>  BY <2>2
  <2> QED  BY <2>1, <2>3 DEF Up!Init
<1>6. step = "idle"  BY <1>1 DEF Init
<1> QED  BY <1>3, <1>4, <1>5, <1>6 DEF UpInv

\* A step that only reads is a step of the channel.
LEMMA ReadingStep ==
  ASSUME StreamTypeOK', LayersInv', sent' = sent, Len(got) <= Len(got'),
         Len(got') <= sent, StreamTypeOK
  PROVE  UpStep
<1>1. got' \in Seq(Nat) /\ Run(got', 0)  BY DEF StreamTypeOK, LayersInv
<1>2. Len(got') \in Nat /\ Len(got) \in Nat /\ sent \in Nat
      /\ Len(Numbers(sent)) = sent
  BY <1>1, LenIsNat, NumbersAreSeq DEF StreamTypeOK
<1>3. got' = SubSeq(Numbers(sent), 1, Len(got'))  BY <1>1, <1>2, RunIsFirst
<1>4. Len(got') \in Len(got)..Len(Numbers(sent))  BY <1>2
<1>5. Numbers(sent)' = Numbers(sent)  BY DEF Numbers
<1> QED  BY <1>3, <1>4, <1>5 DEF UpStep, Up!Next, Up!Receive, Up!FirstOf

\* A step that only sends is one.
LEMMA SendingStep ==
  ASSUME sent \in Nat, sent' \in Nat, sent' > sent, got' = got
  PROVE  UpStep
<1>1. /\ Numbers(sent) \in Seq(Nat) /\ Len(Numbers(sent)) = sent
      /\ \A i \in 1..sent : Numbers(sent)[i] = i
  BY NumbersAreSeq
<1>2. /\ Numbers(sent') \in Seq(Nat) /\ Len(Numbers(sent')) = sent'
      /\ \A i \in 1..sent' : Numbers(sent')[i] = i
  BY NumbersAreSeq
<1>3. \A i \in 1..sent : Numbers(sent)[i] = Numbers(sent')[i]  BY <1>1, <1>2
<1>4. Numbers(sent) = SubSeq(Numbers(sent'), 1, Len(Numbers(sent)))
  BY <1>1, <1>2, <1>3, FirstOnes
<1>5. Numbers(sent)' = Numbers(sent')  BY DEF Numbers
<1> QED  BY <1>1, <1>2, <1>4, <1>5 DEF UpStep, Up!Next, Up!Send, Up!FirstOf

LEMMA RestOfReads ==
  ASSUME TypeOK, reads # <<>>, NEW k \in Nat
  PROVE  /\ Head(reads) \in ReadCalls /\ Tail(reads) \in Seq(ReadCalls)
         /\ Head(reads).n \in Nat \ {0}
         /\ ReadsAfter(k) \in Seq(ReadCalls)
<1>1. reads \in Seq(ReadCalls) /\ 1 \in 1..Len(reads)  BY DEF TypeOK
<1>2. /\ reads[1] \in ReadCalls /\ Head(reads) = reads[1] /\ Tail(reads) \in Seq(ReadCalls)
  BY <1>1
<1>3. Head(reads).n \in Nat \ {0}  BY <1>2 DEF ReadCalls
<1>4. ReadsAfter(k) \in Seq(ReadCalls)
  <2>1. CASE k >= Head(reads).n  BY <1>2, <2>1 DEF ReadsAfter
  <2>2. CASE ~(k >= Head(reads).n)
    <3> DEFINE c == [reads[1] EXCEPT !.n = reads[1].n - k]
    <3>1. ReadsAfter(k) = [reads EXCEPT ![1] = c]  BY <2>2 DEF ReadsAfter
    <3>2. reads[1].n - k \in Nat \ {0}  BY <1>2, <1>3, <2>2
    <3>3. c \in ReadCalls  BY <1>2, <3>2 DEF ReadCalls
    <3> HIDE DEF c
    <3> QED  BY <1>1, <3>1, <3>3
  <2> QED  BY <2>1, <2>2
<1> QED  BY <1>2, <1>3, <1>4

LEMMA HandlersRest ==
  ASSUME UpInv, UNCHANGED <<handlerVars, writeVars>>, StreamTypeOK', LayersInv',
         stage = "done" => stage' = "done" \/ step = "idle"
  PROVE  UpInv'
BY DEF UpInv, TypeOK, handlerVars, writeVars

LEMMA NoUpStep ==
  ASSUME UNCHANGED <<sent, got>>
  PROVE  UpStep
<1>1. Numbers(sent)' = Numbers(sent)  BY DEF Numbers
<1> QED  BY <1>1 DEF UpStep, Up!vars

\* A read call of the handler, in both of its forms.
LEMMA ReadStep ==
  ASSUME UpInv, stage # "closed", NEW r \in Results, Counted(r),
         InOrder(r, Len(got), sent), Len(r.rbuf) <= RbufSize, HasRead(r)
  PROVE  StreamTypeOK' /\ LayersInv' /\ UpStep
<1>1. StreamTypeOK /\ LayersInv  BY DEF UpInv, TypeOK
<1>2. StreamTypeOK' /\ LayersInv' /\ sent' = sent
      /\ Len(got) <= Len(got') /\ Len(got') <= sent
  BY <1>1, HasReadKeeps
<1> QED  BY <1>1, <1>2, ReadingStep

LEMMA HandlerReadsOne ==
  ASSUME UpInv, stage # "closed", HasRead(ReadOne)
  PROVE  StreamTypeOK' /\ LayersInv' /\ UpStep
<1>1. StreamTypeOK /\ LayersInv  BY DEF UpInv, TypeOK
<1>2. Len(got) \in Nat /\ InOrder(Unread, Len(got), sent) /\ Len(rbuf) <= RbufSize
  BY <1>1, LenIsNat DEF StreamTypeOK, LayersInv
<1>3. /\ ReadOne \in Results /\ Counted(ReadOne) /\ InOrder(ReadOne, Len(got), sent)
      /\ Len(ReadOne.rbuf) <= RbufSize
  BY <1>1, <1>2, ReadOneInOrder
<1> QED  BY <1>3, ReadStep

LEMMA HandlerReadsMany ==
  ASSUME UpInv, stage # "closed", NEW n \in Nat \ {0}, HasRead(ReadBuffer(n))
  PROVE  StreamTypeOK' /\ LayersInv' /\ UpStep
<1> DEFINE r == ReadBuffer(n)
<1>1. StreamTypeOK /\ LayersInv  BY DEF UpInv, TypeOK
<1>2. Len(got) \in Nat /\ InOrder(Unread, Len(got), sent) /\ Len(rbuf) <= RbufSize
      /\ Len(rbuf) \in Nat
  BY <1>1, LenIsNat DEF StreamTypeOK, LayersInv
<1>3. /\ r \in Results /\ Counted(r) /\ InOrder(r, Len(got), sent)
      /\ Len(r.rbuf) <= Len(rbuf)
  BY <1>1, <1>2, ReadBufferInOrder
<1> HIDE DEF r
<1>4. Len(r.rbuf) <= RbufSize
  <2>1. r.rbuf \in Seq(Nat)  BY <1>3 DEF Results
  <2>2. Len(r.rbuf) \in Nat  BY <2>1, LenIsNat
  <2> QED  BY <1>2, <1>3, <2>2, SizesAssumption
<1> QED  BY <1>3, <1>4, ReadStep DEF r

\* The steps of the connection.
LEMMA StreamSteps ==
  ASSUME UpInv,
         \/ Stream(SayHello) \/ Accept \/ Stream(Refuse)
         \/ Handshake \/ Stream(HandshakeFails)
         \/ ProgramSends \/ Network \/ Stream(PeerCloses) \/ Stream(BreakTls)
         \/ step = "idle" /\ Stream(DropClient)
  PROVE  UpInv' /\ UpStep
<1>0. StreamTypeOK /\ LayersInv  BY DEF UpInv, TypeOK
<1>1. CASE Stream(SayHello)
  <2>1. /\ SayHello /\ UNCHANGED <<handlerVars, writeVars>>
        /\ UNCHANGED <<stage, ok, fed, heard, open, sent, line, arrived, inLeft, plain,
                      rbuf, got>>
        /\ hello' = Append(hello, said + 1) /\ said' = said + 1 /\ said < 2
        /\ stage \in {"new", "accepted"}
    BY <1>1 DEF Stream, SayHello, readVars
  <2>2. StreamTypeOK'
    <3>1. said + 1 \in 1..2  BY <1>0, <2>1 DEF StreamTypeOK
    <3>2. hello' \in Seq(1..2) /\ said' \in 0..2
      BY <1>0, <2>1, <3>1 DEF StreamTypeOK
    <3> QED  BY <1>0, <2>1, <3>2 DEF StreamTypeOK
  <2>3. LayersInv'  BY <1>0, <2>1, SameLayers
  <2> QED  BY <2>1, <2>2, <2>3, HandlersRest, NoUpStep
<1>2. CASE Accept
  <2>1. /\ UNCHANGED <<handlerVars, writeVars>> /\ hello # <<>> /\ stage = "new"
        /\ UNCHANGED <<heard, said, open, sent, line, arrived, inLeft, plain, rbuf, got>>
        /\ fed' = <<Head(hello)>> /\ hello' = Tail(hello)
        /\ stage' = "accepted" /\ ok' = TRUE
    BY <1>2 DEF Accept, Stream, AcceptPeek, readVars
  <2>2. StreamTypeOK'
    <3>1. hello \in Seq(1..2)  BY <1>0 DEF StreamTypeOK
    <3>2. Head(hello) \in 1..2 /\ Tail(hello) \in Seq(1..2)  BY <2>1, <3>1
    <3>3. fed' \in Seq(1..2) /\ hello' \in Seq(1..2)  BY <2>1, <3>2
    <3> QED  BY <1>0, <2>1, <3>3 DEF StreamTypeOK
  <2>3. LayersInv'  BY <1>0, <2>1, SameLayers
  <2> QED  BY <2>1, <2>2, <2>3, HandlersRest, NoUpStep
<1>3. CASE Stream(Refuse)
  <2>1. Stop /\ stage = "new" /\ UNCHANGED <<handlerVars, writeVars>>
    BY <1>3 DEF Stream, Refuse
  <2>2. StreamTypeOK' /\ LayersInv' /\ UNCHANGED <<sent, got>>
    BY <1>0, <2>1, StopKeeps
  <2> QED  BY <2>1, <2>2, HandlersRest, NoUpStep
<1>4. CASE Handshake
  <2>1. /\ UNCHANGED <<handlerVars, writeVars>> /\ stage = "accepted"
        /\ UNCHANGED <<ok, said, open, sent, line, arrived, inLeft, plain, rbuf, got>>
        /\ hello \o fed # <<>>
        /\ heard' = Append(heard, BioRecv.piece) /\ fed' = BioRecv.fed
        /\ hello' = BioRecv.hello /\ stage' \in {"done", "accepted"}
    BY <1>4 DEF Handshake, Stream, ContinueHandshake, readVars
  <2>2. StreamTypeOK'
    <3>1. hello \in Seq(1..2) /\ fed \in Seq(1..2) /\ heard \in Seq(1..2)
      BY <1>0 DEF StreamTypeOK
    <3>2. BioRecv.piece \in 1..2 /\ BioRecv.fed \in Seq(1..2) /\ BioRecv.hello \in Seq(1..2)
      <4>1. CASE fed # <<>>
        <5>1. BioRecv = [piece |-> Head(fed), fed |-> Tail(fed), hello |-> hello]
          BY <4>1 DEF BioRecv
        <5>2. Head(fed) \in 1..2 /\ Tail(fed) \in Seq(1..2)  BY <3>1, <4>1
        <5> QED  BY <3>1, <5>1, <5>2
      <4>2. CASE fed = <<>>
        <5>1. BioRecv = [piece |-> Head(hello), fed |-> fed, hello |-> Tail(hello)]
          BY <4>2 DEF BioRecv
        <5>2. hello # <<>>  BY <2>1, <4>2
        <5>3. Head(hello) \in 1..2 /\ Tail(hello) \in Seq(1..2)  BY <3>1, <5>2
        <5> QED  BY <3>1, <5>1, <5>3
      <4> QED  BY <4>1, <4>2
    <3>3. heard' \in Seq(1..2) /\ fed' \in Seq(1..2) /\ hello' \in Seq(1..2)
      BY <2>1, <3>1, <3>2
    <3> QED  BY <1>0, <2>1, <3>3 DEF StreamTypeOK
  <2>3. LayersInv'  BY <1>0, <2>1, SameLayers
  <2> QED  BY <2>1, <2>2, <2>3, HandlersRest, NoUpStep
<1>5. CASE Stream(HandshakeFails)
  <2>1. Stop /\ stage = "accepted" /\ UNCHANGED <<handlerVars, writeVars>>
    BY <1>5 DEF Stream, HandshakeFails
  <2>2. StreamTypeOK' /\ LayersInv' /\ UNCHANGED <<sent, got>>
    BY <1>0, <2>1, StopKeeps
  <2> QED  BY <2>1, <2>2, HandlersRest, NoUpStep
<1>6. CASE ProgramSends
  <2>1. PICK n \in 1..MaxRecord : SendRecord(n) /\ UNCHANGED <<handlerVars, writeVars>>
    BY <1>6 DEF ProgramSends, Stream
  <2>2. /\ StreamTypeOK' /\ LayersInv' /\ sent' \in Nat /\ sent' > sent /\ got' = got
    BY <1>0, <2>1, SendKeeps
  <2>3. stage' = stage  BY <2>1 DEF SendRecord
  <2>4. UpStep  BY <1>0, <2>2, SendingStep DEF StreamTypeOK
  <2> QED  BY <2>1, <2>2, <2>3, <2>4, HandlersRest
<1>7. CASE Network
  <2>1. /\ UNCHANGED <<handlerVars, writeVars>> /\ arrived < Len(line)
        /\ UNCHANGED <<stage, ok, hello, fed, heard, said, open, sent, line, inLeft, plain,
                      rbuf, got>>
        /\ arrived' = arrived + 1
    BY <1>7 DEF Network, Stream, Arrive, helloVars
  <2>2. arrived' \in 0..Len(line') /\ inLeft' \in 0..arrived'
    <3>1. /\ arrived \in 0..Len(line) /\ inLeft \in 0..arrived /\ line \in Seq(Pieces)
      BY <1>0 DEF StreamTypeOK
    <3>2. Len(line) \in Nat  BY <3>1
    <3> QED  BY <2>1, <3>1, <3>2
  <2>3. StreamTypeOK'  BY <1>0, <2>1, <2>2 DEF StreamTypeOK
  <2>4. LayersInv'  BY <1>0, <2>1, SameLayers
  <2> QED  BY <2>1, <2>3, <2>4, HandlersRest, NoUpStep
<1>8. CASE Stream(PeerCloses)
  <2>1. /\ UNCHANGED <<handlerVars, writeVars>> /\ open' = FALSE
        /\ UNCHANGED <<stage, ok, hello, fed, heard, said, sent, line, arrived, inLeft,
                      plain, rbuf, got>>
    BY <1>8 DEF Stream, PeerCloses, helloVars, readVars
  <2>2. open' \in BOOLEAN  BY <2>1
  <2>3. StreamTypeOK'  BY <1>0, <2>1, <2>2 DEF StreamTypeOK
  <2>4. LayersInv'  BY <1>0, <2>1, SameLayers
  <2> QED  BY <2>1, <2>3, <2>4, HandlersRest, NoUpStep
<1>9. CASE Stream(BreakTls)
  <2>1. /\ UNCHANGED <<handlerVars, writeVars>> /\ ok' = FALSE
        /\ UNCHANGED <<stage, hello, fed, heard, said, open, sent, line, arrived, inLeft,
                      plain, rbuf, got>>
    BY <1>9 DEF Stream, BreakTls, helloVars, readVars
  <2>2. ok' \in BOOLEAN  BY <2>1
  <2>3. StreamTypeOK'  BY <1>0, <2>1, <2>2 DEF StreamTypeOK
  <2>4. LayersInv'  BY <1>0, <2>1, SameLayers
  <2> QED  BY <2>1, <2>3, <2>4, HandlersRest, NoUpStep
<1>10. CASE step = "idle" /\ Stream(DropClient)
  <2>1. Stop /\ step = "idle" /\ UNCHANGED <<handlerVars, writeVars>>
    BY <1>10 DEF Stream, DropClient
  <2>2. StreamTypeOK' /\ LayersInv' /\ UNCHANGED <<sent, got>>
    BY <1>0, <2>1, StopKeeps
  <2> QED  BY <2>1, <2>2, HandlersRest, NoUpStep
<1> QED  BY <1>1, <1>2, <1>3, <1>4, <1>5, <1>6, <1>7, <1>8, <1>9, <1>10

\* What write() changes.
LEMMA WriteTypes ==
  ASSUME TypeOK, write
  PROVE  /\ number' \in Nat /\ down' \in Seq(Records) /\ written' \in Nat
         /\ sealed' \in Seq(Nat) /\ short' \in BOOLEAN /\ accepted' = accepted /\ peerOk' = peerOk
<1>1. /\ number \in Nat /\ down \in Seq(Records) /\ written \in Nat /\ short \in BOOLEAN
      /\ sealed \in Seq(Nat)
  BY DEF TypeOK
<1>2. Written(TRUE) \in Records /\ Written(FALSE) \in Records
  BY <1>1 DEF Written, Records
<1>3. /\ number' \in Nat /\ written' = written + 1
      /\ sealed' \in Seq(Nat)
      /\ accepted' = accepted /\ peerOk' = peerOk
  <2>1. Append(sealed, written + 1) \in Seq(Nat)  BY <1>1
  <2>2. sealed' = Append(sealed, written + 1) \/ sealed' = sealed
    BY DEF write, Seal, CipherFails
  <2>3. number' = number + 1 \/ number' = number  BY DEF write, CipherFails
  <2>4. written' = written + 1 /\ accepted' = accepted /\ peerOk' = peerOk
    BY DEF write
  <2>5. sealed' \in Seq(Nat)  BY <1>1, <2>1, <2>2
  <2>6. number' \in Nat  BY <1>1, <2>3
  <2> QED  BY <2>4, <2>5, <2>6
<1>4. /\ down' = Append(down, Written(TRUE)) \/ down' = Append(down, Written(FALSE))
         \/ down' = down
      /\ short' = short \/ short' = TRUE
  BY DEF write, Taken, CipherFails
<1>5. short' \in BOOLEAN  BY <1>1, <1>4
<1>6. down' \in Seq(Records)
  <2> DEFINE w == Written(TRUE)  v == Written(FALSE)
  <2>0. w \in Records /\ v \in Records  BY <1>2
  <2>1. CASE down' = Append(down, Written(TRUE))
    <3>1. down' = Append(down, w)  BY <2>1
    <3> HIDE DEF w, v
    <3> QED  BY <1>1, <2>0, <3>1
  <2>2. CASE down' = Append(down, Written(FALSE))
    <3>1. down' = Append(down, v)  BY <2>2
    <3> HIDE DEF w, v
    <3> QED  BY <1>1, <2>0, <3>1
  <2>3. CASE down' = down  BY <1>1, <2>3
  <2> QED  BY <1>4, <2>1, <2>2, <2>3
<1> QED  BY <1>1, <1>3, <1>5, <1>6

LEMMA ReadLength ==
  ASSUME UpInv, reads # <<>>, stage # "closed"
  PROVE  Len(NextRead.bytes) \in Nat
<1>1. /\ StreamTypeOK /\ LayersInv /\ TypeOK /\ Head(reads).n \in Nat \ {0}
  BY RestOfReads DEF UpInv, TypeOK
<1>2. Len(got) \in Nat /\ InOrder(Unread, Len(got), sent) /\ Len(rbuf) <= RbufSize
  BY <1>1, LenIsNat DEF StreamTypeOK, LayersInv
<1>3. ReadOne \in Results  BY <1>1, <1>2, ReadOneInOrder
<1>4. ReadBuffer(Head(reads).n) \in Results  BY <1>1, <1>2, ReadBufferInOrder
<1>5. NextRead \in Results  BY <1>3, <1>4 DEF NextRead
<1>6. NextRead.bytes \in Seq(Nat)  BY <1>5 DEF Results
<1> QED  BY <1>6, LenIsNat

\* The steps of the packet handlers.
LEMMA HandlerSteps ==
  ASSUME PreSize = RbufSize, UpInv, Thread \/ ForwardReport \/ PeerReceives
  PROVE  UpInv' /\ UpStep
<1>0. /\ StreamTypeOK /\ LayersInv /\ TypeOK
      /\ step \in {"idle", "read", "answer", "preread"}
      /\ reads \in Seq(ReadCalls) /\ packet \in 1..Len(Packets)
      /\ cut \in BOOLEAN /\ misled \in BOOLEAN
      /\ number \in Nat /\ down \in Seq(Records) /\ written \in Nat /\ sealed \in Seq(Nat)
      /\ short \in BOOLEAN /\ accepted \in Seq(Nat) /\ peerOk \in BOOLEAN
      /\ step # "idle" => stage = "done"
  BY DEF UpInv, TypeOK
<1>1. CASE HandleHeader
  <2>1. /\ stage = "done" /\ HasRead(ReadOne)
        /\ UNCHANGED <<number, down, written, sealed, short, accepted, peerOk>>
    BY <1>1 DEF HandleHeader, writeVars
  <2>2. StreamTypeOK' /\ LayersInv' /\ UpStep  BY <2>1, HandlerReadsOne
  <2>3. stage' = stage  BY <2>1 DEF HasRead, Leave
  <2>4. CASE UNCHANGED handlerVars
    <3>1. TypeOK'  BY <1>0, <2>1, <2>2, <2>4 DEF TypeOK, handlerVars
    <3> QED  BY <1>0, <2>1, <2>2, <2>3, <2>4, <3>1 DEF UpInv, handlerVars
  <2>5. CASE ~UNCHANGED handlerVars
    <3>1. /\ packet' \in TakenFor(ReadOne.bytes[1])
          /\ reads' = <<[each |-> TRUE, n |-> 1]>> \o Packets[packet'].reads
          /\ step' = "read" /\ cut' = cut
          /\ misled' = (misled \/ ReadOne.bytes[1] \notin Starts)
      BY <1>1, <2>5 DEF HandleHeader
    <3>2. packet' \in 1..Len(Packets)  BY <3>1 DEF TakenFor
    <3>3. reads' \in Seq(ReadCalls)
      <4>1. [each |-> TRUE, n |-> 1] \in ReadCalls  BY DEF ReadCalls
      <4>2. Packets[packet'].reads \in Seq(ReadCalls)
        <5> DEFINE set == [reads : Seq(ReadCalls), size : Nat \ {0}, connect : BOOLEAN]
        <5>1. Packets \in Seq(set)  BY PacketAssumption
        <5>2. \A x \in set : x.reads \in Seq(ReadCalls)  OBVIOUS
        <5> HIDE DEF set
        <5>3. Packets[packet'] \in set  BY <3>2, <5>1
        <5> QED  BY <5>2, <5>3
      <4> DEFINE c == [each |-> TRUE, n |-> 1]
      <4> HIDE DEF c
      <4>3. <<c>> \in Seq(ReadCalls)  BY <4>1 DEF c
      <4> QED  BY <3>1, <4>2, <4>3 DEF c
    <3>4. misled' \in BOOLEAN  BY <3>1
    <3>5. TypeOK'  BY <1>0, <2>1, <2>2, <3>1, <3>2, <3>3, <3>4 DEF TypeOK
    <3> QED  BY <2>1, <2>2, <2>3, <3>5 DEF UpInv
  <2> QED  BY <2>4, <2>5
<1>2. CASE HandlerReads
  <2> DEFINE r == NextRead
  <2>1. /\ step = "read" /\ reads # <<>> /\ HasRead(r) /\ stage = "done"
        /\ UNCHANGED <<packet, misled, number, down, written, sealed, short, accepted, peerOk>>
        /\ \/ r.bytes # <<>> /\ reads' = ReadsAfter(Len(r.bytes)) /\ UNCHANGED <<step, cut>>
           \/ step' = "idle" /\ reads' = <<>> /\ cut' = TRUE
    BY <1>0, <1>2 DEF HandlerReads, writeVars
  <2>2. Head(reads).n \in Nat \ {0}  BY <1>0, <2>1, RestOfReads
  <2>3. StreamTypeOK' /\ LayersInv' /\ UpStep
    <3>1. CASE Head(reads).each
      <4>1. HasRead(ReadOne)  BY <2>1, <3>1 DEF NextRead
      <4> QED  BY <2>1, <4>1, HandlerReadsOne
    <3>2. CASE ~Head(reads).each
      <4>1. HasRead(ReadBuffer(Head(reads).n))  BY <2>1, <3>2 DEF NextRead
      <4> QED  BY <2>1, <2>2, <4>1, HandlerReadsMany
    <3> QED  BY <3>1, <3>2
  <2>4. stage' = stage /\ got' = got \o r.bytes  BY <2>1 DEF HasRead, Leave
  <2>5. reads' \in Seq(ReadCalls) /\ cut' \in BOOLEAN /\ step' \in {"idle", "read"}
    <3>1. CASE r.bytes # <<>> /\ reads' = ReadsAfter(Len(r.bytes)) /\ UNCHANGED <<step, cut>>
      <4>1. Len(r.bytes) \in Nat  BY <1>0, <2>1, ReadLength
      <4> HIDE DEF r
      <4>2. ReadsAfter(Len(r.bytes)) \in Seq(ReadCalls)
        BY <1>0, <2>1, <4>1, RestOfReads
      <4> QED  BY <1>0, <2>1, <3>1, <4>2
    <3>2. CASE step' = "idle" /\ reads' = <<>> /\ cut' = TRUE
      BY <3>2
    <3> QED  BY <2>1, <3>1, <3>2
  <2>6. TypeOK'  BY <1>0, <2>1, <2>3, <2>5 DEF TypeOK
  <2> QED  BY <2>1, <2>3, <2>4, <2>6 DEF UpInv
<1>3. CASE HandlerHasAll
  <2>1. /\ step = "read" /\ step' = "answer" /\ stage = "done"
        /\ cut' = (cut \/ PartlyRead(Packets[packet]))
        /\ UNCHANGED <<reads, packet, misled, number, down, written, sealed, short, accepted, peerOk>>
        /\ UNCHANGED <<stage, ok, hello, fed, heard, said, open, sent, line, arrived,
                      inLeft, plain, rbuf, got>>
    BY <1>0, <1>3 DEF HandlerHasAll, writeVars, streamVars
  <2>2. StreamTypeOK'  BY <1>0, <2>1 DEF StreamTypeOK
  <2>3. LayersInv'  BY <1>0, <2>1, SameLayers
  <2>4. cut' \in BOOLEAN  BY <2>1
  <2>5. TypeOK'  BY <1>0, <2>1, <2>2, <2>4 DEF TypeOK
  <2> QED  BY <2>1, <2>3, <2>5, NoUpStep DEF UpInv
<1>4. CASE HandlerPreReads
  <2>1. /\ step = "preread" /\ PreRead /\ step' = "idle" /\ stage # "closed"
        /\ UNCHANGED <<reads, packet, cut, misled, number, down, written, sealed, short, accepted,
                      peerOk>>
    BY <1>0, <1>4 DEF HandlerPreReads, writeVars
  <2>2. StreamTypeOK' /\ LayersInv' /\ UNCHANGED <<sent, got>>
    BY <1>0, <2>1, PreReadKeeps
  <2>3. TypeOK'  BY <1>0, <2>1, <2>2 DEF TypeOK
  <2> QED  BY <2>1, <2>2, <2>3, NoUpStep DEF UpInv
<1>5. CASE HandlerAnswers
  <2>1. /\ step = "answer" /\ step' \in {"preread", "idle"} /\ stage = "done"
        /\ write \/ UNCHANGED <<number, down, written, sealed, short, accepted, peerOk>>
        /\ UNCHANGED <<reads, packet, cut, misled>>
        /\ UNCHANGED <<stage, ok, hello, fed, heard, said, open, sent, line, arrived,
                      inLeft, plain, rbuf, got>>
    BY <1>0, <1>5 DEF HandlerAnswers, writeVars, streamVars
  <2>2. StreamTypeOK'  BY <1>0, <2>1 DEF StreamTypeOK
  <2>3. LayersInv'  BY <1>0, <2>1, SameLayers
  <2>4. /\ number' \in Nat /\ down' \in Seq(Records) /\ written' \in Nat
        /\ sealed' \in Seq(Nat) /\ short' \in BOOLEAN /\ accepted' = accepted /\ peerOk' = peerOk
    <3>1. CASE write  BY <1>0, <3>1, WriteTypes
    <3>2. CASE UNCHANGED <<number, down, written, sealed, short, accepted, peerOk>>
      BY <1>0, <3>2
    <3> QED  BY <2>1, <3>1, <3>2
  <2>5. TypeOK'  BY <1>0, <2>1, <2>2, <2>4 DEF TypeOK
  <2> QED  BY <2>1, <2>3, <2>5, NoUpStep DEF UpInv
<1>6. CASE ForwardReport
  <2>1. /\ write /\ UNCHANGED <<step, reads, packet, cut, misled>>
        /\ UNCHANGED <<stage, ok, hello, fed, heard, said, open, sent, line, arrived,
                      inLeft, plain, rbuf, got>>
    BY <1>6 DEF ForwardReport, handlerVars, streamVars
  <2>2. StreamTypeOK'  BY <1>0, <2>1 DEF StreamTypeOK
  <2>3. LayersInv'  BY <1>0, <2>1, SameLayers
  <2>4. /\ number' \in Nat /\ down' \in Seq(Records) /\ written' \in Nat
        /\ sealed' \in Seq(Nat) /\ short' \in BOOLEAN /\ accepted' = accepted /\ peerOk' = peerOk
    BY <1>0, <2>1, WriteTypes
  <2>5. TypeOK'  BY <1>0, <2>1, <2>2, <2>4 DEF TypeOK
  <2> QED  BY <1>0, <2>1, <2>3, <2>5, NoUpStep DEF UpInv
<1>7. CASE PeerReceives
  <2>1. /\ down # <<>> /\ down' = Tail(down)
        /\ \/ accepted' = Append(accepted, Head(down).msg) /\ peerOk' = peerOk
           \/ peerOk' = FALSE /\ accepted' = accepted
        /\ UNCHANGED <<number, written, sealed, short, step, reads, packet, cut, misled>>
        /\ UNCHANGED <<stage, ok, hello, fed, heard, said, open, sent, line, arrived,
                      inLeft, plain, rbuf, got>>
    BY <1>7 DEF PeerReceives, handlerVars, streamVars
  <2>2. StreamTypeOK'  BY <1>0, <2>1 DEF StreamTypeOK
  <2>3. LayersInv'  BY <1>0, <2>1, SameLayers
  <2>4. down' \in Seq(Records) /\ Head(down).msg \in Nat
    <3>1. Head(down) \in Records /\ Tail(down) \in Seq(Records)  BY <1>0, <2>1
    <3> QED  BY <2>1, <3>1 DEF Records
  <2>5. accepted' \in Seq(Nat)
    <3>1. Append(accepted, Head(down).msg) \in Seq(Nat)  BY <1>0, <2>4
    <3> QED  BY <1>0, <2>1, <3>1
  <2>6. peerOk' \in BOOLEAN  BY <1>0, <2>1
  <2>7. TypeOK'  BY <1>0, <2>1, <2>2, <2>4, <2>5, <2>6 DEF TypeOK
  <2> QED  BY <1>0, <2>1, <2>3, <2>7, NoUpStep DEF UpInv
<1> QED  BY <1>1, <1>2, <1>3, <1>4, <1>5, <1>6, <1>7 DEF Thread

LEMMA UpNext ==
  ASSUME PreSize = RbufSize, UpInv, [Next]_vars
  PROVE  UpInv' /\ UpStep
<1>1. CASE UNCHANGED vars
  <2>1. /\ UNCHANGED <<handlerVars, writeVars>>
        /\ UNCHANGED <<stage, ok, hello, fed, heard, said, open, sent, line, arrived,
                      inLeft, plain, rbuf, got>>
    BY <1>1 DEF vars, streamVars
  <2>2. StreamTypeOK'  BY <2>1 DEF UpInv, TypeOK, StreamTypeOK
  <2>3. LayersInv'  BY <2>1, SameLayers DEF UpInv
  <2> QED  BY <2>1, <2>2, <2>3, HandlersRest, NoUpStep
<1>2. CASE Next
  BY <1>2, StreamSteps, HandlerSteps DEF Next
<1> QED  BY <1>1, <1>2

\* With a read behind ConnAck as large as the read buffer (both are 512 bytes:
\* mqtt_bridge.cpp:614, tls_client.h), every variable keeps its type, whatever
\* the records, the packets and the losses are.
THEOREM TypeCorrectness ==
  ASSUME PreSize = RbufSize
  PROVE  Spec => []TypeOK
<1>1. Init => UpInv  BY UpInit
<1>2. UpInv /\ [Next]_vars => UpInv'  BY UpNext
<1>3. UpInv => TypeOK  BY DEF UpInv
<1> QED  BY <1>1, <1>2, <1>3, PTL DEF Spec

\* With such a read, the handlers of the bridge read exactly the bytes that the
\* program sent, from the first one on: TlsWiFiClient is a byte channel, for
\* buffers, records and packets of every size.
THEOREM HandlersReadAsSent ==
  ASSUME PreSize = RbufSize
  PROVE  Spec => ReadsAsSent
<1>1. Init => UpInv /\ Up!Init  BY UpInit
<1>2. UpInv /\ [Next]_vars => UpInv' /\ [Up!Next]_(Up!vars)  BY UpNext DEF UpStep
<1> QED  BY <1>1, <1>2, PTL DEF Spec, ReadsAsSent, Up!Spec

-----------------------------------------------------------------------------
(***************************************************************************)
(* Downwards: write() numbers the records by itself.                       *)
(***************************************************************************)
\* Every record has the number of a message that was encrypted; as long as none
\* was short, those on their way follow on those that the program has decrypted.
DownInv ==
  /\ written \in Nat /\ sealed \in Seq(Nat) /\ number = Len(sealed)
  /\ down \in Seq(Records) /\ accepted \in Seq(Nat)
  /\ Len(accepted) <= Len(sealed)
  /\ \A i \in 1..Len(accepted) : accepted[i] = sealed[i]
  /\ \A i \in 1..Len(down) : /\ down[i].number < Len(sealed)
                             /\ down[i].msg = sealed[down[i].number + 1]
  /\ short \/ /\ peerOk
              /\ Len(accepted) + Len(down) = Len(sealed)
              /\ \A i \in 1..Len(down) : /\ down[i].whole
                                         /\ down[i].number = Len(accepted) + i - 1

DownStep == [Down!Next]_(Down!vars)

\* A message is encrypted, and its record taken as it may be.
LEMMA SealedSteps ==
  ASSUME DownInv, Taken, Seal, number' = number + 1, written' = written + 1,
         UNCHANGED <<accepted, peerOk>>
  PROVE  DownInv' /\ DownStep
<1> DEFINE k == Len(down)  n == Len(sealed)
<1>1. /\ written \in Nat /\ number = n /\ sealed \in Seq(Nat) /\ down \in Seq(Records)
      /\ accepted \in Seq(Nat) /\ Len(accepted) \in Nat /\ k \in Nat /\ n \in Nat
      /\ Len(accepted) <= n /\ \A i \in 1..Len(accepted) : accepted[i] = sealed[i]
  BY LenIsNat DEF DownInv
<1>2. /\ sealed' \in Seq(Nat) /\ Len(sealed') = n + 1 /\ sealed'[n + 1] = written + 1
      /\ \A i \in 1..n : sealed'[i] = sealed[i]
  BY <1>1 DEF Seal
<1> HIDE DEF n
<1>3. /\ written' \in Nat /\ sealed' \in Seq(Nat)
      /\ number' = Len(sealed') /\ accepted' \in Seq(Nat)
      /\ Len(accepted') <= Len(sealed')
      /\ \A i \in 1..Len(accepted') : accepted'[i] = sealed'[i]
  BY <1>1, <1>2
<1>4. DownStep
  <2>1. sealed = SubSeq(sealed', 1, Len(sealed))
    <3>1. Len(sealed) <= Len(sealed') /\ \A i \in 1..Len(sealed) : sealed[i] = sealed'[i]
      BY <1>1, <1>2 DEF n
    <3> QED  BY <1>1, <1>2, <3>1, FirstOnes
  <2>2. Len(sealed') > Len(sealed)  BY <1>1, <1>2 DEF n
  <2> QED  BY <2>1, <2>2 DEF DownStep, Down!Next, Down!Send, Down!FirstOf
<1>5. ASSUME NEW i \in 1..k
      PROVE  /\ down[i].number < n + 1 /\ down[i].number \in Nat
             /\ down[i].msg = sealed'[down[i].number + 1]
  <2>1. down[i] \in Records  BY <1>1
  <2>2. down[i].number \in Nat  BY <2>1 DEF Records
  <2>3. down[i].number < n /\ down[i].msg = sealed[down[i].number + 1]
    BY DEF DownInv, n
  <2> DEFINE j == down[i].number
  <2> HIDE DEF j
  <2>4. j \in Nat /\ j < n /\ n \in Nat  BY <1>1, <2>2, <2>3 DEF j
  <2>5. j + 1 \in 1..n /\ j < n + 1  BY <2>4
  <2>6. sealed'[j + 1] = sealed[j + 1]  BY <1>2, <2>5
  <2> QED  BY <2>3, <2>4, <2>5, <2>6 DEF j
<1>6. CASE down' = down /\ short'
  <2>1. \A i \in 1..Len(down') : /\ down'[i].number < Len(sealed')
                                 /\ down'[i].msg = sealed'[down'[i].number + 1]
    BY <1>2, <1>5, <1>6
  <2>2. down' \in Seq(Records)  BY <1>1, <1>6
  <2>3. DownInv'  BY <1>3, <1>6, <2>1, <2>2 DEF DownInv
  <2> QED  BY <1>4, <2>3
<1>7. ASSUME NEW whole \in BOOLEAN, down' = Append(down, Written(whole)),
             short' \/ (whole /\ short' = short)
      PROVE  DownInv' /\ DownStep
  <2> DEFINE w == Written(whole)
  <2>1. w \in Records /\ w.msg = written + 1 /\ w.number = n /\ w.whole = whole
    BY <1>1 DEF Written, Records
  <2>2. down' = Append(down, w)  BY <1>7
  <2> HIDE DEF w
  <2>3. /\ down' \in Seq(Records) /\ Len(down') = k + 1 /\ down'[k + 1] = w
        /\ \A i \in 1..k : down'[i] = down[i]
    BY <1>1, <2>1, <2>2
  <2> HIDE DEF k
  <2>4. ASSUME NEW i \in 1..Len(down')
        PROVE  /\ down'[i].number < Len(sealed')
               /\ down'[i].msg = sealed'[down'[i].number + 1]
    <3>1. CASE i = k + 1  BY <1>1, <1>2, <2>1, <2>3, <3>1
    <3>2. CASE i # k + 1
      <4>1. i \in 1..k  BY <1>1, <2>3, <3>2
      <4> QED  BY <1>2, <1>5, <2>3, <4>1
    <3> QED  BY <3>1, <3>2
  <2>5. CASE short'
    <3>1. DownInv'  BY <1>3, <2>3, <2>4, <2>5 DEF DownInv
    <3> QED  BY <1>4, <3>1
  <2>6. CASE ~short'
    <3>1. whole /\ ~short  BY <1>7, <2>6
    <3>2. peerOk /\ Len(accepted) + k = n
          /\ \A i \in 1..k : down[i].whole /\ down[i].number = Len(accepted) + i - 1
      BY <3>1 DEF DownInv, k, n
    <3>3. Len(accepted') + Len(down') = Len(sealed')
      <4> DEFINE m == Len(accepted)
      <4>1. m \in Nat /\ k \in Nat /\ m + k = n  BY <1>1, <3>2
      <4> HIDE DEF m
      <4>2. m + (k + 1) = n + 1  BY <4>1
      <4> QED  BY <1>2, <2>3, <4>2 DEF m
    <3>4. ASSUME NEW i \in 1..Len(down')
          PROVE  down'[i].whole /\ down'[i].number = Len(accepted') + i - 1
      <4>1. CASE i = k + 1
        <5>1. down'[i] = w  BY <2>3, <4>1
        <5>2. Len(accepted') + i - 1 = n  BY <1>1, <3>2, <4>1
        <5> QED  BY <2>1, <3>1, <5>1, <5>2
      <4>2. CASE i # k + 1
        <5>1. i \in 1..k  BY <1>1, <2>3, <4>2
        <5> QED  BY <2>3, <3>2, <5>1
      <4> QED  BY <4>1, <4>2
    <3>5. peerOk'  BY <3>2
    <3>6. DownInv'  BY <1>3, <2>3, <2>4, <3>3, <3>4, <3>5 DEF DownInv
    <3> QED  BY <1>4, <3>6
  <2> QED  BY <2>5, <2>6
<1>8. CASE down' = Append(down, Written(TRUE)) /\ short' = short
  BY <1>7, <1>8
<1>9. CASE down' = Append(down, Written(FALSE)) /\ short'
  BY <1>7, <1>9
<1>10. \/ down' = Append(down, Written(TRUE)) /\ short' = short
       \/ down' = Append(down, Written(FALSE)) /\ short'
       \/ down' = down /\ short'
  BY DEF Taken
<1> QED  BY <1>6, <1>8, <1>9, <1>10

\* When the cipher fails, nothing is sent and the number stays.
LEMMA WriteSteps ==
  ASSUME DownInv, write
  PROVE  DownInv' /\ DownStep
<1>1. CASE Taken /\ Seal /\ number' = number + 1
  <2>1. written' = written + 1 /\ UNCHANGED <<accepted, peerOk>>  BY DEF write
  <2> QED  BY <1>1, <2>1, SealedSteps
<1>2. CASE CipherFails
  <2>1. /\ UNCHANGED <<number, down, sealed, short, accepted, peerOk>>
        /\ written' = written + 1
    BY <1>2 DEF write, CipherFails
  <2>2. written' \in Nat  BY <2>1 DEF DownInv
  <2> QED  BY <2>1, <2>2 DEF DownInv, DownStep, Down!vars
<1> QED  BY <1>1, <1>2 DEF write

LEMMA PeerSteps ==
  ASSUME DownInv, PeerReceives
  PROVE  DownInv' /\ DownStep
<1> DEFINE h == Head(down)  k == Len(down)
<1>1. /\ written \in Nat /\ number = Len(sealed) /\ down \in Seq(Records)
      /\ sealed \in Seq(Nat) /\ accepted \in Seq(Nat)
      /\ Len(accepted) \in Nat /\ k \in Nat /\ Len(sealed) \in Nat
      /\ Len(accepted) <= Len(sealed)
      /\ \A i \in 1..Len(accepted) : accepted[i] = sealed[i]
  BY LenIsNat DEF DownInv
<1>2. /\ down # <<>> /\ down' = Tail(down)
      /\ number' = number /\ written' = written /\ sealed' = sealed /\ short' = short
  BY DEF PeerReceives
<1>3. /\ k > 0 /\ h = down[1] /\ h \in Records
      /\ down' \in Seq(Records) /\ Len(down') = k - 1
      /\ \A i \in 1..(k - 1) : down'[i] = down[i + 1]
  BY <1>1, <1>2
<1>4. h.number \in Nat /\ h.number < Len(sealed) /\ h.msg = sealed[h.number + 1]
      /\ h.msg \in Nat
  <2>1. 1 \in 1..Len(down)  BY <1>1, <1>3
  <2>2. down[1].number < Len(sealed) /\ down[1].msg = sealed[down[1].number + 1]
    BY <2>1 DEF DownInv
  <2> QED  BY <1>3, <2>2 DEF Records
<1> HIDE DEF h
<1>5. ASSUME NEW i \in 1..Len(down')
      PROVE  /\ down'[i].number < Len(sealed)
             /\ down'[i].msg = sealed[down'[i].number + 1]
  <2>1. i + 1 \in 1..Len(down) /\ down'[i] = down[i + 1]  BY <1>1, <1>3
  <2> QED  BY <2>1 DEF DownInv
<1>6. CASE peerOk /\ h.whole /\ h.number = Len(accepted)
  <2>1. accepted' = Append(accepted, h.msg) /\ peerOk' = peerOk
    BY <1>6 DEF PeerReceives, h
  <2> DEFINE n == Len(accepted)
  <2>2. h.msg = sealed[n + 1] /\ n + 1 <= Len(sealed) /\ n \in Nat  BY <1>1, <1>4, <1>6
  <2>3. /\ accepted' \in Seq(Nat) /\ Len(accepted') = n + 1
        /\ accepted'[n + 1] = h.msg /\ \A i \in 1..n : accepted'[i] = accepted[i]
    BY <1>1, <1>4, <2>1
  <2>4. ASSUME NEW i \in 1..Len(accepted') PROVE accepted'[i] = sealed[i]
    <3>1. CASE i = n + 1  BY <2>2, <2>3, <3>1
    <3>2. CASE i # n + 1
      <4>1. i \in 1..n  BY <2>2, <2>3, <3>2
      <4> QED  BY <1>1, <2>3, <4>1
    <3> QED  BY <3>1, <3>2
  <2>5. DownStep
    <3>1. accepted' = SubSeq(sealed, 1, Len(accepted'))
      BY <1>1, <2>2, <2>3, <2>4, FirstOnes
    <3>2. n + 1 \in Len(accepted)..Len(sealed)  BY <1>1, <2>2
    <3> QED  BY <1>2, <2>3, <3>1, <3>2 DEF DownStep, Down!Next, Down!Receive, Down!FirstOf
  <2>6. CASE short
    BY <1>1, <1>2, <1>3, <1>5, <2>2, <2>3, <2>4, <2>5, <2>6 DEF DownInv
  <2>7. CASE ~short
    <3>1. peerOk /\ n + k = Len(sealed)
          /\ \A i \in 1..k : down[i].whole /\ down[i].number = n + i - 1
      BY <2>7 DEF DownInv
    <3> HIDE DEF n, k
    <3>2. Len(accepted') + Len(down') = Len(sealed')
      BY <1>1, <1>2, <1>3, <2>2, <2>3, <3>1
    <3>3. ASSUME NEW i \in 1..Len(down')
          PROVE  down'[i].whole /\ down'[i].number = Len(accepted') + i - 1
      <4>1. i + 1 \in 1..k /\ down'[i] = down[i + 1]  BY <1>1, <1>3
      <4>2. n + (i + 1) - 1 = (n + 1) + i - 1  BY <2>2
      <4> QED  BY <2>3, <3>1, <4>1, <4>2
    <3> QED  BY <1>1, <1>2, <1>3, <1>5, <2>1, <2>2, <2>3, <2>4, <2>5, <3>1, <3>2, <3>3
             DEF DownInv, n
  <2> QED  BY <2>6, <2>7
<1>7. CASE ~(peerOk /\ h.whole /\ h.number = Len(accepted))
  <2>1. accepted' = accepted /\ peerOk' = FALSE
    BY <1>7 DEF PeerReceives, h
  <2>2. short
    <3>1. SUFFICES ASSUME ~short PROVE FALSE  OBVIOUS
    <3>2. /\ peerOk /\ \A i \in 1..Len(down) : /\ down[i].whole
                                              /\ down[i].number = Len(accepted) + i - 1
      BY <3>1 DEF DownInv
    <3>3. 1 \in 1..Len(down) /\ Len(accepted) + 1 - 1 = Len(accepted)  BY <1>1, <1>3
    <3>4. h.whole /\ h.number = Len(accepted)  BY <1>3, <3>2, <3>3
    <3> QED  BY <1>7, <3>2, <3>4
  <2>3. DownStep  BY <1>2, <2>1 DEF DownStep, Down!vars
  <2> QED  BY <1>1, <1>2, <1>3, <1>5, <2>1, <2>2, <2>3 DEF DownInv
<1> QED  BY <1>6, <1>7

LEMMA DownInit == Init => DownInv /\ Down!Init
<1>1. SUFFICES ASSUME Init PROVE DownInv /\ Down!Init
  OBVIOUS
<1>2. /\ number = 0 /\ down = <<>> /\ written = 0 /\ sealed = <<>>
      /\ short = FALSE /\ accepted = <<>> /\ peerOk = TRUE
  BY <1>1 DEF Init
<1>3. Len(<<>>) = 0 /\ <<>> \in Seq(Records) /\ <<>> \in Seq(Nat)  OBVIOUS
<1> QED  BY <1>2, <1>3 DEF DownInv, Down!Init

LEMMA DownNext ==
  ASSUME DownInv, [Next]_vars
  PROVE  DownInv' /\ DownStep
<1>1. CASE UNCHANGED writeVars
  <2>1. UNCHANGED <<number, down, written, sealed, short, accepted, peerOk>>
    BY <1>1 DEF writeVars
  <2> QED  BY <2>1 DEF DownInv, DownStep, Down!vars
<1>2. CASE ~UNCHANGED writeVars
  <2>1. Next  BY <1>2 DEF vars
  <2>2. write \/ PeerReceives
    BY <1>2, <2>1 DEF Next, Stream, Accept, Handshake, ProgramSends, Network, Thread,
      HandleHeader, HandlerReads, HandlerHasAll, HandlerPreReads, HandlerAnswers,
      ForwardReport
  <2> QED  BY <2>2, WriteSteps, PeerSteps
<1> QED  BY <1>1, <1>2

\* Whatever the TCP connection takes of a record, and whenever the cipher fails,
\* what the program decrypts are the messages that write() has encrypted, from
\* the first one on and without a hole (tls_client.cpp:302-308).
THEOREM ProgramDecryptsAsSealed == Spec => DecryptsAsSealed
<1>1. Init => DownInv /\ Down!Init  BY DownInit
<1>2. DownInv /\ [Next]_vars => DownInv' /\ [Down!Next]_(Down!vars)
  BY DownNext DEF DownStep
<1> QED  BY <1>1, <1>2, PTL DEF Spec, DecryptsAsSealed, Down!Spec

\* The numbers that write() keeps by itself are those the program expects: it
\* finds a record wrong only when one was not taken in full.
THEOREM OnlyAShortWriteBreaks == Spec => []OnlyShortBreaks
<1>1. Init => DownInv  BY DownInit
<1>2. DownInv /\ [Next]_vars => DownInv'  BY DownNext
<1>3. DownInv => OnlyShortBreaks  BY DEF DownInv, OnlyShortBreaks
<1> QED  BY <1>1, <1>2, <1>3, PTL DEF Spec

-----------------------------------------------------------------------------
(***************************************************************************)
(* The hello.                                                              *)
(***************************************************************************)
\* Where the pieces of the hello are: with mbedTLS, fed, or in the TCP buffer.
HelloPlaces(n, h, f, l) ==
  \/ n = 0 /\ h = <<>> /\ f = <<>> /\ l = <<>>
  \/ n = 1 /\ h = <<>> /\ f = <<>> /\ l = <<1>>
  \/ n = 1 /\ h = <<>> /\ f = <<1>> /\ l = <<>>
  \/ n = 1 /\ h = <<1>> /\ f = <<>> /\ l = <<>>
  \/ n = 2 /\ h = <<>> /\ f = <<>> /\ l = <<1, 2>>
  \/ n = 2 /\ h = <<>> /\ f = <<1>> /\ l = <<2>>
  \/ n = 2 /\ h = <<1>> /\ f = <<>> /\ l = <<2>>
  \/ n = 2 /\ h = <<1, 2>> /\ f = <<>> /\ l = <<>>

HelloInv ==
  /\ said \in 0..2
  /\ HelloPlaces(said, heard, fed, hello)
  /\ stage = "new" => heard = <<>> /\ fed = <<>>

LEMMA AppendElements ==
  ASSUME NEW s \in Seq(Nat), NEW x \in Nat
  PROVE  /\ Append(s, x) \in Seq(Nat) /\ Len(Append(s, x)) = Len(s) + 1
         /\ Append(s, x)[Len(s) + 1] = x
         /\ \A i \in 1..Len(s) : Append(s, x)[i] = s[i]
OBVIOUS

LEMMA SameElements ==
  ASSUME NEW s \in Seq(Nat), NEW t \in Seq(Nat), Len(s) = Len(t),
         \A i \in 1..Len(s) : s[i] = t[i]
  PROVE  s = t
<1>1. s = [i \in 1..Len(s) |-> s[i]] /\ t = [i \in 1..Len(t) |-> t[i]]  OBVIOUS
<1> QED  BY <1>1

\* The hello's pieces as sequences.
LEMMA HelloPieces ==
  /\ Append(<<>>, 1) = <<1>> /\ Append(<<>>, 2) = <<2>> /\ Append(<<1>>, 2) = <<1, 2>>
  /\ Tail(<<1>>) = <<>> /\ Tail(<<2>>) = <<>> /\ Tail(<<1, 2>>) = <<2>>
  /\ Head(<<1>>) = 1 /\ Head(<<2>>) = 2 /\ Head(<<1, 2>>) = 1
  /\ <<>> \o <<>> = <<>> /\ <<1>> # <<>> /\ <<2>> # <<>> /\ <<1, 2>> # <<>>
<1>1. Append(<<>>, 1) = <<1>>  OBVIOUS
<1>2. Append(<<>>, 2) = <<2>>  OBVIOUS
<1>3. Append(<<1>>, 2) = <<1, 2>>
  <2> DEFINE s == Append(<<1>>, 2)  t == <<1, 2>>
  <2>1. s \in Seq(Nat) /\ Len(s) = 2 /\ s[1] = 1 /\ s[2] = 2
    <3>1. <<1>> \in Seq(Nat) /\ Len(<<1>>) = 1 /\ <<1>>[1] = 1  OBVIOUS
    <3> DEFINE u == <<1>>
    <3>2. u \in Seq(Nat) /\ Len(u) = 1 /\ u[1] = 1  BY <3>1
    <3> HIDE DEF u
    <3>3. Append(u, 2) \in Seq(Nat) /\ Len(Append(u, 2)) = 2
          /\ Append(u, 2)[1] = 1 /\ Append(u, 2)[2] = 2
      <4>1. /\ Append(u, 2) \in Seq(Nat) /\ Len(Append(u, 2)) = Len(u) + 1
            /\ Append(u, 2)[Len(u) + 1] = 2
            /\ \A i \in 1..Len(u) : Append(u, 2)[i] = u[i]
        BY <3>2, AppendElements
      <4>2. Len(u) + 1 = 2 /\ 1 \in 1..Len(u)  BY <3>2
      <4>3. Append(u, 2)[1] = u[1]  BY <4>1, <4>2
      <4> QED  BY <3>2, <4>1, <4>2, <4>3
    <3> QED  BY <3>3 DEF u
  <2>2. t \in Seq(Nat) /\ Len(t) = 2 /\ t[1] = 1 /\ t[2] = 2  OBVIOUS
  <2> HIDE DEF s, t
  <2>3. \A i \in 1..Len(s) : s[i] = t[i]  BY <2>1, <2>2
  <2>4. s = t  BY <2>1, <2>2, <2>3, SameElements
  <2> QED  BY <2>4 DEF s, t
<1>4. Tail(<<1>>) = <<>> /\ Tail(<<2>>) = <<>>  OBVIOUS
<1>5. Tail(<<1, 2>>) = <<2>>
  <2> DEFINE u == <<1, 2>>  t == <<2>>
  <2>1. u \in Seq(Nat) /\ Len(u) = 2 /\ u[1] = 1 /\ u[2] = 2 /\ u # <<>>  OBVIOUS
  <2>2. t \in Seq(Nat) /\ Len(t) = 1 /\ t[1] = 2  OBVIOUS
  <2> HIDE DEF u, t
  <2>3. Tail(u) \in Seq(Nat) /\ Len(Tail(u)) = 1 /\ Tail(u)[1] = 2  BY <2>1
  <2>4. \A i \in 1..Len(Tail(u)) : Tail(u)[i] = t[i]
    <3>1. SUFFICES ASSUME NEW i \in 1..1 PROVE Tail(u)[i] = t[i]  BY <2>3
    <3>2. i = 1  OBVIOUS
    <3> QED  BY <2>2, <2>3, <3>2
  <2>5. Tail(u) = t  BY <2>2, <2>3, <2>4, SameElements
  <2> QED  BY <2>5 DEF u, t
<1>6. Head(<<1>>) = 1 /\ Head(<<2>>) = 2 /\ Head(<<1, 2>>) = 1  OBVIOUS
<1>7. <<>> \o <<>> = <<>>  OBVIOUS
<1>8. <<1>> # <<>> /\ <<2>> # <<>> /\ <<1, 2>> # <<>>  OBVIOUS
<1> QED  BY <1>1, <1>2, <1>3, <1>4, <1>5, <1>6, <1>7, <1>8

LEMMA HelloNext ==
  ASSUME HelloInv, [Next]_vars
  PROVE  HelloInv'
<1>0. said \in {0, 1, 2} /\ HelloPlaces(said, heard, fed, hello)
  BY DEF HelloInv
<1>1. CASE SayHello
  <2>1. /\ said < 2 /\ said' = said + 1 /\ hello' = Append(hello, said + 1)
        /\ heard' = heard /\ fed' = fed /\ stage' = stage
    BY <1>1 DEF SayHello
  <2>2. CASE said = 0
    <3>1. heard = <<>> /\ fed = <<>> /\ hello = <<>>  BY <1>0, <2>2 DEF HelloPlaces
    <3>2. hello' = <<1>>  BY <2>1, <2>2, <3>1
    <3> QED  BY <2>1, <2>2, <3>1, <3>2 DEF HelloInv, HelloPlaces
  <2>3. CASE said = 1
    <3>1. /\ \/ heard = <<>> /\ fed = <<>> /\ hello = <<1>>
             \/ heard = <<>> /\ fed = <<1>> /\ hello = <<>>
             \/ heard = <<1>> /\ fed = <<>> /\ hello = <<>>
      BY <1>0, <2>3 DEF HelloPlaces
    <3>2. \/ heard = <<>> /\ fed = <<>> /\ hello' = <<1, 2>>
          \/ heard = <<>> /\ fed = <<1>> /\ hello' = <<2>>
          \/ heard = <<1>> /\ fed = <<>> /\ hello' = <<2>>
      <4>1. hello' = Append(hello, 2)  BY <2>1, <2>3
      <4> QED  BY <3>1, <4>1, HelloPieces
    <3>3. HelloPlaces(2, heard', fed', hello')
      BY <2>1, <3>1, <3>2 DEF HelloPlaces
    <3>4. said' = 2  BY <2>1, <2>3
    <3> QED  BY <2>1, <3>3, <3>4 DEF HelloInv
  <2> QED  BY <1>0, <2>1, <2>2, <2>3
<1>2. CASE AcceptPeek
  <2>1. /\ stage = "new" /\ hello # <<>> /\ fed' = <<Head(hello)>>
        /\ hello' = Tail(hello) /\ heard' = heard /\ said' = said
        /\ stage' = "accepted"
    BY <1>2 DEF AcceptPeek
  <2>2. heard = <<>> /\ fed = <<>>  BY <2>1 DEF HelloInv
  <2>3. /\ said \in {1, 2}
        /\ (said = 1 => hello = <<1>>) /\ (said = 2 => hello = <<1, 2>>)
    BY <1>0, <2>1, <2>2 DEF HelloPlaces
  <2>4. \/ said = 1 /\ fed' = <<1>> /\ hello' = <<>>
        \/ said = 2 /\ fed' = <<1>> /\ hello' = <<2>>
    BY <2>1, <2>3, HelloPieces
  <2>5. HelloPlaces(said', heard', fed', hello')
    BY <2>1, <2>2, <2>4 DEF HelloPlaces
  <2> QED  BY <2>1, <2>5 DEF HelloInv
<1>3. CASE ContinueHandshake
  <2>1. /\ stage = "accepted" /\ hello \o fed # <<>> /\ said' = said
        /\ heard' = Append(heard, BioRecv.piece) /\ fed' = BioRecv.fed
        /\ hello' = BioRecv.hello /\ stage' # "new"
    BY <1>3 DEF ContinueHandshake
  <2>2. fed # <<>> \/ hello # <<>>  BY <2>1, HelloPieces
  <2>3. \/ fed = <<1>> /\ heard = <<>> /\ said = 1 /\ hello = <<>>
        \/ fed = <<1>> /\ heard = <<>> /\ said = 2 /\ hello = <<2>>
        \/ fed = <<>> /\ heard = <<>> /\ said = 1 /\ hello = <<1>>
        \/ fed = <<>> /\ heard = <<>> /\ said = 2 /\ hello = <<1, 2>>
        \/ fed = <<>> /\ heard = <<1>> /\ said = 2 /\ hello = <<2>>
    <3>1. CASE fed # <<>>  BY <1>0, <3>1 DEF HelloPlaces
    <3>2. CASE fed = <<>>
      <4>1. hello # <<>>  BY <2>2, <3>2
      <4>2. fed # <<1>>  BY <3>2, HelloPieces
      <4> QED  BY <1>0, <3>2, <4>1, <4>2 DEF HelloPlaces
    <3> QED  BY <3>1, <3>2
  <2>4. CASE fed = <<1>>
    <3>1. BioRecv = [piece |-> 1, fed |-> <<>>, hello |-> hello]
      BY <2>4, HelloPieces DEF BioRecv
    <3>2. heard' = <<1>> /\ fed' = <<>> /\ hello' = hello
      BY <2>1, <2>3, <2>4, <3>1, HelloPieces
    <3>3. HelloPlaces(said', heard', fed', hello')
      BY <2>1, <2>3, <2>4, <3>2, HelloPieces DEF HelloPlaces
    <3> QED  BY <1>0, <2>1, <3>3 DEF HelloInv
  <2>5. CASE fed = <<>>
    <3>1. BioRecv = [piece |-> Head(hello), fed |-> fed, hello |-> Tail(hello)]
      BY <2>5 DEF BioRecv
    <3>2. heard' = Append(heard, Head(hello)) /\ fed' = <<>> /\ hello' = Tail(hello)
      BY <2>1, <2>5, <3>1
    <3>3. \/ said = 1 /\ heard' = <<1>> /\ hello' = <<>>
          \/ said = 2 /\ heard' = <<1>> /\ hello' = <<2>>
          \/ said = 2 /\ heard' = <<1, 2>> /\ hello' = <<>>
      BY <2>3, <2>5, <3>2, HelloPieces
    <3>4. HelloPlaces(said', heard', fed', hello')
      BY <2>1, <3>2, <3>3 DEF HelloPlaces
    <3> QED  BY <1>0, <2>1, <3>4 DEF HelloInv
  <2> QED  BY <2>3, <2>4, <2>5
<1>4. CASE UNCHANGED <<hello, fed, heard, said>> /\ (stage' = "new" => stage = "new")
  BY <1>4 DEF HelloInv
<1>5. \/ SayHello \/ AcceptPeek \/ ContinueHandshake
      \/ UNCHANGED <<hello, fed, heard, said>> /\ (stage' = "new" => stage = "new")
  <2>1. CASE UNCHANGED vars  BY <2>1 DEF vars, streamVars
  <2>2. CASE Next
    BY <2>2 DEF Next, Stream, Accept, Refuse, Handshake, HandshakeFails, ProgramSends,
      SendRecord, Network, Arrive, PeerCloses, BreakTls, DropClient, Stop, Thread,
      HandleHeader, HandlerReads, HandlerHasAll, HandlerPreReads, HandlerAnswers,
      ForwardReport, PeerReceives, HasRead, Leave, PreRead, helloVars, streamVars
  <2> QED  BY <2>1, <2>2
<1> QED  BY <1>1, <1>2, <1>3, <1>4, <1>5

\* mbedTLS gets the hello from its first byte on, the byte that acceptClient()
\* took from the connection and put back included.
THEOREM HelloArrivesInOrder == Spec => []HelloInOrder
<1>1. Init => HelloInv
  BY DEF Init, StreamInit, HelloInv, HelloPlaces
<1>2. HelloInv /\ [Next]_vars => HelloInv'  BY HelloNext
<1>3. HelloInv => HelloInOrder
  <2>1. SUFFICES ASSUME HelloInv PROVE HelloInOrder  OBVIOUS
  <2>2. said \in {0, 1, 2} /\ HelloPlaces(said, heard, fed, hello)
    BY <2>1 DEF HelloInv
  <2> QED  BY <2>2 DEF HelloPlaces, HelloInOrder
<1> QED  BY <1>1, <1>2, <1>3, PTL DEF Spec

-----------------------------------------------------------------------------
(***************************************************************************)
(* The framing of the packets, for every sequence of packets: where in the *)
(* byte stream a handler of the bridge stands.                             *)
(***************************************************************************)
PacketSet == [reads : Seq(ReadCalls), size : Nat \ {0}, connect : BOOLEAN]

LEMMA PacketTypes ==
  ASSUME NEW p \in 1..Len(Packets)
  PROVE  /\ Packets[p] \in PacketSet
         /\ Packets[p].reads \in Seq(ReadCalls) /\ Packets[p].size \in Nat \ {0}
<1>1. Packets \in Seq(PacketSet)  BY PacketAssumption DEF PacketSet
<1>2. \A x \in PacketSet : x.reads \in Seq(ReadCalls) /\ x.size \in Nat \ {0}
  BY DEF PacketSet
<1> HIDE DEF PacketSet
<1>3. Packets[p] \in PacketSet  BY <1>1
<1> QED  BY <1>2, <1>3

LEMMA PacketCount == Len(Packets) \in Nat \ {0}
BY PacketAssumption

-----------------------------------------------------------------------------
(***************************************************************************)
(* The two recursive functions of the model.                               *)
(***************************************************************************)
\* A packet begins where the one before it ends.
LEMMA Starting ==
  /\ Start[1] = 1
  /\ \A p \in 1..Len(Packets) : Start[p + 1] = Start[p] + Packets[p].size
  /\ \A p \in 1..(Len(Packets) + 1) : Start[p] \in Nat
<1> DEFINE last == Len(Packets) + 1
           sizes == [p \in 2..last |-> Packets[p - 1].size]
<1>1. last \in Nat /\ 1 <= last /\ 1 + 1 = 2  BY PacketCount
<1>2. sizes \in [2..last -> Nat]
  <2>1. \A p \in 2..last : p - 1 \in 1..Len(Packets)  BY PacketCount
  <2> QED  BY <2>1, PacketTypes
<1>3. Start = [p \in 1..last |-> IF p = 1 THEN 1 ELSE Start[p - 1] + Packets[p - 1].size]
  <2>1. PICK f : IsSum(f, 1, last, 1, sizes)
    <3> HIDE DEF last, sizes
    <3> QED  BY <1>1, <1>2, SumExists
  <2>2. \A p \in 1..last : p # 1 => sizes[p] = Packets[p - 1].size  BY <1>1
  <2>3. f = [p \in 1..last |-> IF p = 1 THEN 1 ELSE f[p - 1] + Packets[p - 1].size]
    <3> HIDE DEF last, sizes
    <3> QED  BY <2>1, <2>2 DEF IsSum
  <2> QED  BY <2>3 DEF Start
<1>4. IsSum(Start, 1, last, 1, sizes)
  <2>1. \A p \in 1..last : p # 1 => sizes[p] = Packets[p - 1].size  BY <1>1
  <2> HIDE DEF last, sizes
  <2> QED  BY <1>3, <2>1 DEF IsSum
<1>5. /\ Start[1] = 1
      /\ \A p \in 1..(last - 1) : Start[p + 1] = Start[p] + sizes[p + 1]
      /\ \A p \in 1..last : Start[p] \in Nat
  <2> HIDE DEF last, sizes
  <2> QED  BY <1>1, <1>2, <1>4, SumGoesOn
<1>6. last - 1 = Len(Packets) /\ \A p \in 1..Len(Packets) : sizes[p + 1] = Packets[p].size
  BY PacketCount
<1> QED  BY <1>5, <1>6

\* Every read adds its bytes.
LEMMA ReadingUp ==
  ASSUME NEW P \in PacketSet
  PROVE  /\ ReadUpTo(P)[0] = 2
         /\ \A i \in 0..(Len(P.reads) - 1) :
               ReadUpTo(P)[i + 1] = ReadUpTo(P)[i] + P.reads[i + 1].n
         /\ \A i \in 0..Len(P.reads) : ReadUpTo(P)[i] \in Nat
<1> DEFINE last == Len(P.reads)
           counts == [i \in 1..last |-> P.reads[i].n]
<1>1. last \in Nat /\ 0 <= last /\ 0 + 1 = 1 /\ counts \in [1..last -> Nat]
  <2>1. P.reads \in Seq(ReadCalls)  BY DEF PacketSet
  <2>2. \A i \in 1..last : P.reads[i] \in ReadCalls  BY <2>1
  <2> QED  BY <2>1, <2>2 DEF ReadCalls
<1>2. ReadUpTo(P) = [i \in 0..last |-> IF i = 0 THEN 2 ELSE ReadUpTo(P)[i - 1] + P.reads[i].n]
  <2>1. PICK f : IsSum(f, 0, last, 2, counts)
    <3> HIDE DEF last, counts
    <3> QED  BY <1>1, SumExists
  <2>2. \A i \in 0..last : i # 0 => counts[i] = P.reads[i].n  BY <1>1
  <2>3. f = [i \in 0..last |-> IF i = 0 THEN 2 ELSE f[i - 1] + P.reads[i].n]
    <3> HIDE DEF last, counts
    <3> QED  BY <2>1, <2>2 DEF IsSum
  <2> QED  BY <2>3 DEF ReadUpTo
<1>3. IsSum(ReadUpTo(P), 0, last, 2, counts)
  <2>1. \A i \in 0..last : i # 0 => counts[i] = P.reads[i].n  BY <1>1
  <2> HIDE DEF last, counts
  <2> QED  BY <1>2, <2>1 DEF IsSum
<1>4. /\ ReadUpTo(P)[0] = 2
      /\ \A i \in 0..(last - 1) : ReadUpTo(P)[i + 1] = ReadUpTo(P)[i] + counts[i + 1]
      /\ \A i \in 0..last : ReadUpTo(P)[i] \in Nat
  <2> HIDE DEF last, counts
  <2> QED  BY <1>1, <1>3, SumGoesOn
<1>5. \A i \in 0..(last - 1) : counts[i + 1] = P.reads[i + 1].n
  BY <1>1
<1> QED  BY <1>4, <1>5

-----------------------------------------------------------------------------
(***************************************************************************)
(* Where a handler stands.                                                 *)
(***************************************************************************)
\* With the reads "rest" to make, which one comes next; 0 is the byte of the
\* remaining length.
NextOf(P, rest) == Len(P.reads) + 1 - Len(rest)

\* The handler of P, which begins at "first", has made its reads up to there
\* when n bytes are read.
Within(P, first, rest, n) ==
  /\ Len(rest) <= Len(P.reads) + 1
  /\ \A j \in 2..Len(rest) : rest[j] = P.reads[NextOf(P, rest) + j - 1]
  /\ IF rest # <<>>
     THEN n + 1 + rest[1].n = first + ReadUpTo(P)[NextOf(P, rest)]
     ELSE n + 1 = first + ReadUpTo(P)[Len(P.reads)]

LEMMA NotEmpty ==
  ASSUME NEW S, NEW s \in Seq(S), s # <<>>
  PROVE  Len(s) \in Nat \ {0} /\ s[1] \in S
OBVIOUS

LEMMA OneLeft ==
  ASSUME NEW x \in Nat \ {0}, x <= 1
  PROVE  x = 1
OBVIOUS

LEMMA SameEnd ==
  ASSUME NEW n \in Nat, NEW m \in Nat, NEW x \in Nat, NEW y, NEW e \in Nat,
         m < x, y = x - m, n + 1 + x = e
  PROVE  n + m + 1 + y = e
OBVIOUS

LEMMA LastOne ==
  ASSUME NEW all \in Nat, NEW x \in Nat, NEW k, 0 = x - 1, k = all + 1 - x
  PROVE  k = all
OBVIOUS

LEMMA WithinBegins ==
  ASSUME NEW P \in PacketSet, NEW first \in Nat
  PROVE  Within(P, first, <<[each |-> TRUE, n |-> 1]>> \o P.reads, first)
<1> DEFINE c == [each |-> TRUE, n |-> 1]
           rest == <<c>> \o P.reads
<1>1. P.reads \in Seq(ReadCalls) /\ c.n = 1 /\ ReadUpTo(P)[0] = 2
  BY ReadingUp DEF PacketSet
<1> HIDE DEF c
<1>2. /\ Len(P.reads) \in Nat /\ Len(rest) = Len(P.reads) + 1 /\ rest # <<>>
      /\ rest[1] = c /\ \A j \in 2..Len(rest) : rest[j] = P.reads[j - 1]
  BY <1>1
<1> HIDE DEF rest
<1>3. NextOf(P, rest) = 0  BY <1>2 DEF NextOf
<1>4. \A j \in 2..Len(rest) : rest[j] = P.reads[0 + j - 1]  BY <1>2
<1>5. first + 1 + rest[1].n = first + ReadUpTo(P)[0]  BY <1>1, <1>2
<1> QED  BY <1>2, <1>3, <1>4, <1>5 DEF Within, rest, c

LEMMA ReadsOfPacket ==
  ASSUME NEW P \in PacketSet, NEW rest \in Seq(ReadCalls), rest # <<>>,
         Len(rest) <= Len(P.reads) + 1
  PROVE  /\ Len(P.reads) \in Nat /\ Len(rest) \in Nat \ {0}
         /\ rest[1] \in ReadCalls /\ rest[1].n \in Nat \ {0}
         /\ NextOf(P, rest) \in 0..Len(P.reads)
         /\ \A i \in 1..Len(P.reads) : P.reads[i].n \in Nat \ {0}
<1>1. P.reads \in Seq(ReadCalls)  BY DEF PacketSet
<1>2. Len(P.reads) \in Nat /\ \A i \in 1..Len(P.reads) : P.reads[i] \in ReadCalls
  BY <1>1
<1>3. Len(rest) \in Nat \ {0} /\ rest[1] \in ReadCalls  BY NotEmpty
<1>4. NextOf(P, rest) \in 0..Len(P.reads)  BY <1>2, <1>3 DEF NextOf
<1> QED  BY <1>2, <1>3, <1>4 DEF ReadCalls

\* A read in full.
LEMMA WithinRead ==
  ASSUME NEW P \in PacketSet, NEW first \in Nat, NEW n \in Nat,
         NEW rest \in Seq(ReadCalls), rest # <<>>, Within(P, first, rest, n)
  PROVE  Within(P, first, Tail(rest), n + rest[1].n)
<1> DEFINE k == NextOf(P, rest)  up == ReadUpTo(P)  tail == Tail(rest)  all == Len(P.reads)
           l == NextOf(P, tail)
<1>1. /\ Len(rest) <= all + 1
      /\ \A j \in 2..Len(rest) : rest[j] = P.reads[k + j - 1]
      /\ n + 1 + rest[1].n = first + up[k]
  BY DEF Within
<1>2. /\ all \in Nat /\ Len(rest) \in Nat \ {0} /\ rest[1].n \in Nat \ {0} /\ k \in 0..all
      /\ \A i \in 1..all : P.reads[i].n \in Nat \ {0}
  BY <1>1, ReadsOfPacket
<1>3. /\ \A i \in 0..(all - 1) : up[i + 1] = up[i] + P.reads[i + 1].n
      /\ \A i \in 0..all : up[i] \in Nat
  BY ReadingUp
<1>4. /\ Len(tail) = Len(rest) - 1 /\ Len(tail) \in Nat
      /\ \A j \in 1..Len(tail) : tail[j] = rest[j + 1]
      /\ tail = <<>> => Len(tail) = 0
      /\ tail # <<>> => Len(tail) >= 1
  <2>1. tail \in Seq(ReadCalls) /\ Len(tail) = Len(rest) - 1
        /\ \A j \in 1..Len(tail) : tail[j] = rest[j + 1]
    OBVIOUS
  <2> HIDE DEF tail
  <2> QED  BY <1>2, <2>1
<1>5. k = all + 1 - Len(rest) /\ l = all + 1 - Len(tail)  BY DEF NextOf
<1> HIDE DEF k, l, up, tail, all
<1>6. l = k + 1 /\ Len(tail) <= all + 1  BY <1>1, <1>2, <1>4, <1>5
<1>7. ASSUME NEW j \in 2..Len(tail) PROVE tail[j] = P.reads[l + j - 1]
  <2>1. j + 1 \in 2..Len(rest) /\ j \in 1..Len(tail)  BY <1>2, <1>4
  <2>2. tail[j] = P.reads[k + (j + 1) - 1]  BY <1>1, <1>4, <2>1
  <2>3. k + (j + 1) - 1 = l + j - 1  BY <1>2, <1>6
  <2> QED  BY <2>2, <2>3
<1>8. (n + rest[1].n) + 1 = first + up[k]
  <2>1. n + 1 + rest[1].n = first + up[k] /\ rest[1].n \in Nat  BY <1>1, <1>2
  <2> QED  BY <2>1
<1>9. CASE tail # <<>>
  <2>1. 2 \in 2..Len(rest) /\ 1 \in 1..Len(tail)  BY <1>2, <1>4, <1>9
  <2>2. tail[1] = P.reads[k + 2 - 1]  BY <1>1, <1>4, <2>1
  <2>3. k + 2 - 1 = k + 1 /\ k \in 0..(all - 1) /\ k + 1 \in 1..all
    BY <1>2, <1>4, <1>5, <2>1
  <2>4. up[k + 1] = up[k] + tail[1].n /\ up[k] \in Nat /\ tail[1].n \in Nat
    BY <1>2, <1>3, <2>2, <2>3
  <2>5. (n + rest[1].n) + 1 + tail[1].n = first + up[l]
    BY <1>2, <1>6, <1>8, <2>4
  <2> QED  BY <1>6, <1>7, <1>9, <2>5 DEF Within, l, up, tail, all
<1>10. CASE tail = <<>>
  <2>1. k = all
    <3>1. 0 = Len(rest) - 1 /\ Len(rest) \in Nat  BY <1>2, <1>4, <1>10
    <3> QED  BY <1>2, <1>5, <3>1, LastOne
  <2>2. (n + rest[1].n) + 1 = first + up[all]  BY <1>8, <2>1
  <2> QED  BY <1>6, <1>7, <1>10, <2>2 DEF Within, l, up, tail, all
<1> QED  BY <1>9, <1>10

\* A part of one.
LEMMA WithinPart ==
  ASSUME NEW P \in PacketSet, NEW first \in Nat, NEW n \in Nat,
         NEW rest \in Seq(ReadCalls), rest # <<>>, Within(P, first, rest, n),
         NEW m \in Nat, m < rest[1].n
  PROVE  Within(P, first, [rest EXCEPT ![1].n = @ - m], n + m)
<1> DEFINE k == NextOf(P, rest)  up == ReadUpTo(P)  more == [rest EXCEPT ![1].n = @ - m]
<1>1. /\ Len(rest) <= Len(P.reads) + 1
      /\ \A j \in 2..Len(rest) : rest[j] = P.reads[k + j - 1]
      /\ n + 1 + rest[1].n = first + up[k]
  BY DEF Within
<1>2. /\ Len(P.reads) \in Nat /\ Len(rest) \in Nat \ {0} /\ rest[1].n \in Nat \ {0}
      /\ rest[1] \in ReadCalls /\ k \in 0..Len(P.reads)
  BY <1>1, ReadsOfPacket
<1>3. /\ Len(more) = Len(rest) /\ more # <<>>
      /\ more[1] = [rest[1] EXCEPT !.n = @ - m]
      /\ \A j \in 2..Len(more) : more[j] = rest[j]
  BY <1>2
<1>4. more[1].n = rest[1].n - m  BY <1>2, <1>3 DEF ReadCalls
<1>5. NextOf(P, more) = k  BY <1>3 DEF NextOf
<1> HIDE DEF more, k, up
<1>6. n + m + 1 + more[1].n = first + up[k]
  <2>1. up[k] \in Nat  BY <1>2, ReadingUp DEF up
  <2> DEFINE x == rest[1].n  y == more[1].n  e == first + up[k]
  <2>2. x \in Nat /\ e \in Nat /\ m < x /\ y = x - m /\ n + 1 + x = e
    BY <1>1, <1>2, <1>4, <2>1
  <2> HIDE DEF x, y, e
  <2>3. n + m + 1 + y = e  BY <2>2, SameEnd
  <2> QED  BY <2>3 DEF x, y, e
<1>7. Len(more) <= Len(P.reads) + 1 /\ \A j \in 2..Len(more) : more[j] = P.reads[k + j - 1]
  BY <1>1, <1>3
<1>8. Within(P, first, more, n + m)  BY <1>3, <1>5, <1>6, <1>7 DEF Within, up
<1> QED  BY <1>8 DEF more

\* As long as no handler has missed the end of its packet, the bridge stands at
\* the beginning of a packet or within the one that it takes its bytes for.
FrameInv ==
  /\ sent <= MaxBytes
  /\ ~cut => /\ ~misled
             /\ step # "read" => \E p \in 1..(Len(Packets) + 1) : Len(got) + 1 = Start[p]
             /\ step = "read" => Within(Packets[packet], Start[packet], reads, Len(got))

LEMMA FrameInit == Init => FrameInv
<1> SUFFICES ASSUME Init PROVE FrameInv
  OBVIOUS
<1>1. sent = 0 /\ got = <<>> /\ step = "idle" /\ misled = FALSE
  BY DEF Init, StreamInit
<1>2. 1 \in 1..(Len(Packets) + 1) /\ Start[Len(Packets) + 1] \in Nat
  BY PacketCount, Starting
<1>3. Len(got) + 1 = Start[1]  BY <1>1, Starting
<1>4. 0 <= MaxBytes
  <2>1. Len(Packets) + 1 \in 1..(Len(Packets) + 1)  BY PacketCount
  <2>2. \A p \in 1..(Len(Packets) + 1) : Start[p] >= 1
    <3> DEFINE S == {p \in 1..(Len(Packets) + 1) : Start[p] >= 1}
    <3>1. 1 \in S  BY <1>2, Starting
    <3>2. ASSUME NEW p \in 1..((Len(Packets) + 1) - 1), p \in S PROVE p + 1 \in S
      <4>1. p \in 1..Len(Packets) /\ p + 1 \in 1..(Len(Packets) + 1)  BY PacketCount
      <4>2. Start[p] \in Nat /\ Start[p] >= 1 /\ Packets[p].size \in Nat
        BY <3>2, <4>1, PacketTypes, Starting
      <4> QED  BY <4>1, <4>2, Starting
    <3>3. 1 \in Int /\ Len(Packets) + 1 \in Int  BY PacketCount
    <3> HIDE DEF S
    <3>4. \A p \in 1..(Len(Packets) + 1) : p \in S
      BY ONLY <3>1, <3>2, <3>3, InductionFrom, Zenon
    <3> QED  BY <3>4 DEF S
  <2> QED  BY <1>2, <2>1, <2>2 DEF MaxBytes
<1> QED  BY <1>1, <1>2, <1>3, <1>4 DEF FrameInv

\* What does not move the handler keeps it where it is.
LEMMA FrameRests ==
  ASSUME FrameInv, UNCHANGED <<handlerVars, sent, got>>
  PROVE  FrameInv'
<1>1. /\ step' = step /\ reads' = reads /\ packet' = packet /\ cut' = cut /\ misled' = misled
      /\ sent' = sent /\ got' = got
  BY DEF handlerVars
<1> QED  BY <1>1 DEF FrameInv

LEMMA FrameOfStream ==
  ASSUME FrameInv,
         \/ Stream(SayHello) \/ Accept \/ Stream(Refuse)
         \/ Handshake \/ Stream(HandshakeFails)
         \/ ProgramSends \/ Network \/ Stream(PeerCloses) \/ Stream(BreakTls)
         \/ Stream(DropClient) \/ ForwardReport \/ PeerReceives
  PROVE  FrameInv'
<1>1. CASE ProgramSends
  <2>1. PICK n \in 1..MaxRecord : sent + n <= MaxBytes /\ SendRecord(n)
    BY <1>1 DEF ProgramSends, Stream
  <2>2. sent' = sent + n /\ got' = got
    BY <2>1 DEF SendRecord, readVars
  <2>3. /\ step' = step /\ reads' = reads /\ packet' = packet /\ cut' = cut
        /\ misled' = misled
    BY <1>1 DEF ProgramSends, Stream, handlerVars
  <2> QED  BY <2>1, <2>2, <2>3 DEF FrameInv
<1>2. CASE ~ProgramSends
  <2>1. UNCHANGED <<sent, got>>
    BY <1>2 DEF Stream, SayHello, Accept, AcceptPeek, Refuse, Handshake, ContinueHandshake,
                HandshakeFails, Network, Arrive, PeerCloses, BreakTls, DropClient, Stop,
                ForwardReport, PeerReceives, streamVars
  <2>2. UNCHANGED handlerVars
    BY <1>2 DEF Stream, Accept, Handshake, Network, ForwardReport, PeerReceives
  <2> QED  BY <2>1, <2>2, FrameRests
<1> QED  BY <1>1, <1>2

\* What a handler reads next is the byte behind those it has.
LEMMA ReadsInPlace ==
  ASSUME UpInv, stage # "closed",
         NEW r, \/ r = ReadOne
                \/ \E n \in Nat \ {0} : r = ReadBuffer(n)
  PROVE  /\ r.bytes \in Seq(Nat) /\ Len(r.bytes) \in Nat
         /\ Run(r.bytes, Len(got))
         /\ got \o r.bytes \in Seq(Nat)
         /\ Len(got \o r.bytes) = Len(got) + Len(r.bytes)
         /\ Len(got) + Len(r.bytes) <= sent
         /\ Len(got) \in Nat /\ sent \in Nat
         /\ r = ReadOne => Len(r.bytes) <= 1
<1>1. StreamTypeOK /\ LayersInv  BY DEF UpInv, TypeOK
<1>2. /\ Len(got) \in Nat /\ InOrder(Unread, Len(got), sent) /\ Len(rbuf) <= RbufSize
      /\ got \in Seq(Nat) /\ sent \in Nat /\ Run(got, 0)
  BY <1>1, LenIsNat DEF StreamTypeOK, LayersInv
<1>3. r \in Results /\ InOrder(r, Len(got), sent) /\ (r = ReadOne => Len(r.bytes) <= 1)
  <2>1. CASE r = ReadOne  BY <1>1, <1>2, <2>1, ReadOneInOrder
  <2>2. CASE r # ReadOne
    <3>1. PICK n \in Nat \ {0} : r = ReadBuffer(n)  BY <2>2
    <3> QED  BY <1>1, <1>2, <2>2, <3>1, ReadBufferInOrder
  <2> QED  BY <2>1, <2>2
<1>4. r.bytes \in Seq(Nat)  BY <1>3 DEF Results
<1>5. Run(r.bytes, Len(got))  BY <1>3 DEF InOrder
<1> QED  BY <1>2, <1>3, <1>4, <1>5, GotMore, LenIsNat

\* A header is taken where a packet begins.
LEMMA FrameOfHeader ==
  ASSUME UpInv, FrameInv, HandleHeader
  PROVE  FrameInv'
<1> DEFINE r == ReadOne
<1>1. /\ stage = "done" /\ step = "idle" /\ got' = got \o r.bytes /\ sent' = sent
      /\ IF r.bytes = <<>> THEN UNCHANGED handlerVars
         ELSE /\ packet' \in TakenFor(r.bytes[1])
              /\ reads' = <<[each |-> TRUE, n |-> 1]>> \o Packets[packet'].reads
              /\ step' = "read"
              /\ misled' = (misled \/ r.bytes[1] \notin Starts)
              /\ cut' = cut
  BY DEF HandleHeader, HasRead, Leave
<1>2. /\ r.bytes \in Seq(Nat) /\ Len(r.bytes) \in Nat /\ Len(r.bytes) <= 1
      /\ Run(r.bytes, Len(got)) /\ Len(got \o r.bytes) = Len(got) + Len(r.bytes)
      /\ Len(got) + Len(r.bytes) <= sent /\ Len(got) \in Nat /\ sent \in Nat
      /\ got \in Seq(Nat)
  <2>1. stage # "closed"  BY <1>1
  <2> QED  BY <2>1, ReadsInPlace DEF UpInv, TypeOK, StreamTypeOK
<1> HIDE DEF r
<1>3. CASE r.bytes = <<>>
  <2>1. UNCHANGED <<handlerVars, sent, got>>  BY <1>1, <1>2, <1>3
  <2> QED  BY <2>1, FrameRests
<1>4. CASE r.bytes # <<>>
  <2>1. Len(r.bytes) = 1 /\ Len(got') = Len(got) + 1 /\ r.bytes[1] = Len(got) + 1
    <3>1. Len(r.bytes) \in Nat \ {0}  BY <1>2, <1>4, NotEmpty
    <3>2. Len(r.bytes) = 1  BY <1>2, <3>1, OneLeft
    <3> QED  BY <1>1, <1>2, <3>2 DEF Run
  <2>2. sent' <= MaxBytes  BY <1>1 DEF FrameInv
  <2>3. SUFFICES ASSUME ~cut
                 PROVE  ~misled' /\ Within(Packets[packet'], Start[packet'], reads', Len(got'))
    BY <1>1, <1>4, <2>2 DEF FrameInv
  <2>4. PICK p \in 1..(Len(Packets) + 1) : Len(got) + 1 = Start[p]
    BY <1>1, <2>3 DEF FrameInv
  <2>5. p \in 1..Len(Packets)
    <3>1. Len(got) + 1 <= MaxBytes /\ Start[p] \in Nat /\ Start[Len(Packets) + 1] \in Nat
      <4>1. Len(Packets) + 1 \in 1..(Len(Packets) + 1)  BY PacketCount
      <4>2. Start[p] \in Nat /\ Start[Len(Packets) + 1] \in Nat  BY <4>1, Starting
      <4>3. sent <= MaxBytes  BY DEF FrameInv
      <4> QED  BY <1>2, <2>1, <4>2, <4>3 DEF MaxBytes
    <3>2. p # Len(Packets) + 1  BY <1>2, <2>4, <3>1 DEF MaxBytes
    <3> QED  BY <3>2, PacketCount
  <2>6. r.bytes[1] \in Starts  BY <2>1, <2>4, <2>5 DEF Starts
  <2>7. ~misled'  BY <1>1, <1>4, <2>3, <2>6 DEF FrameInv
  <2>8. packet' \in 1..Len(Packets) /\ Start[packet'] = Len(got')
    BY <1>1, <1>4, <2>1, <2>6 DEF TakenFor
  <2>9. Packets[packet'] \in PacketSet  BY <2>8, PacketTypes
  <2>10. Start[packet'] \in Nat
    <3>1. packet' \in 1..(Len(Packets) + 1)  BY <2>8, PacketCount
    <3> QED  BY <3>1, Starting
  <2>11. reads' = <<[each |-> TRUE, n |-> 1]>> \o Packets[packet'].reads  BY <1>1, <1>4
  <2>12. Within(Packets[packet'], Start[packet'], reads', Len(got'))
    BY <2>8, <2>9, <2>10, <2>11, WithinBegins
  <2> QED  BY <2>7, <2>12
<1> QED  BY <1>3, <1>4

\* Within a packet every byte is counted.
LEMMA FrameOfReads ==
  ASSUME UpInv, FrameInv, HandlerReads
  PROVE  FrameInv'
<1> DEFINE r == NextRead
<1>1. /\ step = "read" /\ reads # <<>> /\ stage = "done"
      /\ got' = got \o r.bytes /\ sent' = sent /\ packet' = packet /\ misled' = misled
      /\ IF r.bytes # <<>>
         THEN reads' = ReadsAfter(Len(r.bytes)) /\ step' = step /\ cut' = cut
         ELSE cut' = TRUE
  BY DEF HandlerReads, HasRead, Leave, UpInv
<1>2. /\ reads \in Seq(ReadCalls) /\ packet \in 1..Len(Packets)
      /\ Head(reads) = reads[1] /\ reads[1].n \in Nat \ {0}
  <2>1. reads \in Seq(ReadCalls) /\ packet \in 1..Len(Packets)  BY DEF UpInv, TypeOK
  <2>2. reads[1] \in ReadCalls  BY <1>1, <2>1, NotEmpty
  <2> QED  BY <1>1, <2>1, <2>2 DEF ReadCalls
<1>3. /\ Len(r.bytes) \in Nat /\ Len(got \o r.bytes) = Len(got) + Len(r.bytes)
      /\ Len(got) \in Nat /\ Len(r.bytes) <= reads[1].n
  <2>1. CASE Head(reads).each
    <3>1. r = ReadOne  BY <2>1 DEF NextRead
    <3> HIDE DEF r
    <3>2. /\ r.bytes \in Seq(Nat) /\ Len(r.bytes) \in Nat /\ Len(r.bytes) <= 1
          /\ Len(got \o r.bytes) = Len(got) + Len(r.bytes) /\ Len(got) \in Nat
      BY <1>1, <3>1, ReadsInPlace
    <3> QED  BY <1>2, <3>2
  <2>2. CASE ~Head(reads).each
    <3> DEFINE n == reads[1].n
    <3>1. r = ReadBuffer(n)  BY <1>2, <2>2 DEF NextRead
    <3> HIDE DEF r, n
    <3>2. n \in Nat \ {0}  BY <1>2 DEF n
    <3>3. /\ r.bytes \in Seq(Nat) /\ Len(r.bytes) \in Nat
          /\ Len(got \o r.bytes) = Len(got) + Len(r.bytes) /\ Len(got) \in Nat
      BY <1>1, <3>1, <3>2, ReadsInPlace
    <3>4. Len(r.bytes) <= n
      <4>1. StreamTypeOK /\ LayersInv  BY DEF UpInv, TypeOK
      <4>2. InOrder(Unread, Len(got), sent)  BY <1>1, <4>1 DEF LayersInv
      <4> QED  BY <3>1, <3>2, <3>3, <4>1, <4>2, ReadBufferInOrder
    <3> QED  BY <3>3, <3>4 DEF n
  <2> QED  BY <2>1, <2>2
<1> HIDE DEF r
<1>4. SUFFICES ASSUME ~cut, r.bytes # <<>>
               PROVE  Within(Packets[packet'], Start[packet'], reads', Len(got'))
  BY <1>1 DEF FrameInv
<1> DEFINE P == Packets[packet]  first == Start[packet]  n == Len(got)  m == Len(r.bytes)
<1>5. Within(P, first, reads, n)  BY <1>1, <1>4 DEF FrameInv
<1>6. P \in PacketSet /\ first \in Nat
  <2>1. packet \in 1..(Len(Packets) + 1)  BY <1>2, PacketCount
  <2> QED  BY <1>2, <2>1, PacketTypes, Starting
<1>7. n \in Nat /\ m \in Nat /\ m <= reads[1].n /\ Len(got') = n + m
  BY <1>1, <1>3
<1>8. reads' = ReadsAfter(m)  BY <1>1, <1>4
<1> HIDE DEF P, first, n, m
<1>9. Within(P, first, reads', n + m)
  <2>1. CASE m = reads[1].n
    <3>1. reads' = Tail(reads)  BY <1>2, <1>8, <2>1 DEF ReadsAfter
    <3> QED  BY <1>1, <1>2, <1>5, <1>6, <1>7, <2>1, <3>1, WithinRead
  <2>2. CASE m < reads[1].n
    <3>1. reads' = [reads EXCEPT ![1].n = @ - m]
      BY <1>2, <1>7, <1>8, <2>2 DEF ReadsAfter
    <3> QED  BY <1>1, <1>2, <1>5, <1>6, <1>7, <2>2, <3>1, WithinPart
  <2> QED  BY <1>2, <1>7, <2>1, <2>2
<1> QED  BY <1>1, <1>7, <1>9 DEF P, first

\* A handler that has made all its reads is at the end of its packet, or has
\* missed it.
LEMMA FrameOfEnd ==
  ASSUME UpInv, FrameInv, HandlerHasAll
  PROVE  FrameInv'
<1>1. /\ step = "read" /\ reads = <<>> /\ step' = "answer"
      /\ cut' = (cut \/ PartlyRead(Packets[packet]))
      /\ misled' = misled /\ got' = got /\ sent' = sent
  BY DEF HandlerHasAll, streamVars
<1>2. SUFFICES ASSUME ~cut, ~PartlyRead(Packets[packet])
               PROVE  \E p \in 1..(Len(Packets) + 1) : Len(got') + 1 = Start[p]
  BY <1>1 DEF FrameInv
<1>3. packet \in 1..Len(Packets)  BY DEF UpInv, TypeOK
<1>4. Len(got) + 1 = Start[packet] + ReadUpTo(Packets[packet])[Len(Packets[packet].reads)]
  BY <1>1, <1>2 DEF FrameInv, Within
<1>5. Len(got) + 1 = Start[packet] + Packets[packet].size
  BY <1>2, <1>4 DEF PartlyRead
<1>6. Len(got') + 1 = Start[packet + 1] /\ packet + 1 \in 1..(Len(Packets) + 1)
  BY <1>1, <1>3, <1>5, PacketCount, Starting
<1> QED  BY <1>6

LEMMA FrameOfTheRest ==
  ASSUME UpInv, FrameInv, HandlerAnswers \/ HandlerPreReads
  PROVE  FrameInv'
<1>1. /\ step # "read" /\ step' # "read"
      /\ cut' = cut /\ misled' = misled /\ got' = got /\ sent' = sent
  BY DEF HandlerAnswers, HandlerPreReads, PreRead, Leave, streamVars
<1> QED  BY <1>1 DEF FrameInv

LEMMA FrameNext ==
  ASSUME UpInv, FrameInv, [Next]_vars
  PROVE  FrameInv'
<1>1. CASE UNCHANGED vars
  <2>1. UNCHANGED <<handlerVars, sent, got>>  BY <1>1 DEF vars, streamVars
  <2> QED  BY <2>1, FrameRests
<1>2. CASE Next
  <2>1. CASE Thread
    BY <2>1, FrameOfHeader, FrameOfReads, FrameOfEnd, FrameOfTheRest DEF Thread
  <2>2. CASE ~Thread
    BY <1>2, <2>2, FrameOfStream DEF Next
  <2> QED  BY <2>1, <2>2
<1> QED  BY <1>1, <1>2

\* As long as every handler has read its packet to the end and no further, the
\* bridge has never taken another byte for a header, whatever the packets are
\* and however the network cuts them (mqtt_bridge.cpp:553, :953).
THEOREM HandlersStayInFrame ==
  ASSUME PreSize = RbufSize
  PROVE  Spec => []InFrame
<1>1. Init => UpInv /\ FrameInv  BY UpInit, FrameInit
<1>2. UpInv /\ FrameInv /\ [Next]_vars => UpInv' /\ FrameInv'  BY UpNext, FrameNext
<1>3. FrameInv => InFrame  BY DEF FrameInv, InFrame
<1> QED  BY <1>1, <1>2, <1>3, PTL DEF Spec
=============================================================================
