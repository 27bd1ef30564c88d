----------------------------- MODULE TlsStream ------------------------------
(***************************************************************************)
(* TlsWiFiClient: one connection to port 8883, from the byte that          *)
(* acceptClient() peeks at to the buffers the packet handlers read from.   *)
(* The bytes that the program on the other end sends are numbered 1, 2...; *)
(* it sends them in records, and TCP may bring a record in two pieces.     *)
(***************************************************************************)
EXTENDS Naturals, Sequences

CONSTANTS
  MaxRecord,       \* the bytes of a record at most
  MaxPieces,       \* bound: pieces of records on their way
  RbufSize,        \* sizeof(_rbuf)
  PreSize          \* sizeof(preBuf) of the read behind ConnAck

ASSUME SizesAssumption ==
  /\ MaxRecord \in Nat \ {0} /\ MaxPieces \in Nat
  /\ RbufSize \in Nat \ {0} /\ PreSize \in Nat \ {0}

VARIABLES
  stage,           \* "new", "accepted", "done" (_hsDone) or "closed"
  ok,              \* _ok
  hello,           \* the pieces of the program's hello in the TCP buffer
  fed,             \* _feedBuf
  heard,           \* the pieces of the hello that mbedTLS has got
  said,            \* how many pieces of its hello the program has sent
  open,            \* is the connection open?
  sent,            \* how many bytes the program has sent
  line,            \* the pieces of records not yet decrypted, in their order
  arrived,         \* how many of them have arrived
  inLeft,          \* how many of those mbedTLS has taken (in_left > 0)
  plain,           \* decrypted bytes not yet read (ssl_get_bytes_avail())
  rbuf,            \* _rbuf from _rpos on, _rlen bytes
  got              \* the bytes the handlers have read

streamVars == <<stage, ok, hello, fed, heard, said, open, sent, line, arrived,
                inLeft, plain, rbuf, got>>
helloVars == <<hello, fed, heard, said>>
readVars == <<line, arrived, inLeft, plain, rbuf>>

Pieces == [first : Nat, last : Nat, end : BOOLEAN]

StreamTypeOK ==
  /\ stage \in {"new", "accepted", "done", "closed"}
  /\ ok \in BOOLEAN /\ open \in BOOLEAN
  /\ hello \in Seq(1..2) /\ fed \in Seq(1..2) /\ heard \in Seq(1..2)
  /\ said \in 0..2 /\ sent \in Nat
  /\ line \in Seq(Pieces)
  /\ arrived \in 0..Len(line) /\ inLeft \in 0..arrived
  /\ plain \in Seq(Nat) /\ rbuf \in Seq(Nat) /\ got \in Seq(Nat)

StreamInit ==
  /\ stage = "new" /\ ok = FALSE /\ open = TRUE
  /\ hello = <<>> /\ fed = <<>> /\ heard = <<>> /\ said = 0
  /\ sent = 0 /\ line = <<>> /\ arrived = 0 /\ inLeft = 0
  /\ plain = <<>> /\ rbuf = <<>> /\ got = <<>>

Smaller(m, n) == IF m < n THEN m ELSE n
Front(s, n) == SubSeq(s, 1, Smaller(n, Len(s)))
Behind(s, n) == SubSeq(s, n + 1, Len(s))

-----------------------------------------------------------------------------
(***************************************************************************)
(* The handshake.  The hello has two pieces, its first byte and the rest.  *)
(***************************************************************************)
SayHello == /\ stage \in {"new", "accepted"} /\ open /\ said < 2
            /\ hello' = Append(hello, said + 1)
            /\ said' = said + 1
            /\ UNCHANGED <<stage, ok, fed, heard, open, sent, readVars, got>>

\* acceptClient(): the first byte is read and put back with feedData().
AcceptPeek == /\ stage = "new" /\ hello # <<>>
              /\ fed' = <<Head(hello)>>
              /\ hello' = Tail(hello)
              /\ stage' = "accepted" /\ ok' = TRUE
              /\ UNCHANGED <<heard, said, open, sent, readVars, got>>

\* stop(): the object is deleted with all it holds.
Stop == /\ stage' = "closed" /\ ok' = FALSE
        /\ rbuf' = <<>> /\ plain' = <<>>
        /\ line' = <<>> /\ arrived' = 0 /\ inLeft' = 0
        /\ UNCHANGED <<helloVars, open, sent, got>>

\* No byte within 100 ms, no slot, or beginDer() failed.
Refuse == stage = "new" /\ Stop

\* Variant: the TCP connection is read first.
BioRecv_TcpFirst ==
  IF hello # <<>> THEN [piece |-> Head(hello), fed |-> fed, hello |-> Tail(hello)]
  ELSE [piece |-> Head(fed), fed |-> Tail(fed), hello |-> hello]

\* bio_recv(): what was fed comes first.
BioRecv == IF fed # <<>> THEN [piece |-> Head(fed), fed |-> Tail(fed), hello |-> hello]
           ELSE [piece |-> Head(hello), fed |-> fed, hello |-> Tail(hello)]

\* continueHandshake() while mbedTLS wants more, and when it is done.
ContinueHandshake ==
  /\ stage = "accepted" /\ hello \o fed # <<>>
  /\ heard' = Append(heard, BioRecv.piece)
  /\ fed' = BioRecv.fed /\ hello' = BioRecv.hello
  /\ stage' = IF heard' = <<1, 2>> THEN "done" ELSE "accepted"
  /\ UNCHANGED <<ok, said, open, sent, readVars, got>>

\* It takes 30 s, or mbedTLS fails, or the program leaves.
HandshakeFails == stage = "accepted" /\ Stop

-----------------------------------------------------------------------------
(***************************************************************************)
(* The program sends, the network delivers, the connection ends.           *)
(***************************************************************************)
Piece(n, end) == [first |-> sent + 1, last |-> sent + n, end |-> end]

SendRecord(n) ==
  /\ stage = "done" /\ open /\ n \in 1..MaxRecord /\ Len(line) < MaxPieces
  /\ sent' = sent + n
  /\ \/ line' = Append(line, Piece(n, TRUE))
     \/ line' = line \o <<Piece(n, FALSE), Piece(n, TRUE)>>
  /\ UNCHANGED <<stage, ok, helloVars, open, arrived, inLeft, plain, rbuf, got>>

Arrive == /\ arrived < Len(line)
          /\ arrived' = arrived + 1
          /\ UNCHANGED <<stage, ok, helloVars, open, sent, line, inLeft, plain, rbuf, got>>

PeerCloses == /\ open /\ stage # "closed"
              /\ open' = FALSE
              /\ UNCHANGED <<stage, ok, helloVars, sent, readVars, got>>

\* mbedtls_ssl_read() fails for good, for an alert of the program say.
BreakTls == /\ stage = "done" /\ ok
            /\ ok' = FALSE
            /\ UNCHANGED <<stage, helloVars, open, sent, readVars, got>>

\* loop() finds that the client is not connected() any more.
DropClient == stage = "done" /\ ~open /\ Stop

-----------------------------------------------------------------------------
(***************************************************************************)
(* The read calls.  Each is a function of the state: the bytes it returns  *)
(* and what it leaves.  "No bytes" is the result -1.                       *)
(***************************************************************************)
Unread == [bytes |-> <<>>, line |-> line, arrived |-> arrived, inLeft |-> inLeft,
           plain |-> plain, rbuf |-> rbuf]

RecordBytes(p) == [i \in 1..(p.last - p.first + 1) |-> p.first + i - 1]

\* The pieces of the next record, and whether they are all there.
PiecesOfRecord == IF line[1].end THEN 1 ELSE 2
RecordThere == line # <<>> /\ PiecesOfRecord <= arrived

\* Variant: the pieces of a decrypted record stay counted.
mbedtls_ssl_read_KeepsLeft(size) ==
  IF plain # <<>>
  THEN [Unread EXCEPT !.bytes = Front(plain, size), !.plain = Behind(plain, size)]
  ELSE IF RecordThere
  THEN LET text == RecordBytes(line[1])
       IN [Unread EXCEPT !.bytes = Front(text, size), !.plain = Behind(text, size),
                         !.line = Behind(line, PiecesOfRecord),
                         !.arrived = arrived - PiecesOfRecord]
  ELSE [Unread EXCEPT !.inLeft = arrived]

\* mbedtls_ssl_read(): what is left of a record, or the next one if it is
\* complete; the pieces of an incomplete one are taken and WANT_READ returned.
mbedtls_ssl_read(size) ==
  IF plain # <<>>
  THEN [Unread EXCEPT !.bytes = Front(plain, size), !.plain = Behind(plain, size)]
  ELSE IF RecordThere
  THEN LET text == RecordBytes(line[1])
       IN [Unread EXCEPT !.bytes = Front(text, size), !.plain = Behind(text, size),
                         !.line = Behind(line, PiecesOfRecord),
                         !.arrived = arrived - PiecesOfRecord, !.inLeft = 0]
  ELSE [Unread EXCEPT !.inLeft = arrived]

\* Variant: decrypted bytes are forgotten.
NoData_OnlyTcp == inLeft = 0 /\ arrived = 0

\* "No data exists at any layer".
NoData == inLeft = 0 /\ plain = <<>> /\ arrived = 0

\* Variant: what is in _rbuf is left there.
ReadBuffer_SkipsRbuf(size) ==
  IF ~ok \/ stage # "done" \/ NoData THEN Unread ELSE mbedtls_ssl_read(size)

\* read(buf, size): _rbuf first, the rest from mbedTLS.
ReadBuffer(size) ==
  LET kept == Front(rbuf, size)
      rest == mbedtls_ssl_read(size - Len(kept))
  IN IF ~ok \/ stage # "done" THEN Unread
     ELSE IF Len(kept) = size \/ NoData
     THEN [Unread EXCEPT !.bytes = kept, !.rbuf = Behind(rbuf, size)]
     ELSE [rest EXCEPT !.bytes = kept \o rest.bytes, !.rbuf = Behind(rbuf, size)]

\* read(): one byte of _rbuf, which is filled first when it is empty.
ReadOne ==
  LET filled == IF rbuf # <<>> THEN Unread
                ELSE LET r == ReadBuffer(RbufSize)
                     IN [r EXCEPT !.rbuf = r.bytes, !.bytes = <<>>]
  IN IF filled.rbuf = <<>> THEN filled
     ELSE [filled EXCEPT !.bytes = <<Head(filled.rbuf)>>, !.rbuf = Tail(filled.rbuf)]

\* A handler's read that returned r.
Leave(r) == /\ line' = r.line /\ arrived' = r.arrived /\ inLeft' = r.inLeft
            /\ plain' = r.plain
            /\ UNCHANGED <<stage, ok, helloVars, open, sent>>
HasRead(r) == Leave(r) /\ rbuf' = r.rbuf /\ got' = got \o r.bytes

\* The read behind ConnAck with bufferReadData(): its bytes are put into
\* _rbuf if that is empty.
PreRead ==
  \E r \in {ReadBuffer(PreSize)} :
     /\ Leave(r)
     /\ rbuf' = IF r.rbuf = <<>> THEN Front(r.bytes, RbufSize) ELSE r.rbuf
     /\ UNCHANGED got
=============================================================================
