----------------------------- MODULE WireFormat -----------------------------
(***************************************************************************)
(* The lengths that go over the wire or into a buffer: the remaining       *)
(* length of an MQTT packet as the bridge and PubSubClient write and read  *)
(* it, the packets PubSubClient builds in its buffer, and the lengths of   *)
(* the ASN.1 and PEM texts of the gateway's certificate.  The code's       *)
(* integers are unsigned: Base is 128, a length has at most MaxDigits digits. *)
(***************************************************************************)
EXTENDS Naturals, Sequences

CONSTANTS
  Base,            \* 128: the values of a digit of the remaining length
  BufferSize,      \* MQTT_BUFFER_SIZE, PubSubClient's bufferSize
  HeaderSize,      \* MQTT_MAX_HEADER_SIZE
  PemSize,         \* the room for a certificate's text
  TmpSize          \* and for the copy of it that gets lines

\* A digit has at least two values; PubSubClient leaves five bytes in front of
\* a packet, and its buffer's size is a remaining length; a certificate's text
\* is copied to a buffer two thirds its size.
ASSUME WireAssumption ==
  /\ Base \in Nat /\ Base >= 2
  /\ HeaderSize = 5
  /\ BufferSize \in Nat /\ BufferSize <= Base * Base * Base * Base
  /\ PemSize \in Nat /\ TmpSize \in Nat /\ 2 * PemSize <= 3 * TmpSize

MaxDigits == 4

-----------------------------------------------------------------------------
(***************************************************************************)
(* Remaining length: digits, the lowest first; every digit but the last    *)
(* carries a mark (the top bit).                                           *)
(***************************************************************************)
Digit(d, more) == [value |-> d, more |-> more]

\* Variant: the mark is left out when the rest is a single digit.
EncodeLength_NoMark(n) ==
  LET enc[k \in 0..n] ==
        IF k < Base THEN <<Digit(k, FALSE)>>
        ELSE <<Digit(k % Base, k >= Base * Base)>> \o enc[k \div Base]
  IN enc[n]

\* MqttBridge::writeRemainingLength(), and the loop of buildHeader().
EncodeLength(n) ==
  LET enc[k \in 0..n] ==
        IF k < Base THEN <<Digit(k, FALSE)>>
        ELSE <<Digit(k % Base, TRUE)>> \o enc[k \div Base]
  IN enc[n]

NotALength == [ok |-> FALSE, len |-> 0, used |-> 0]

\* MqttBridge::readRemainingLength(): at most four digits, each of which counts
\* Base times as much as the one before it.
DecodeLength(bytes) ==
  LET dec[i \in 1..(MaxDigits + 1)] ==
        IF i > MaxDigits \/ i > Len(bytes) THEN NotALength
        ELSE IF ~bytes[i].more
             THEN [ok |-> TRUE, len |-> bytes[i].value, used |-> i]
             ELSE [dec[i + 1] EXCEPT !.len = @ * Base + bytes[i].value]
  IN dec[1]

\* The same loop in PubSubClient::readPacket(): the connection is closed when
\* a fifth digit would be needed.
DecodePacketLength(bytes) ==
  LET dec[len \in 1..(MaxDigits + 1)] ==
        IF len = MaxDigits + 1 \/ len > Len(bytes) THEN NotALength
        ELSE LET rest == IF bytes[len].more THEN dec[len + 1]
                         ELSE [ok |-> TRUE, len |-> 0, used |-> len]
             IN IF rest.ok
                THEN [rest EXCEPT !.len = @ * Base + bytes[len].value]
                ELSE NotALength
  IN dec[1]

-----------------------------------------------------------------------------
(***************************************************************************)
(* The packets PubSubClient builds.  A packet is written from position     *)
(* HeaderSize on; its header goes in front of it, right-aligned.           *)
(***************************************************************************)
\* writeString(): two bytes of length and the text.
StringEnd(pos, len) == pos + 2 + len

\* buildHeader(): the type and the digits; 0 is "refused".
HeaderLength(len) == 1 + Len(EncodeLength(len))

\* A packet's text from "first" to "end" of the buffer; none when refused.
Refused == [sent |-> FALSE, first |-> 0, end |-> 0, bytes |-> 0]
Built(end) ==
  LET len == end - HeaderSize
  IN [sent |-> TRUE, first |-> HeaderSize - HeaderLength(len), end |-> end,
      bytes |-> len + HeaderLength(len)]

\* Variant: the two bytes of the topic's length are forgotten.
publish_Short(topic, plength) ==
  IF BufferSize < HeaderSize + topic + plength THEN Refused
  ELSE Built(StringEnd(HeaderSize, topic) + plength)

publish(topic, plength) ==
  IF BufferSize < HeaderSize + 2 + topic + plength THEN Refused
  ELSE Built(StringEnd(HeaderSize, topic) + plength)

\* Two bytes of message id before the filter, one of options behind it.
subscribe(topic) ==
  IF BufferSize < 9 + topic THEN Refused
  ELSE Built(StringEnd(HeaderSize + 2, topic) + 1)

unsubscribe(topic) ==
  IF BufferSize < 9 + topic THEN Refused
  ELSE Built(StringEnd(HeaderSize + 2, topic))

\* nextMsgId of a 16-bit counter that leaves out 0.
NextMsgId(id) == LET n == (id + 1) % 2^16 IN IF n = 0 THEN 1 ELSE n

\* readPacket(): the bytes kept of a packet of "size" bytes, 0 if it does not fit.
KeptOfPacket(size) == IF size > BufferSize THEN 0 ELSE size

-----------------------------------------------------------------------------
(***************************************************************************)
(* ASN.1 and PEM lengths.                                                  *)
(***************************************************************************)
\* addSanExtension(): two bytes of header, "localhost", the serial, an
\* address if there is one, and 127.0.0.1.
SanLength(cn, ip) == 2 + (2 + 9) + (2 + cn) + (IF ip THEN 6 ELSE 0) + 6
SanLengthByte(cn, ip) == (SanLength(cn, ip) - 2) % 256

\* The length of the encoding of a SEQUENCE with "len" bytes of content, as
\* the library writes it: one byte below 128, else a count and the bytes.
DerHeader(len) ==
  IF len < 128 THEN <<48, len>>
  ELSE IF len < 256 THEN <<48, 129, len>>
  ELSE <<48, 130, len \div 256, len % 256>>

\* Variant: the length bytes are taken lowest first.
der_seq_length_Reversed(buf, max) ==
  IF max < 2 \/ buf[1] # 48 THEN 0
  ELSE IF buf[2] < 128 THEN 2 + buf[2]
  ELSE LET n == buf[2] - 128
           big[i \in 0..n] == IF i = 0 THEN 0 ELSE big[i - 1] + buf[2 + i] * 256^(i - 1)
       IN IF n = 0 \/ 2 + n > max THEN 0 ELSE 2 + n + big[n]

\* der_seq_length(): the length of the SEQUENCE that begins the buffer, of
\* which "max" bytes are there; 0 is an error.
der_seq_length(buf, max) ==
  IF max < 2 \/ buf[1] # 48 THEN 0
  ELSE IF buf[2] < 128 THEN 2 + buf[2]
  ELSE LET n == buf[2] - 128
           big[i \in 0..n] == IF i = 0 THEN 0 ELSE big[i - 1] * 256 + buf[2 + i]
       IN IF n = 0 \/ 2 + n > max THEN 0 ELSE 2 + n + big[n]

\* derToPem(): the base64 text with its end mark, the bound it is compared
\* with, and the text of lines of 64 with the two dashed lines.
Base64Length(der) == 4 * ((der + 2) \div 3)
PemBound(der) == LET olen == IF der = 0 THEN 0 ELSE Base64Length(der) + 1
                 IN (olen \div 64) * 65 + olen + 128
PemLength(der) == 28 + Base64Length(der) + ((Base64Length(der) + 63) \div 64) + 26
PemFits(der) == PemBound(der) <= PemSize

-----------------------------------------------------------------------------
(***************************************************************************)
(* What the lengths are for, of an example e.                              *)
(***************************************************************************)
\* A remaining length that is written is read again, by both readers.
LengthIsRead(e) ==
  LET bytes == EncodeLength(e.length)
  IN /\ Len(bytes) <= MaxDigits
     /\ DecodeLength(bytes) = [ok |-> TRUE, len |-> e.length, used |-> Len(bytes)]
     /\ DecodePacketLength(bytes) = DecodeLength(bytes)

\* A packet is in the buffer from its header to its end, and what arrives with
\* its length is what its parts need; it is refused only when it has no room.
\* The filter that subscribe() lets through though it is a byte too long for
\* the buffer (PubSubClient.cpp:617) is left out.
Fits(p, variable) ==
  /\ p.sent => /\ p.first >= 0 /\ p.end <= BufferSize
               /\ p.bytes = p.end - p.first
               /\ p.bytes = HeaderLength(variable) + variable
  /\ ~p.sent => HeaderSize + variable >= BufferSize
PacketFits(e) ==
  /\ Fits(publish(e.topic, e.payload), 2 + e.topic + e.payload)
  /\ e.topic + 9 # BufferSize => Fits(subscribe(e.topic), 2 + 2 + e.topic + 1)
  /\ Fits(unsubscribe(e.topic), 2 + 2 + e.topic)
  /\ LET p == publish(e.topic, e.payload) IN p.sent => KeptOfPacket(p.bytes) = p.bytes

\* The end of the certificate is found, the name list's short length is
\* enough, and a text that is let through has room with its end mark.
Asn1Agrees(e) ==
  LET h == DerHeader(e.length)
  IN /\ der_seq_length(h, Len(h)) = Len(h) + e.length
     /\ e.length < 64 => SanLengthByte(e.length, TRUE) < 128
                         /\ SanLengthByte(e.length, TRUE) = SanLength(e.length, TRUE) - 2
     /\ PemFits(e.length) => /\ PemLength(e.length) + 1 <= PemSize
                          /\ PemLength(e.length) + 1 <= TmpSize
=============================================================================
