----------------------------- MODULE TlsClient ------------------------------
(***************************************************************************)
(* A local program on port 8883 and the packet handlers of the bridge: how *)
(* handleClient() takes packets from the byte stream, call by call, and    *)
(* the records that write() makes of its answers.  The program sends the   *)
(* packets of the constant Packets, cut into records as it likes.          *)
(***************************************************************************)
EXTENDS TlsStream

CONSTANTS
  Packets,         \* the packets the program sends: see PacketAssumption
  MaxWrites,       \* bound: records written to the program
  MaxDown,         \* bound: of those, on their way
  ShortWrites      \* may the TCP connection take less than it is given?

\* A packet has the reads its handler makes behind the header byte, the
\* number of its bytes, and whether it is a CONNECT.  A read is one byte
\* through readByte() ("each") or n bytes through readBytes().
ReadCalls == [each : BOOLEAN, n : Nat \ {0}]
ASSUME PacketAssumption ==
  /\ Packets \in Seq([reads : Seq(ReadCalls), size : Nat \ {0}, connect : BOOLEAN])
  /\ Packets # <<>>
ASSUME WritesAssumption == MaxWrites \in Nat /\ MaxDown \in Nat /\ ShortWrites \in BOOLEAN

VARIABLES
  step,            \* "idle", "read", "answer" or "preread": where handleClient() is
  reads,           \* the read calls its handler has still to make
  packet,          \* the packet it takes its bytes for
  cut,             \* has a handler returned elsewhere than at its packet's end?
  misled,          \* has one taken another byte for a header?
  number,          \* cur_out_ctr, the number of the next record
  down,            \* the records on their way to the program
  written,         \* how many messages write() was asked to send
  sealed,          \* those of them that it has encrypted, in their order
  short,           \* was one not sent in full?
  accepted,        \* the messages the program has decrypted
  peerOk           \* has it found no record wrong?

handlerVars == <<step, reads, packet, cut, misled>>
writeVars == <<number, down, written, sealed, short, accepted, peerOk>>
vars == <<streamVars, handlerVars, writeVars>>

\* The first byte of every packet.
Start[p \in 1..(Len(Packets) + 1)] ==
  IF p = 1 THEN 1 ELSE Start[p - 1] + Packets[p - 1].size
Starts == {Start[p] : p \in 1..Len(Packets)}
MaxBytes == Start[Len(Packets) + 1] - 1

Records == [number : Nat, msg : Nat, whole : BOOLEAN]

\* A type invariant; a record in mbedTLS's buffer has arrived.
TypeOK ==
  /\ StreamTypeOK
  /\ step \in {"idle", "read", "answer", "preread"}
  /\ reads \in Seq(ReadCalls) /\ packet \in 1..Len(Packets)
  /\ cut \in BOOLEAN /\ misled \in BOOLEAN
  /\ number \in Nat /\ down \in Seq(Records) /\ written \in Nat /\ sealed \in Seq(Nat)
  /\ short \in BOOLEAN /\ accepted \in Seq(Nat) /\ peerOk \in BOOLEAN

Init == /\ StreamInit
        /\ step = "idle" /\ reads = <<>> /\ packet = 1
        /\ cut = FALSE /\ misled = FALSE
        /\ number = 0 /\ down = <<>> /\ written = 0 /\ sealed = <<>>
        /\ short = FALSE /\ accepted = <<>> /\ peerOk = TRUE

-----------------------------------------------------------------------------
(***************************************************************************)
(* handleClient(), one step per read call.                                 *)
(***************************************************************************)
\* What a handler takes its first byte for: the packet that begins there, or
\* any packet when none does.
TakenFor(byte) == IF byte \in Starts THEN {p \in 1..Len(Packets) : Start[p] = byte}
                  ELSE 1..Len(Packets)

\* The header byte; there may be none.  Then the remaining length is read.
HandleHeader ==
  /\ stage = "done" /\ step = "idle"
  /\ \E r \in {ReadOne} :
       /\ HasRead(r)
       /\ IF r.bytes = <<>> THEN UNCHANGED handlerVars
          ELSE /\ packet' \in TakenFor(r.bytes[1])
               /\ reads' = <<[each |-> TRUE, n |-> 1]>> \o Packets[packet'].reads
               /\ step' = "read"
               /\ misled' = (misled \/ r.bytes[1] \notin Starts)
               /\ UNCHANGED cut
  /\ UNCHANGED writeVars

NextRead == IF Head(reads).each THEN ReadOne ELSE ReadBuffer(Head(reads).n)

\* Variant: a read call is not repeated for the rest.
ReadsAfter_Once(n) == Tail(reads)

\* What is left to read when "n" bytes have come: readBytes() goes on until
\* it has all.
ReadsAfter(n) == IF n >= Head(reads).n THEN Tail(reads)
                 ELSE [reads EXCEPT ![1].n = @ - n]

\* When nothing comes readBytes() gives up at once, and readByte() after ten
\* more tries.
HandlerReads ==
  /\ step = "read" /\ reads # <<>>
  /\ \E r \in {NextRead} :
       /\ HasRead(r)
       /\ IF r.bytes # <<>>
          THEN /\ reads' = ReadsAfter(Len(r.bytes))
               /\ UNCHANGED <<step, cut>>
          ELSE /\ step' = "idle" /\ reads' = <<>> /\ cut' = TRUE
  /\ UNCHANGED <<packet, misled, writeVars>>

\* The bytes of a packet up to its i-th read, from its header and its length on.
ReadUpTo(p) ==
  LET length[i \in 0..Len(p.reads)] ==
        IF i = 0 THEN 2 ELSE length[i - 1] + p.reads[i].n
  IN length

\* A payload longer than the buffer is read only in part, and of a packet that
\* is shorter than its fields more is read: its reads do not come to its size.
PartlyRead(p) == ReadUpTo(p)[Len(p.reads)] # p.size

HandlerHasAll ==
  /\ step = "read" /\ reads = <<>>
  /\ step' = "answer"
  /\ cut' = (cut \/ PartlyRead(Packets[packet]))
  /\ UNCHANGED <<reads, packet, misled, writeVars, streamVars>>

HandlerPreReads ==
  /\ step = "preread" /\ PreRead
  /\ step' = "idle"
  /\ UNCHANGED <<reads, packet, cut, misled, writeVars>>

-----------------------------------------------------------------------------
(***************************************************************************)
(* write(): one record, numbered and encrypted here.  What the TCP         *)
(* connection took is not looked at, and no caller looks at the result.    *)
(***************************************************************************)
Written(whole) == [number |-> number, msg |-> written + 1, whole |-> whole]

\* The connection takes all of the record, a part, or nothing.
Taken == \/ down' = Append(down, Written(TRUE)) /\ UNCHANGED short
         \/ ShortWrites /\ down' = Append(down, Written(FALSE)) /\ short' = TRUE
         \/ ShortWrites /\ UNCHANGED down /\ short' = TRUE

Seal == sealed' = Append(sealed, written + 1)

\* The cipher fails: nothing is sent, and the number stays.
CipherFails == UNCHANGED <<number, down, sealed, short>>

\* Variant: the number is kept when nothing was taken.
write_KeepsNumber ==
  /\ \/ Taken /\ Seal /\ number' = IF down' = down THEN number ELSE number + 1
     \/ CipherFails
  /\ written' = written + 1
  /\ UNCHANGED <<accepted, peerOk>>

\* Variant: the number is advanced before the cipher is called.
write_NumbersFirst ==
  /\ \/ Taken /\ Seal
     \/ UNCHANGED <<down, sealed, short>>
  /\ number' = number + 1
  /\ written' = written + 1
  /\ UNCHANGED <<accepted, peerOk>>

write ==
  /\ (Taken /\ Seal /\ number' = number + 1) \/ CipherFails
  /\ written' = written + 1
  /\ UNCHANGED <<accepted, peerOk>>

CanWrite == ok /\ stage = "done" /\ written < MaxWrites /\ Len(down) < MaxDown

\* What the handler answers, if anything.
HandlerAnswers ==
  /\ step = "answer"
  /\ IF CanWrite THEN write \/ UNCHANGED writeVars
     ELSE UNCHANGED writeVars
  /\ step' = IF Packets[packet].connect THEN "preread" ELSE "idle"
  /\ UNCHANGED <<reads, packet, cut, misled, streamVars>>

\* sendPublish(): a report of the printer, between two handlers.
ForwardReport ==
  /\ step = "idle" /\ CanWrite
  /\ write
  /\ UNCHANGED <<handlerVars, streamVars>>

\* The program decrypts a record only if it is the next one and is intact.
PeerReceives ==
  /\ down # <<>> /\ open
  /\ down' = Tail(down)
  /\ IF peerOk /\ Head(down).whole /\ Head(down).number = Len(accepted)
     THEN accepted' = Append(accepted, Head(down).msg) /\ UNCHANGED peerOk
     ELSE peerOk' = FALSE /\ UNCHANGED accepted
  /\ UNCHANGED <<number, written, sealed, short, handlerVars, streamVars>>

-----------------------------------------------------------------------------
Stream(action) == action /\ UNCHANGED <<handlerVars, writeVars>>

ProgramSends == Stream(\E n \in 1..MaxRecord : sent + n <= MaxBytes /\ SendRecord(n))

Accept == Stream(AcceptPeek)
Handshake == Stream(ContinueHandshake)
Thread == HandleHeader \/ HandlerReads \/ HandlerHasAll \/ HandlerPreReads
          \/ HandlerAnswers
Network == Stream(Arrive)

Next ==
  \/ Stream(SayHello) \/ Accept \/ Stream(Refuse)
  \/ Handshake \/ Stream(HandshakeFails)
  \/ ProgramSends \/ Network \/ Stream(PeerCloses) \/ Stream(BreakTls)
  \/ step = "idle" /\ Stream(DropClient)
  \/ Thread \/ ForwardReport \/ PeerReceives

Spec == Init /\ [][Next]_vars

FairSpec == /\ Spec
            /\ WF_vars(Thread)
            /\ WF_vars(Network)

-----------------------------------------------------------------------------
(***************************************************************************)
(* Properties.                                                             *)
(***************************************************************************)
\* mbedTLS gets the hello as it was sent, with the byte that acceptClient()
\* had read before it (tls_client.h:32, tls_client.cpp:489).
HelloInOrder == heard \in {<<>>, <<1>>, <<1, 2>>}

\* What the handlers read is what the program sent, from its beginning and
\* without a hole, whatever buffers it came through: the pieces, mbedTLS, the
\* 512 bytes of _rbuf and the pre-read behind ConnAck (tls_client.cpp:350-372,
\* mqtt_bridge.cpp:614).
Numbers(n) == [i \in 1..n |-> i]
Up == INSTANCE ByteChannel WITH sent <- Numbers(sent), received <- got
ReadsAsSent == Up!Spec

\* What the program decrypts are the messages that write() has encrypted, from
\* the first one on, in order and without a hole, though write() goes on after
\* a record that was not taken in full (tls_client.cpp:308).  A message that the
\* cipher refused is not among them, and the program cannot know that there was
\* one (tls_client.cpp:302).
Down == INSTANCE ByteChannel WITH sent <- sealed, received <- accepted
DecryptsAsSealed == Down!Spec

\* The program finds a record wrong only when one was not sent in full: the
\* numbers that write() keeps by itself are those mbedTLS expects, also behind
\* a message that the cipher refused (tls_client.cpp:302-305, :330-334).
OnlyShortBreaks == peerOk \/ short

\* As long as every handler read its packet to the end and no further, none
\* takes another byte for a header (mqtt_bridge.cpp:553, :953).
InFrame == misled => cut

\* What the program has sent is read in the end, unless the connection ends:
\* no byte stays behind in _rbuf or in mbedTLS because the TCP connection has
\* nothing more (tls_client.cpp:379-382).
EverythingIsRead ==
  (Len(got) < sent) ~> (Len(got) = sent \/ ~open \/ ~ok)
=============================================================================
