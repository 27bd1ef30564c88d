# Verification of the BambuTagger gateway

The gateway is an ESP32 program that stands between one 3D printer and the
programs of a local network (Bambu Studio and others). It holds one MQTT session
with the printer and shares it between many local MQTT clients, plain or over
TLS with a certificate of its own; it forwards the printer's camera and FTPS
ports, opens an access point while its WiFi station is down, and is configured
and updated over a small web server. This directory holds TLA+ models of these
parts, the configurations that check them with TLC, and proofs of their main
properties with TLAPS.

Source paths are relative to the repository's root (`src/mqtt_bridge.cpp` is the
file in its `src` directory).

## 1. The system

### 1.1 Components

| component | code | state it keeps | operations | modules |
|---|---|---|---|---|
| MQTT bridge | `src/mqtt_bridge.cpp/.h` | `_clients[8]` (client, subscriptions, TLS flag), `_upTcp`, `_pubsub`, `_lastReconnect`, two listening servers | `loop()`: reconnect or read upstream, accept, serve; `rebind()` | `MqttBridge`, `SharedSession`; the bytes of its packets in `TlsClient` |
| MQTT client library | `Lib/PubSubClient` | `_state`, `_client`, keep-alive times, `pingOutstanding`, a buffer | `connect`, `connected`, `loop`, `publish`, `subscribe`, `unsubscribe` | inside `MqttBridge`; packet lengths in `WireFormat` |
| TCP proxies (camera 6000, FTPS 990) | `src/tcp_proxy.cpp/.h` | `_clients[6]`, `_upstream`, `_disconnected`, `_lastReconnect` | `loop()`: reconnect, accept, forward down, forward up | `TcpProxy` |
| TLS server client | `src/tls_client.cpp/.h` | mbedTLS context, `_feedBuf`, `_rbuf`, record number | `continueHandshake`, `read`, `bufferReadData`, `write`, `stop` | `TlsStream`, `TlsClient` |
| main loop | `src/main.cpp` | `staServicesStarted`, `apStopped`, SSDP socket, LED | `setup()`, `loop()`, `manageAP()`, SSDP | `Gateway`, `AccessPoint`; `rebind()` in `MqttBridge` |
| certificate store | `src/certgen.cpp`, `MqttBridge::begin` | three blobs in NVS, three buffers | load, generate, save | `CertStore`, `OneChain`; lengths in `WireFormat` |
| configuration | `src/ui/webconfig.h`, `page_saved.h` | `GatewayConfig` in EEPROM and in memory | load, validate, save and restart | `Settings`, `Versions` |
| firmware update | `src/ui/page_ota.h` | the other half of the flash | version check, download, restart | `FirmwareUpdate`, `Versions` |
| wire format | `src/mqtt_bridge.cpp:387`, `:935` | none | `topicMatchesSub`, length coding, `readBytes` | `MqttTopics`, `TopicMatch`, `WireFormat` |
| AES key register | `src/mqtt_bridge.cpp:31`, `src/tls_client.cpp:454` | `key_in_hardware` of each cipher context | clear the flags | none (section 6) |
| ArduinoJson | `Lib/ArduinoJson` | pools, free list, shared strings, the tree of variants | the calls on a document, two deserializers, comparison | `JsonMemory`, `JsonTree`, `JsonDocument`, `JsonReader`, `JsonMeaning`, `JsonNumbers`, `JsonCompare` |
| web pages, logo, test certificate, tools | `src/ui/*`, `src/test_cert.h`, `tools`, `scripts` | none | | none |

All of the gateway runs on one thread: `main.cpp:332` calls `webconfigLoop()`,
`manageAP()`, `mqtt.loop()` and the two `TcpProxy::loop()` in turn. They share
no state but the configuration. What makes the code hard is not threads but
everything that moves between two of its steps: the link to the printer and the
local connections come and go at any read or write, PubSubClient changes its
`_state` inside a call that looks like a query (`connected()`), a callback of
`_pubsub.loop()` writes to every client, slots are reused, the device restarts
when its settings are saved, the power goes at any moment, and a loop that waits
for something starves everything else. ArduinoJson lies in the repository as a
library; the gateway's sources do not include it (they put their JSON together
as text), so its models stand for themselves.

### 1.2 What makes each component correct

* **Bridge.** What is stored for a client is what it asked for; the printer's
  session has every filter some client wants, over reconnections and over
  UNSUBSCRIBEs of others; a report reaches exactly those that asked for it;
  connections are neither leaked nor served twice; nothing a TLS client sends is
  acted on, and nothing is written to it, before its handshake is done; the library is never used on a
  connection object that was deleted; the bridge always gets back to a session.
* **Proxy.** A client never outlives the connection to the printer it was
  accepted for; a stream has no hole in its middle; a client gets the printer's
  answers to itself; no connection leaks; clients of a lost connection are
  closed and waiting ones served.
* **TLS client.** The handlers read the bytes the program sent, in order, none
  lost between four buffers, and all of them in the end; the program decrypts
  what was encrypted, in order; a handler that got its whole packet takes no other byte for
  a header.
* **Certificates.** After any restart the certificate, key and CA in use belong
  together, and a CA that somebody has imported stays good.
* **Settings.** What the user was told is saved is what the device runs with.
* **Update.** What is installed is whole, and newer where the check was made.
* **Main loop.** Whoever wants to configure the gateway gets to it.
* **Formats.** What is written is read again; what is compared is compared by
  its value; what is let through has room.
* **ArduinoJson.** No slot is used twice or forgotten, no string freed early, and
  what is read is what was written, whatever requests for memory are refused.

`PROJECT.json` lists the hazards of the code line by line, with the properties
that watch over each, and a reason where there is none.

## 2. Modules

| module | content |
|---|---|
| `MqttTopics` | topics as (serial, leaf), the rewriting between the printer's two names, matching |
| `MqttBridge`, `MCMqttBridge` | the bridge with PubSubClient, the printer, the local peers, WiFi and restarts; instances for TLC |
| `SharedSession` | what the local programs rely on when they share one session (abstract) |
| `MqttBridgeProofs` | inductive invariant of the bridge and the theorems that follow from it; ownership of the local connections; the subscription theorems and the refinement of `SharedSession` |
| `DataLemmas` | lemmas about queues, induction over numbers, and functions defined by recursion, used by the other proofs |
| `TcpProxy`, `MCTcpProxy`, `TcpProxyProofs` | the same for a proxy |
| `CertStore`, `OneChain` | the three blobs; what a program that imported the CA relies on (abstract) |
| `AccessPoint`, `Settings`, `FirmwareUpdate` | one part of the device each, with its own variables |
| `Gateway`, `MCGateway`, `GatewayProofs` | these four on one thread, with restarts and power cuts; instance; proofs |
| `TlsStream`, `TlsClient` | one TLS connection: buffers and read calls; handlers and record writer above them |
| `ByteChannel` | what both ends of a connection rely on (abstract) |
| `MCTlsClient`, `TlsClientProofs` | instance; proofs |
| `TopicMatch`, `WireFormat`, `Versions` | pure algorithms on texts and lengths, each with its reference and what it promises |
| `FormatProofs` | what these, and the integers of `JsonNumbers`, compute for every input |
| `JsonMemory`, `JsonTree`, `JsonDocument`, `JsonReader` | ArduinoJson: slots and strings; variants; a document and its calls; the deserializers |
| `JsonMeaning` | what a document means as a tree, and what a reading is to make of it |
| `JsonHeapProofs`, `JsonProofs` | what each operation does to the heap and its tree; the theorems about documents and readers |
| `JsonNumbers`, `JsonCompare` | ArduinoJson: integers and the reading of numbers; the comparison of two variants |
| `Formats`, `MCJson` | the promises of the pure algorithms over examples; the instance of these and of a document |

Operators named `X_Something` beside an operator `X`, marked "Variant", are the
same with a plausible mistake. They are used by nothing; replacing `X` by one of
them must make a named property fail (`mutants` in `PROJECT.json`).

### 2.1 MqttBridge

One action is one piece of `loop()` between two points where the environment
may interfere. `phase` says which part of `loop()` runs, `visit` is the loop
variable `i` of its last part, `handler`, `toSub` and `toUnsub` are the packet
handler under way and the filters it has not come to. A SUBSCRIBE with several
filters is therefore several steps, and the link may be lost between two of
them, as it may in the code.

| code | model |
|---|---|
| `_upTcp` (null, connected or dead connection) | `upTcp` |
| `_pubsub._client` (and whether the object still exists), `_pubsub._state` | `pubClient`, `pubState`; `Online` and `StateAfterCheck` are `PubSubClient::connected()` and its side effect |
| the printer's side of the session: exists or not, its filters | `session`, `upSubs` |
| `_clients[i]`: `active`/`client`, `isTls` and the handshake, `subs` and `subCount` | `slot`, `hs`, `subs` |
| pending connections of the two servers; the peer's end of a connection | `queue`, `open` |
| `loop()` lines 206-249 | `WaitToReconnect`, `ConnectFails`, `ConnectRefused`, `ConnectSucceeds` |
| `_pubsub.loop()` | `PubSubIdle`, `OnUpstreamMessage`, `KeepaliveTimeout` |
| `acceptClient()` until it returns no slot | `AcceptIntoSlot`, `AcceptAndClose`, `AcceptNothing` |
| `loop()` lines 285-308 | `SkipSlot`, `HandshakePending/Done/Fails`, `DropClosed`, `EndServe` |
| `handleClient()` by packet type | `HandleConnectOrPing`, `HandlePublish`, `HandleSubscribe` - `SubscribeTopic` - `SubscribeDone`, `HandleUnsubscribe` - `UnsubscribeTopic` - `UnsubscribeDone`, `HandleDisconnect`, `HandleNothing`; an early `return` inside one is `HandlerCutShort` |
| first WiFi connection: `startStationServices()` with `rebind()` | `StartStationServices` |
| settings saved: `ESP.restart()` | `Reboot` |

`asked`, `out`, `boots` are history: what the slot's client asked for, the
packets the last step wrote, the restarts so far. Abstractions: payloads,
packet ids and the logging are left out; a topic is its serial and its leaf
(`startsWith("device/<serial>")` also matches a longer serial with that prefix,
which the model does not have); the rest of a packet whose handler was cut
short is simply gone here, and what it is taken for is in `TlsClient`.

`ImplementsSharedSession` maps the bridge to `SharedSession`, in which there are
no queues, handshakes, handlers or packets: `linked` is the printer's session,
`covered` the clients' filters whose upstream name it has, `wants` is `asked`,
and `got` the reports among the packets of the last step, each with its client.
A SUBSCRIBE of several filters is an `Ask` for each, whatever happens between
two of them. The abstraction says what a client may count on (a session as if
it were its own) and leaves to the bridge what a new session covers beyond what
is wanted and when filters of a client that left are dropped.

### 2.2 TcpProxy

`phase` and `visit` as above, `upOpen` is `_upstream.connected()`,
`disconnected` is `_disconnected`, `slot` the clients. Bytes are abstracted: a
forwarding step says for which slots some were written (`out`), `gaps` holds
the slots some of whose bytes were dropped, `joined` the connection to the
printer a client was accepted under, `spoke` the clients whose bytes this
connection has carried. `ShortWrites` says whether `WiFiClient::write()` may
take less than it is given. Connections to the printer are numbered modulo
`Sessions`: an old client could hide behind a number that came round again
only after `Sessions` reconnections, and the proof does not depend on the
number.

### 2.3 Gateway: certificates, access point, settings, update

`pc` is the part of `setup()` or `loop()` that runs; the two bridges, which have
their own modules, are the step `Bridges`. Each part brings its variables and
actions, and `Gateway` says when they run and what they leave alone. `PowerCycle`
is both `ESP.restart()` and a power cut: everything but the flash goes, and
`Forget`, `PowerOff`, `Unload` and `Reset` say what that means for each part.

| code | model |
|---|---|
| `MqttBridge::begin()`: three `getBytes()`, `generateCertChain()`, three `putBytes()` | `LoadCert`, `Generate`/`GenerateFails`, `Put` (one step per blob), a blob being the chain it belongs to |
| `/ca.pem` | `DownloadCa`; `trusted` is the history of it |
| `startAP()`, `manageAP()` with its static `apStopped` | `StartAP`, `SoftAP`, `SampleStation`, `StopAP`, `RestartAP`, `LeaveAP` |
| `configLoad()`, `handleSave()`, `configSave()`, the answer, the restart | `LoadConfig`, `SubmitPrinter/Wifi/Other`, `RefuseHost`, `configSave`, `ReplySaved`, `Restart` |
| `handleUpdateFromGithub()` | `CheckUpdate`, `RefuseUpdate`, `GetImage`, `Download` (one piece), `WaitForever`, `EndUpdate` |
| `startStationServices()`, `startSSDP()` | `StartServices`, `StartSSDP` |
| the WiFi driver, releases on GitHub, a server that stops sending | `StationChanges`, `Publish`, `DownloadStalls` |

`told` is what the user was last told is saved, forgotten when a new form is
sent; `checked` says that the check of this download was made. Abstractions:
a user's text is one of a few values and `strlcpy()` is the constant `Cut`, of
which nothing is assumed but that it leaves a text (a long address that
`isValidHost()` lets pass may be cut to one it would refuse); a
version is a number (`compareVersions()` itself is in `Versions`); the station
changes only while no form is being saved, since the step between leaves
nothing to see; what fails in the libraries is a constant each (`WritesFail`,
`CommitFails`, `SoftApFails`, `FetchFails`).

### 2.4 TlsStream and TlsClient

`TlsStream` follows a byte from the program through the TCP buffer in one or two
pieces of a record (`line`, of which `arrived` are there), mbedTLS, which takes
the pieces of an incomplete record (`inLeft`) and keeps the rest of a decrypted
one (`plain`), `_rbuf` (`rbuf`), to the handlers (`got`). The read calls are
functions of the state: `mbedtls_ssl_read`, `ReadBuffer` for `read(buf, size)`
with its test that no layer has data, `ReadOne` for `read()`, `PreRead` for the
read behind ConnAck that is put back with `bufferReadData()`. The hello has two
pieces so that the byte that `acceptClient()` peeks at (`fed`) can come too late.

`TlsClient` puts `handleClient()` above it, one step per read call of a packet's
handler, for the packets of a constant; a handler that gets nothing returns and
leaves the rest (`cut`), and a byte that is no packet's first and is taken for
one is noted (`misled`). `write` is the record writer, which counts its records
itself and ignores what the TCP connection took: all of the record, a part of
it, or nothing (`Taken`). `sealed` are the messages it has encrypted, `accepted`
those the program has decrypted. The cipher may also refuse a message
(`CipherFails`): nothing is sent, the record number stays, and as no caller looks
at the result the next message is written as if the one before had been. A
blocking read with retries is a read step that happens later. A fatal TLS error
(`BreakTls`) leaves the slot until the peer closes, as `connected()` does; one
that comes up within the retries of a read (`src/tls_client.cpp:413`), which the
code notices at the next read only, is a `BreakTls` that happens then.

### 2.5 ArduinoJson

A heap is a record of the pools, the free list, the content of each slot and the
references of each shared string; an operation is a function of it that may also
fail, and a call may have any of its first requests for memory refused
(`bad`). `JsonTree` has what the code has on top: clearing a variant and all
below it, linking and unlinking, adding elements and members, copying.
`JsonDocument` makes the calls, through every variant a program can have a
reference to. In `JsonReader` a deserializer runs step by step (a token or an
allocation each), its recursion being a stack of frames; the input is a tree
serialized as JSON or MessagePack that may end or go wrong at any token, under a
filter and a nesting limit. `JsonMeaning` says what a document means as a tree
(`TreeOf`), what a filter lets through (`Kept`) and, with these, that what was
read is what was written (`ParsedAsMeant`). Characters are abstracted to tokens, so the text of
what a filter skips is not validated; tiny strings stand also for those that are
linked; `TrailingCharacter` may also follow a boolean, which the code does not
look behind.

No operator of `JsonMemory`, `JsonTree`, `JsonDocument` and `JsonReader` is
`RECURSIVE`, so that they can be proved about: a chain (`Chain`), the walk of
`clear()` through everything below a variant (`Walk`), copying (`CopyTo`) and
the values nested so deep (`TreesOf`) are functions of a number of steps or
levels. A chain or a path can have no more steps than there are slots
(`NullSlot`), and values are nested no deeper than the constant `MaxNesting`; a
chain that went in a circle would show as one in which a slot comes twice, which
`SlotsOnce` excludes. `lost` is the set of slots that the code forgets when
memory is refused in the middle of an operation.

`JsonNumbers` has `canConvertNumber()` and `convertNumber()` for integers of any
width, what a variant stores and gives back, `parseNumber()` with its mantissa
and exponent (before `make_float()` turns them into a float), the writers and
readers of integers as text and MessagePack, and `arithmeticCompare()`.
`JsonCompare` has the visitor that compares two variants and the operators made
of it; its operators are recursive, so it stands alone.

## 3. Runs

| run | instance | shows |
|---|---|---|
| `bridge` | 2 slots, 2 plain programs and a TLS one, 2 filters by one name of the printer, 2 entries, QoS 1; about 1.4 million states | the nine safety properties and the refinement of `SharedSession` under every interleaving |
| `bridge_live` | 1 slot that a TLS and a plain program compete for, one restart | `Recovers`, `GoneIsReleased`, `PendingIsServed` |
| `bridge_repeat` | 1 slot, repeated subscriptions allowed | `ReportsReachAskers` fails |
| `bridge_names` | 1 slot, filters by both names of the printer | `ReportsReachAskers` fails |
| `bridge_freed` | 1 slot | `NoFreedUse` fails |
| `proxy` | 2 slots, 3 programs, full writes; about 360 000 states | the four safety properties |
| `proxy_live` | 1 slot, 2 programs | `StaleIsClosed`, `PendingIsServed` |
| `proxy_short` | as `proxy`, short writes | `StreamIntact` fails |
| `proxy_dialogue` | as `proxy` | `EndToEnd` fails |
| `gateway` | 3 chains, 3 addresses, 2 station names, 2 versions, images of 2 pieces, power cuts at any moment; about a million states | types, four safety properties, the refinement of `OneChain`, `InstallsChecked`, `Reachable` |
| `tls` | 2 packets of 3 and 5 bytes, records of up to 3 bytes in 1 or 2 pieces, buffers of 2 bytes, 2 records down, short writes, a cipher that may fail; about 640 000 states | `HelloInOrder`, `InFrame`, `OnlyShortBreaks`, both refinements of `ByteChannel`, `EverythingIsRead` |
| `json` | some 25 000 examples, then a document of at most 7 slots, 3 calls or a reading and a call; about 370 000 states | `FormatsAgree`, then `SlotsOnce`, `StringsCounted`, `ParsedAsMeant` |

**Bounds of the bridge and the proxy.** `MaxClients`, `MaxSubs`: 2 is the least
for which one slot is searched while another holds the filter, an entry is
removed from in front of another one, and the slots are full with a connection
waiting. Three programs fill two slots and leave one waiting. `MaxTopics` bounds
the filters of one packet: 1 in the runs, since the steps of two packets in a
row interleave with the environment as those of one packet do; the proofs have
any number. `MaxReboots`: 0 or 1; a restart returns to the initial state but for
the peers. `Sessions`: 3, see above. The proofs need none of these bounds.

**The view of `bridge`.** `out` holds the packets of the last step. No action
reads it and every step sets it, so two states that differ in nothing else have
the same future, and `VIEW WithoutHistory` lets TLC follow one of them. It still
makes every step of that one and evaluates the action properties and the
refinement on each, also on a step that leads to a state it knows; these look at
`out'` only. Of the invariants only the type of `out` in `TypeOK` depends on it,
which `TypeCorrectness` proves.

**Bounds of the gateway.** A chain is spent each time one is generated: three
are enough for two power cuts between writes and a third, whole one. Two
versions give a release that is newer and one that is not, and the one compared
may differ from the one downloaded; the mutants show that two pieces tell a
whole image from a cut one. Addresses: valid, invalid, none.

**Bounds of the TLS client.** `_rbuf` and the pre-read have 2 bytes against
records of up to 3, so that each is filled, overrun and left empty; a packet of
5 bytes takes several records and has a read of one byte and one of a chunk;
`MaxPieces` is 2, so that a record may be cut and two may wait. One CONNECT has
the pre-read behind it. `PreSize = RbufSize` as in the code (512 each).

**Bounds of ArduinoJson.** `NullSlot` is 7 and a pool has 2 slots, so that pools
are added, the list of pools grows past its first two and the last pool is the
smaller one. `MaxRefused`: any of the first three requests for memory of a call
may be refused, alone or together. One text is shared by values and keys and
one is tiny. The document is followed while `PoolsNumbered` holds, that is while
the pools have ids; the hazard at `MemoryPoolList.hpp:182` is what happens then.
`MaxNesting` is 1, the depth of the values that are set; the inputs of the
readers are nested deeper. Bytes have three bits (`ByteBits`), so that every width of
integers overflows within TLC's numbers; 2^20 - 1 and 5 stand for the largest
mantissa and exponent. The examples of numbers lie around all these ends.
Topics are all texts of up to 4 characters, filters all of up to 3 with both
wildcards.

**Deadlock** is checked in every run but `tls`: there the connection may end and
all records be read, and then nothing is left to do.

**Fairness.** `main.cpp`'s `loop()` is called for ever by the Arduino core and
no path of the modelled code blocks for good but one, so the thread's next step
is weakly fair, in all of `bridge_live`, `proxy_live`, `gateway` and `tls`. The
one is the loop of a download, which waits for data without a limit; there the
thread's step changes nothing (`WaitForever`), and `Reachable` makes an exception
of it. `millis()` advances, so the reconnect timer is weakly fair. An unanswered
ping is found by `_pubsub.loop()` after the keep-alive time as long as that is
called again and again; the call competes with other outcomes of the same step,
hence strong fairness for `KeepaliveTimeout`. In `tls` what is on its way arrives
(weak fairness of `Network`): TCP delivers or the connection ends. Nothing is
assumed of WiFi, printer, peers or the power but what a property states:
`Recovers` assumes that WiFi and printer stay up (and that a printer is
configured, without which `loop()` does not try at all, `src/mqtt_bridge.cpp:208`:
the model's always is); `PendingIsServed` of the
bridge assumes for port 1883 that connections to port 8883 do not keep coming,
as those are taken first; that of the proxy assumes that the connection to the
printer is not lost for ever again and again; `Reachable` assumes that the
device does not restart for ever.

## 4. What the runs found

1. *Repeated subscription* (`bridge_repeat`). A second SUBSCRIBE of a filter (as
   a client sends to renew its QoS) does not replace the first: it gets an entry
   of its own (`src/mqtt_bridge.cpp:751`). UNSUBSCRIBE removes the first entry
   it finds and drops the filter upstream, which is right, as the client does
   not want it any more. The other entry is left; the next connection to the
   printer subscribes it again (`:241`), and the client is sent reports after
   its UNSUBACK.
2. *Two names* (`bridge_names`). Reports are renamed to the gateway's serial
   before they are matched (`:422`), so a client subscribed under the printer's
   own serial is subscribed upstream and never gets a report.
3. *Deleted client* (`bridge_freed`). After a failed reconnection `_upTcp` is
   deleted (`:360`) and `_pubsub` still points to the object deleted before it;
   the handlers go on calling `_pubsub`. `NeverOnlineOnFreed` shows how far
   this goes: the library calls the deleted object only to find it not
   connected, or to stop it.
4. *Short writes* (`proxy_short`). Both forwarding functions drop what
   `write()` did not take, and go on with the stream.
5. *Shared connection* (`proxy_dialogue`). FTPS clients of one proxy share the
   connection to the printer: each gets the answers to the others.

Met while modelling, without a run of their own; where a property would see one,
the property's definition names the case it leaves out:

* `README.md` calls port 8883 a TLS passthrough while the code ends TLS there; it
  gives the EEPROM magic as 0x44 and the MQTT buffer as 2048 bytes where the
  code has 0x45 and 20480. `README.md:60` has the station "alongside the AP";
  `manageAP()` stops the access point while the station is up.
* The page says "Downgrade is not allowed." (`page_ota.h:140`), and the check is
  skipped when the latest version cannot be fetched (`:124`); the download loop
  has no end when the stream stops (`:187`).
* The access point is started once and not retried when `softAP()` fails
  (`main.cpp:167`), nor is SSDP (`:92`); the certificate keeps the address of
  the first boot (`mqtt_bridge.cpp:157`); a station name of 32 characters, which
  WiFi allows, loses its last one (`config.h:15`).
* When the cipher fails `write()` returns 0 (`tls_client.cpp:302`), which no
  caller looks at: the message is missing from what the program decrypts, and
  the program cannot notice, since the record number was not advanced.
* `isValidHost()` looks at the text as it was typed and `strlcpy()` cuts it to 63
  characters afterwards (`page_saved.h:85`), so what is stored of a longer text
  was not looked at.
* A payload longer than the buffer is read in part, and its rest taken for
  packets (`mqtt_bridge.cpp:653`).
* `PubSubClient::subscribe()` lets a filter through that is a byte too long for
  its buffer (`PubSubClient.cpp:617`). `compareVersions()` does not look at a
  suffix such as `-rc1`. `topicMatchesSub()` differs from MQTT for texts with
  empty levels.
* ArduinoJson: the four whole numbers just above the largest unsigned one are
  read ten times too large (`parseNumber.hpp:146`); `0e400` is read as infinity
  and a long mantissa with a very small exponent as zero (`:201`); a negative
  `int` of the program compares with an unsigned variant as if it were a large
  number (`arithmeticCompare.hpp:45`); raw texts are compared as far as the
  shorter one goes (`VariantCompare.hpp:119`), objects with repeated keys by
  their first ones; a filter with `"*"` for an array that is skipped makes the
  MessagePack reader use a null pointer (`MsgPackDeserializer.hpp:366`, the
  action `NullArray`); slots of a member whose memory is refused are lost until
  `clear()` (`ObjectImpl.hpp:59`, the heap's part `lost`); after
  `shrinkToFit()` the pool list may grow past its limit
  (`MemoryPoolList.hpp:182`); `set()` answers whether any request was ever
  refused, not whether its own was (`VariantRefBaseImpl.hpp:138`).

## 5. Proofs

All theorems hold for every value of the constants allowed by the named
assumptions of the modules, which only say what the code's constants are: at
least one slot and entry, a null value that is no peer, different programs on
the two ports, sizes that are not zero, pools of ArduinoJson whose ids fill the
id's width, digits for all values below ten. What a theorem assumes on top
stands in its statement.

**Bridge.** `MqttBridgeProofs!Inv` is inductive:

* `TypeOK`;
* `HandlerInv`: while a handler runs, `visit` is an active slot whose handshake
  is done;
* `QueueInv`: each server has only its own peers pending;
* `SlotInv`: a free slot has no entries, and a TLS client without handshake
  none either;
* `UpstreamInv`: which combinations of `upTcp`, `pubClient` and `pubState` can
  occur. `NeverOnlineOnFreed` needs to know that `_client` is freed only when
  `_upTcp` is null, and `ComesOnlineWithSession` that a `_state` left at
  connected is cleared by the call of `connected()` that precedes every
  reconnection.

From it follow `TypeCorrectness`, `NothingBeforeHandshake`, `FreedIsOffline` and
`OnlineMeansSession`. `NothingBeforeHandshake` is about steps: whatever is
written to a slot, stored for it, or passed on from it while its handshake is
pending. Packets go to a slot from its handler, which has its client
(`HandlerHasClient`, from `HandlerInv`), and from the fan-out of a report, which
needs an entry; `SlotInv` says that there is none. One lemma for each part of
`loop()` says what that part leaves alone (`UpstreamLeavesPending`,
`AcceptLeavesPending`, `ServeWrites`, `VisitOfPending`).

`MqttBridgeProofs` adds to it `SubscriptionInv`: the entries of a slot are
exactly what its client asked for, without repetition and within `MaxSubs`
(`EntriesInv`); a SUBSCRIBE under way asks for nothing that is held already
(`PacketInv`); and a living session has the upstream name of everything asked
(`DemandInv`). It is inductive for clients that are `WellBehaved`: they do not
repeat a subscription, use QoS 0 or 1, use no more filters than a slot has
entries, and not the printer's own serial. Findings 1 and 2 above show that the
first and the last of these are needed; the code shows the other two (nothing
is stored beyond the array, and PubSubClient refuses QoS 2). The theorems are
`StoredCorrectly`, `DemandIsCovered`, `DroppedOnlyUnwanted` and
`ReportsReachAllAskers`; the last two rest on the lemma that the two
translations agree for such filters.

`BridgeIsSharedSession` proves the refinement for the same clients, from
`SubscriptionInv`: there is a lemma for each action of `SharedSession`
(`ConnectStep`, `LoseStep`, `AskStep`, `GiveUpStep`, `LeaveStep`, `ReportStep`,
`RestartStep`, and `QuietStep` for whatever leaves the session and the wishes
alone), and `SharedStep` assigns the actions of the bridge to them. `GiveUp` is
the interesting one: `handleClient()` searches the other clients for the filter
as it was written, but drops the printer's name for it; this is right only
because no two filters of well-behaved clients have the same name there
(`ToUpstreamInjective`).

`MqttBridgeProofs!EverySocketOwned` proves `SocketsOwned` by strengthening it
with "no peer is pending twice", which `DataLemmas` carries through `Head`,
`Tail` and `Append`.

**Proxy.** `TcpProxyProofs!Inv` is `TypeOK`, `SameSession` and `StaleInv`: while
the connection is up, or a loop is past its first phase, `_disconnected` is
clear, and while it is set no slot is taken. Without the second half nothing
would say that skipping `disconnectAll()` is right. `GapInv` (a slot that lost
bytes is about to be closed) gives `NothingAfterALoss`, under the assumption
that writes are not short, which `proxy_short` shows to be needed.
`EverySocketOwned` as for the bridge.

**Gateway.** The certificate is proved about in a specification of its own,
`CertStore!CertSpec`, which `DeviceImplementsStore` shows the device to
implement: every step of `Gateway` is a step of the store or leaves it alone.
`CertInv` is inductive and says what makes `begin()` right: `caDer` is stored
last, so its presence marks that the other two are of the same chain; while a
chain is being stored there is no `caDer` in the flash, and the blobs in front
of the one being written are those in memory. `StoreIsOneChain` maps the store
to `OneChain`: the chain is chosen with the last write, and every other step is
a stutter, a showing or a hiding of it. `PairsMatch` and `TrustStays` follow
from `CertInv`. All assume that `putBytes()` does not fail: with `WritesFail`,
a boot that stores only the certificate and a later one that stores all but the
certificate would leave a mixture.

`SavedStays` rests on `SaveInv` (what is told is what is stored from the answer
on; what is in memory is what was typed until then) and assumes that texts fit
and commits do not fail. `ApComesBack` rests on `ApInv`, which adds that a
station that is up is configured, and assumes that `softAP()` does not fail.
`UpdateIsSound` rests on `UpdateInv`: the release only becomes newer, so what
was compared is at most what is downloaded. `DeviceTypes` needs no assumption but
that an unwritten EEPROM is no record.

**TLS client.** `TlsClientProofs!LayersInv` says that what the handlers got,
`_rbuf`, mbedTLS's rest and the line carry on from each other without a hole:
each is a run of consecutive numbers (`Run`), and the line is a chain of pieces
(`Chain`). The lemmas `SslReadInOrder`, `ReadBufferInOrder` and `ReadOneInOrder`
show this of the three read functions, whatever sizes they are called with, and
`PreReadKeeps` of the read that puts its bytes back; that one needs
`PreSize = RbufSize`, for `bufferReadData()` would cut off what does not fit.
`HandlersReadAsSent` is the refinement of `ByteChannel` upwards.
`DownInv` numbers the records on their way as long as none was short, says that
the record number is the count of what was encrypted (so a message the cipher
refused leaves no hole in the numbers), and gives the refinement downwards
(`ProgramDecryptsAsSealed`) with and without short writes, and
`OnlyAShortWriteBreaks`. `HelloInv` lists where the two pieces of
the hello can be; `HelloArrivesInOrder` follows.

`HandlersStayInFrame` is about where in the stream a handler stands, for every
sequence of packets. `FrameInv` says that, as long as no read was cut short,
between two packets the next byte is the first one of a packet (`Start`, the sum
of the sizes before it), and within a packet what has been read and the read
calls still to come add up to what its handler takes (`ReadUpTo`). The two sums
are recursive functions; `Starting` and `ReadingUp` are their lemmas.

**Formats.** The provers cannot instantiate a lemma with an operator as its
parameter, which an induction principle usually has. The lemmas `Induction`,
`StrongInduction` and `InductionFrom` of `DataLemmas` have a *set* of numbers
instead; they rest on `LeastNatural`, that is on the library's fact that the
order of the numbers is well founded. In the same way `RecursionExists` shows
that a function defined by recursion exists when its steps, given as a function
on functions, look only at arguments of smaller rank; `SumExists` and
`CarriedExists` are the cases of a sum and of a loop that carries a value. With
these the algorithms that are loops in the code are proved for every input:

* `TopicsMatchAsMqtt`: the walk of `topicMatchesSub()` through two texts of any
  length agrees with the comparison of their levels, for valid filters without
  empty levels (with those it does not, see section 4). At the begin of a level
  in both texts the walk compares the first levels (`FirstLevel`, with
  `LiteralLevel` for a level without wildcards), then goes on behind them, as
  does the reference (`LevelsMatchStep`, `LevelsMatchTail`); `LevelsFromMatch`
  is the induction on what is left of the filter.
* `LengthsAreRead`: both decoders of the remaining length read what the encoder
  writes, below `Base^4`. `PacketsFit`: no packet PubSubClient builds leaves its
  buffer. `CertificateLengthsAgree`: the three lengths of certificates, for
  two-byte lengths.
* `VersionsAreOrdered`: `compareVersions()` compares by the numbers of the two
  texts, whatever they look like; `NewerIsTransitive`.
* `IntegersAreRead`, `IntegersComeBack`: every integer of every type of
  ArduinoJson is stored, asked for as every other type, and written as
  MessagePack and read again, for bytes of three bits or more. What is needed
  of the powers of two (`PowersGrow`, `EndsAreInOrder`) is proved of the
  recursive function `PowerOfTwo`.
* `IntegersReadAsWritten`: the text that an integer is written as is read by
  `parseNumber()` as that integer, and stored in a type that holds it. After its
  first `i` digits the reader holds the quotient of the number by a power of ten
  (`SpelledOut`, `QuotientOfTen`), so its mantissa never overflows
  (`WholeIsRead`).
* `OrdersAreKept`: an integer of the program and one of a document are compared
  by their values, but for the one pair that `OrderKept` names (section 4). A
  variant's integer is visited with eight bytes, hence that assumption.

**ArduinoJson.** `SlotsUsedOnce`, `StringsStayCounted` and `HeapTyped` are
proved of `JsonReader!JsonSpec`, the document and its readers without the
examples that `MCJson` puts in front of them. They hold for every number and
capacity of pools, every set of texts and values, every depth of the values,
every input, filter and limit, and whichever requests for memory are refused.

Neither property is inductive. `SlotsOnce` speaks of what is found by walking
from the root, and says nothing of a slot that has been given out and is not
linked yet, of the order in which a chain comes to its slots, or of a reader
that holds on to slots between two of its steps. The invariant therefore speaks
of a *tree* beside the heap: a record of the slots in use (`nodes`), those not
linked yet (`pending`), the slots below each (`kids`), whose they are (`own`),
and a number for each that grows with every slot given out (`born`, `clock`).

* `Forest(g)`: the tree is one. Each slot is below one other at most, and was
  given out later than the one above it and those in front of it. This order is
  why walks end: along every step of `Walk` the number grows.
* `Shows(h, g)`: the links of the heap are those of the tree, heads, tails and
  ends of chains included.
* `Memory(h, g)`: what the pools have given out is in the tree, free, or lost,
  in one of these only and in the list of free slots once.
* `Exact(h)`: each string is counted as often as variants hold it.
* `Good` is all of these; `Sound` adds `Counted` (the pools hold what they have
  room for, the last has one slot less, slots are lost only when memory was
  refused), and that an object's slots are keys and values in turn.
* `Reads(h, g, r)` is where a reader is: each frame of its stack is a collection
  of its type, the frames below it are older, and the slot it will write to is
  null and younger than all of these. This is what makes it right that the
  reader clears and frees without looking at its own stack: what `Clear` frees
  below a slot is younger than that slot (`Kept`), so no frame is among it, not
  even for a key that is repeated.
* `Between(heap, reader)`, the inductive invariant (`IInv`): the heap is in
  order and, while its pools have numbers, there is a tree with
  `Sound`, `Reads` and nothing pending.

`JsonHeapProofs` has a lemma for each operation of memory, strings and links:
that it keeps the heap's types and counts (`Grows`), and what it does to the
tree: `Cut` (what is cleared), `Joins` (a slot is linked), `Dropped` (slots are
lost), `Unlinked` (a slot is taken out of a chain). `SlotsAreOnce` and
`StringsAreCounted` read the two properties off the tree; the first shows that
`Walk`, from the root, comes to every slot of the tree exactly once.
`JsonProofs` composes these to the operations of `JsonTree` (`Leads`: the tree
after it is sound, has nothing pending that was not pending before, and has kept
everything older than the slot worked on), to copying (by induction on the
depth), to the calls (`DocStep`) and to the steps of a reader (`ReaderStep`).

Because the invariant says that a tree *exists*, TLC cannot evaluate it; what TLC
checks are its consequences, of which `SlotsOnce` has all that can be seen in
the heap. The assumptions: `PoolAssumption` says that the ids fill the width of
`SlotId` and that the list of pools comes to its limit by doubling; the
configured capacities 16, 128 and 256 and the 4 pools at first
(`Configuration.hpp:98`) are such, for one, two and four bytes.
`ValueAssumption` and `InputAssumption` say that values and tokens are of the
kinds the code has. The guard `PoolsNumbered` stands in the properties
themselves: beyond it ids wrap, and a slot would be given out twice.

Proving showed two things about the model and the properties: `SlotsOnce` can
say more than it did, that nothing at all is lost unless memory was refused;
and the last pool, which has one slot less so that no id is `NULL_SLOT`, is what
makes an id unique, which is why it stands in the invariant.

**Only model-checked:**

* the liveness properties: the prover does not handle fairness and ENABLED;
* `ParsedAsMeant`: the meaning of a document, of a filter and of a repeated key
  is recursive over the data (`TreeOf`, `Kept`), and what such a definition
  computes for every input is an induction over trees that the provers cannot
  instantiate; its operators are `RECURSIVE` and stand in a module of their own;
* of `FormatsAgree`, the comparison of two variants, which is recursive over
  them; `isValidHost()` and texts that are no number, which are judged by
  examples; and the reading of numbers with a fraction or an exponent, where
  what is right is given with each example.

## 6. Not modelled, and why

* The AES key register: `invalidateAesKeys()` and `clearKeyInHardware()` clear
  flags that a driver outside the repository reads, and the comment at
  `src/mqtt_bridge.cpp:16` is the only account of what it does with them.
* Payloads, packet ids, and the JSON answers of the fake printer mode beyond the
  fact that one is sent: no property depends on them.
* The results of `_pubsub.publish()` and `subscribe()`: the bridge acknowledges
  whether or not the printer got the message; there is nothing to hold it to.
* mDNS lookup and the timeouts of `connect()`: they only delay.
* `generateCertChain()` but for its lengths: a straight line of library calls;
  likewise the self-test of the certificate and its printing.
* SSDP's messages, the LED, the web pages: texts and lights on which nothing
  else depends.
* The upload of firmware from a browser and ArduinoOTA: they hand what comes to
  the Update library without a decision of their own.
* ArduinoJson: the rounding of floats (`make_float()`, the conversion of floats
  to integers, the comparison of floats), the limit of 63 characters of a
  number, escapes, UTF-8 and UTF-16, the layout of what is written, the growth
  of the MessagePack buffer step by step; `realloc()` to a smaller size is
  assumed not to fail, as the code asserts.
* Numbers in a version or an address that do not fit in an `int`: what
  `compareVersions()` and `isValidHost()` make of them is not followed.
