----------------------------- MODULE MqttBridge -----------------------------
(***************************************************************************)
(* The MQTT bridge of the gateway: one MQTT session with the printer,      *)
(* shared by the local clients of ports 1883 (plain) and 8883 (TLS).       *)
(*                                                                         *)
(* The gateway is one thread.  MqttBridge::loop() runs again and again in  *)
(* three phases:                                                           *)
(*   "upstream"  reconnect to the printer, or read one packet from it;     *)
(*   "accept"    take the waiting connections into free client slots;      *)
(*   "serve"     visit the slots in order and handle one packet of each.   *)
(* Between any two steps of the thread the environment may move: WiFi, the *)
(* printer, the link to it, the reconnect timer, the local peers.          *)
(***************************************************************************)
EXTENDS MqttTopics, Naturals, Sequences, FiniteSets

CONSTANTS
  MaxClients,      \* MAX_MQTT_CLIENTS, the slots of _clients
  MaxSubs,         \* the entries of MqttClientCtx.subs
  TlsPeers,        \* programs that connect to port 8883
  PlainPeers,      \* programs that connect to port 1883
  NoPeer,          \* the content of a free slot
  ClientFilters,   \* the filters local clients use
  ClientQos,       \* the QoS levels they ask for
  MaxTopics,       \* bound: filters in one SUBSCRIBE or UNSUBSCRIBE
  Repeats,         \* whether a client may subscribe to what it already holds
  ReportLeaf,      \* the leaf of the printer's reports
  BuiltinTopics,   \* extraTopics of loop(), subscribed at every connection
  MaxReboots       \* bound: restarts of the device

Peers == TlsPeers \cup PlainPeers
Slots == 1..MaxClients
Subs  == [topic : ClientFilters, qos : ClientQos]

\* The printer publishes under its own serial.
PrinterTopics == [serial : {PrinterSerial}, leaf : Leaves]

ASSUME ConstantsAssumption ==
  /\ MaxClients \in Nat \ {0}
  /\ MaxSubs \in Nat \ {0}
  /\ MaxTopics \in Nat \ {0}
  /\ MaxReboots \in Nat
  /\ Repeats \in BOOLEAN
  /\ NoPeer \notin Peers
  /\ TlsPeers \cap PlainPeers = {}
  /\ ClientFilters \subseteq Filters
  /\ ClientQos \subseteq 0..2
  /\ ReportLeaf \in Leaves
  /\ BuiltinTopics \subseteq Filters

VARIABLES
  \* the thread
  phase,           \* where loop() is
  visit,           \* the slot the "serve" phase has come to
  handler,         \* the packet handler that is under way, if any
  toSub,           \* what is left of the SUBSCRIBE being handled
  toUnsub,         \* what is left of the UNSUBSCRIBE being handled
  \* the environment
  wifi,            \* WiFi.isConnected()
  printer,         \* what the printer's port 8883 does
  reconnectDue,    \* millis() - _lastReconnect > 5000
  \* the upstream session
  session,         \* the printer holds an MQTT session of the gateway
  upSubs,          \* the filters of that session
  upTcp,           \* _upTcp: "null", or an "open" or "closed" connection
  pubClient,       \* what _pubsub._client points to
  pubState,        \* _pubsub._state = MQTT_CONNECTED or not
  \* the local clients
  queue,           \* the connections each listening server has pending
  open,            \* whether a peer's connection is up
  slot,            \* the peer in each slot; NoPeer when it is not active
  hs,              \* MqttClientCtx.isTls and the state of the handshake
  subs,            \* MqttClientCtx.subs[0 .. subCount - 1]
  asked,           \* history: the filters the slot's client asked for
  \* the device
  rebound,         \* staServicesStarted of main.cpp
  boots,           \* restarts so far
  out              \* history: the packets the last step wrote

ctrlVars == <<phase, visit, handler, toSub, toUnsub>>
envVars  == <<wifi, printer, reconnectDue>>
upVars   == <<session, upSubs, upTcp, pubClient, pubState>>
downVars == <<queue, open, slot, hs, subs, asked>>
vars     == <<ctrlVars, envVars, upVars, downVars, rebound, boots, out>>

Packet(to, kind, topic) == [to |-> to, kind |-> kind, topic |-> topic]
Printer == 0       \* the receiver of a packet that is no slot

PacketKinds == {"message", "connack", "puback", "suback", "unsuback",
                "pingresp", "fake", "request"}

NonEmptySeqs(S) == UNION {[1..n -> S] : n \in 1..MaxTopics}

TypeOK ==
  /\ phase \in {"upstream", "accept", "serve"}
  /\ visit \in 1..(MaxClients + 1)
  /\ handler \in {"none", "subscribe", "unsubscribe"}
  /\ toSub \in Seq(Subs)
  /\ toUnsub \in Seq(ClientFilters)
  /\ wifi \in BOOLEAN
  /\ printer \in {"off", "refusing", "on"}
  /\ reconnectDue \in BOOLEAN
  /\ session \in BOOLEAN
  /\ upSubs \subseteq Filters
  /\ upTcp \in {"null", "open", "closed"}
  /\ pubClient \in {"null", "live", "freed"}
  /\ pubState \in {"down", "connected"}
  /\ queue \in [{"tls", "plain"} -> Seq(Peers)]
  /\ open \in [Peers -> BOOLEAN]
  /\ slot \in [Slots -> Peers \cup {NoPeer}]
  /\ hs \in [Slots -> {"plain", "busy", "done"}]
  /\ subs \in [Slots -> Seq(Subs)]
  /\ asked \in [Slots -> SUBSET ClientFilters]
  /\ rebound \in BOOLEAN
  /\ boots \in 0..MaxReboots
  /\ out \subseteq [to : {Printer} \cup Slots, kind : PacketKinds,
                    topic : Filters]

(***************************************************************************)
(* The state after power-on: the constructor and begin().                  *)
(***************************************************************************)
Init ==
  /\ phase = "upstream" /\ visit = 1
  /\ handler = "none" /\ toSub = <<>> /\ toUnsub = <<>>
  /\ wifi = FALSE /\ printer = "off" /\ reconnectDue = FALSE
  /\ session = FALSE /\ upSubs = {}
  /\ upTcp = "null" /\ pubClient = "null" /\ pubState = "down"
  /\ queue = [s \in {"tls", "plain"} |-> <<>>]
  /\ open = [p \in Peers |-> FALSE]
  /\ slot = [i \in Slots |-> NoPeer]
  /\ hs = [i \in Slots |-> "plain"]
  /\ subs = [i \in Slots |-> <<>>]
  /\ asked = [i \in Slots |-> {}]
  /\ rebound = FALSE /\ boots = 0 /\ out = {}

-----------------------------------------------------------------------------
(***************************************************************************)
(* What several handlers share.                                            *)
(***************************************************************************)
Active(i) == slot[i] # NoPeer
Entries(i) == {subs[i][k] : k \in 1..Len(subs[i])}
Stored(i) == {subs[i][k].topic : k \in 1..Len(subs[i])}

\* PubSubClient::connected(): the TCP connection is asked first; when it is
\* down a connected client becomes a disconnected one.  A "freed" client was
\* deleted by connectUpstream(): its answer is arbitrary, so that only _state
\* decides.
Online == /\ pubClient # "null"
          /\ pubClient = "live" => upTcp = "open"
          /\ pubState = "connected"

\* Variant: a lost connection is not noted in _state.
StateAfterCheck_KeepsState == pubState

StateAfterCheck == IF pubClient = "live" /\ upTcp # "open" THEN "down"
                                                           ELSE pubState

\* Variant: the filters are subscribed as the clients named them.
Demand_Untranslated == UNION {Stored(i) : i \in {j \in Slots : Active(j)}}

\* PubSubClient::subscribe() refuses QoS 2.
Demand ==
  {ToUpstream(s.topic) :
     s \in {e \in UNION {Entries(i) : i \in {j \in Slots : Active(j)}} : e.qos <= 1}}

\* Variant: the message is matched under the printer's serial.
Receivers_Untranslated(t) ==
  {i \in Slots : Active(i) /\ \E f \in Stored(i) : Matches(t, f)}

\* Variant: the search ends with the first client that gets the message.
Receivers_FirstOnly(t) ==
  {i \in Slots : /\ Active(i) /\ \E f \in Stored(i) : Matches(ToLocal(t), f)
                 /\ \A j \in 1..(i - 1) :
                      ~(Active(j) /\ \E f \in Stored(j) : Matches(ToLocal(t), f))}

\* The slots onUpstreamMessage() writes to: one copy for each client with a
\* matching entry, whatever the number of its entries that match.
Receivers(t) == {i \in Slots : Active(i) /\ \E f \in Stored(i) : Matches(ToLocal(t), f)}

IsFree(i) == ~Active(i)

\* The first free slot, if there is one.
IsFirstFree(i) == IsFree(i) /\ \A j \in Slots : j < i => ~IsFree(j)

\* Variant: the loop variable is incremented twice.
NextSlot_Twice ==
  /\ visit' = visit + 2
  /\ UNCHANGED <<phase, handler, toSub, toUnsub>>

\* The for loop of loop() goes on to the next slot.
NextSlot ==
  /\ visit' = visit + 1
  /\ UNCHANGED <<phase, handler, toSub, toUnsub>>

\* Variant: the connection is not stopped.
Release_WithoutStop(i) ==
  /\ slot' = [slot EXCEPT ![i] = NoPeer]
  /\ hs' = [hs EXCEPT ![i] = "plain"]
  /\ subs' = [subs EXCEPT ![i] = <<>>]
  /\ asked' = [asked EXCEPT ![i] = {}]
  /\ UNCHANGED <<queue, open>>

\* disconnectClient(): the upstream session is left as it is.
Release(i) ==
  /\ open' = [open EXCEPT ![slot[i]] = FALSE]
  /\ slot' = [slot EXCEPT ![i] = NoPeer]
  /\ hs' = [hs EXCEPT ![i] = "plain"]
  /\ subs' = [subs EXCEPT ![i] = <<>>]
  /\ asked' = [asked EXCEPT ![i] = {}]
  /\ UNCHANGED queue

-----------------------------------------------------------------------------
(***************************************************************************)
(* Phase "upstream".                                                       *)
(***************************************************************************)
InUpstream == phase = "upstream" /\ (rebound \/ ~wifi)

EndUpstream ==
  /\ phase' = "accept"
  /\ UNCHANGED <<visit, handler, toSub, toUnsub>>

\* Variant: only a connection that was never made is made again.
MustConnect_OnlyNull == upTcp = "null"

\* loop() evaluates !_upTcp || !_pubsub.connected(), which may change _state.
MustConnect == upTcp = "null" \/ ~Online
StateOfLoop == IF upTcp = "null" THEN pubState ELSE StateAfterCheck

\* rebind(): both servers are closed and opened again, which drops the
\* connections they have pending.
Rebind ==
  /\ open' = [p \in Peers |->
                open[p] /\ ~\E s \in {"tls", "plain"} :
                             \E k \in 1..Len(queue[s]) : queue[s][k] = p]
  /\ queue' = [s \in {"tls", "plain"} |-> <<>>]

\* main.cpp: the first time the station is connected, and only then.
StartStationServices ==
  /\ phase = "upstream" /\ wifi /\ ~rebound
  /\ rebound' = TRUE
  /\ Rebind
  /\ out' = {}
  /\ UNCHANGED <<ctrlVars, envVars, upVars, slot, hs, subs, asked, boots>>

\* Not connected, and it is not time (or there is no WiFi) to try.
WaitToReconnect ==
  /\ InUpstream /\ MustConnect
  /\ ~(wifi /\ reconnectDue)
  /\ pubState' = StateOfLoop
  /\ EndUpstream
  /\ out' = {}
  /\ UNCHANGED <<envVars, session, upSubs, upTcp, pubClient, downVars,
                 rebound, boots>>

\* connectUpstream() when TCP or TLS fails.  The old client and the new one
\* are deleted; _pubsub goes on pointing to the old one.
ConnectFails ==
  /\ InUpstream /\ MustConnect
  /\ wifi /\ reconnectDue /\ printer = "off"
  /\ upTcp' = "null"
  /\ pubClient' = IF pubClient = "null" THEN "null" ELSE "freed"
  /\ pubState' = StateOfLoop
  /\ session' = FALSE /\ upSubs' = {}
  /\ reconnectDue' = FALSE
  /\ EndUpstream
  /\ out' = {}
  /\ UNCHANGED <<wifi, printer, downVars, rebound, boots>>

\* connectUpstream() when the connection is made and the printer rejects the
\* CONNECT or does not answer it: PubSubClient stops the connection.
ConnectRefused ==
  /\ InUpstream /\ MustConnect
  /\ wifi /\ reconnectDue /\ printer = "refusing"
  /\ StateOfLoop = "down"
  /\ upTcp' = "closed"
  /\ pubClient' = "live"
  /\ pubState' = "down"
  /\ session' = FALSE /\ upSubs' = {}
  /\ reconnectDue' = FALSE
  /\ EndUpstream
  /\ out' = {}
  /\ UNCHANGED <<wifi, printer, downVars, rebound, boots>>

\* connectUpstream() when it succeeds, and the subscriptions loop() then
\* makes.  PubSubClient::connect() sends no CONNECT when _state says that it
\* is connected already, and the printer then ignores what follows.
ConnectSucceeds ==
  /\ InUpstream /\ MustConnect
  /\ wifi /\ reconnectDue
  /\ printer = "on" \/ (printer = "refusing" /\ StateOfLoop = "connected")
  /\ upTcp' = "open"
  /\ pubClient' = "live"
  /\ pubState' = "connected"
  /\ session' = (StateOfLoop = "down")
  /\ upSubs' = IF StateOfLoop = "down" THEN BuiltinTopics \cup Demand ELSE {}
  /\ reconnectDue' = FALSE
  /\ EndUpstream
  /\ out' = {}
  /\ UNCHANGED <<wifi, printer, downVars, rebound, boots>>

\* _pubsub.loop() with nothing to read.
PubSubIdle ==
  /\ InUpstream /\ ~MustConnect
  /\ EndUpstream
  /\ out' = {}
  /\ UNCHANGED <<envVars, upVars, downVars, rebound, boots>>

\* _pubsub.loop() reads a PUBLISH of the printer; onUpstreamMessage() runs.
OnUpstreamMessage(t) ==
  /\ InUpstream /\ ~MustConnect
  /\ session
  /\ \E f \in upSubs : Matches(t, f)
  /\ out' = {Packet(i, "message", ToLocal(t)) : i \in Receivers(t)}
  /\ EndUpstream
  /\ UNCHANGED <<envVars, upVars, downVars, rebound, boots>>

\* _pubsub.loop() finds that its PINGREQ was not answered in time.
KeepaliveTimeout ==
  /\ InUpstream /\ ~MustConnect
  /\ ~session
  /\ upTcp' = "closed"
  /\ pubState' = "down"
  /\ EndUpstream
  /\ out' = {}
  /\ UNCHANGED <<envVars, session, upSubs, pubClient, downVars, rebound, boots>>

UpstreamStep ==
  \/ StartStationServices
  \/ WaitToReconnect \/ ConnectFails \/ ConnectRefused \/ ConnectSucceeds
  \/ PubSubIdle \/ KeepaliveTimeout
  \/ \E t \in PrinterTopics : OnUpstreamMessage(t)

-----------------------------------------------------------------------------
(***************************************************************************)
(* Phase "accept": acceptClient() is called until it returns no slot.      *)
(***************************************************************************)
\* Variant: the first slot is never visited.
EndAccept_SkipsFirst ==
  /\ phase' = "serve" /\ visit' = 2
  /\ UNCHANGED <<handler, toSub, toUnsub>>

EndAccept ==
  /\ phase' = "serve" /\ visit' = 1
  /\ UNCHANGED <<handler, toSub, toUnsub>>

\* Variant: the plain server is asked first.
AcceptPort_PlainFirst == IF queue["plain"] # <<>> THEN "plain" ELSE "tls"

\* The port acceptClient() takes its connection from: TLS comes first.
AcceptPort == IF queue["tls"] # <<>> THEN "tls" ELSE "plain"

\* The connection is taken into the first free slot; the loop goes on.
AcceptIntoSlot(i) ==
  LET s == AcceptPort
      p == Head(queue[s])
  IN /\ phase = "accept" /\ queue[s] # <<>>
     /\ open[p] /\ IsFirstFree(i)
     /\ queue' = [queue EXCEPT ![s] = Tail(@)]
     /\ slot' = [slot EXCEPT ![i] = p]
     /\ hs' = [hs EXCEPT ![i] = IF s = "tls" THEN "busy" ELSE "plain"]
     /\ subs' = [subs EXCEPT ![i] = <<>>]
     /\ asked' = [asked EXCEPT ![i] = {}]
     /\ out' = {}
     /\ UNCHANGED <<ctrlVars, envVars, upVars, open, rebound, boots>>

\* The connection is closed again: it is already down; or no byte arrived
\* within 100 ms, or the TLS context cannot be set up (port 8883 only); or
\* every slot is taken.  The loop of loop() ends, whatever is still pending.
AcceptAndClose ==
  LET s == AcceptPort
      p == Head(queue[s])
  IN /\ phase = "accept" /\ queue[s] # <<>>
     /\ ~open[p] \/ s = "tls" \/ \A i \in Slots : ~IsFree(i)
     /\ queue' = [queue EXCEPT ![s] = Tail(@)]
     /\ open' = [open EXCEPT ![p] = FALSE]
     /\ EndAccept
     /\ out' = {}
     /\ UNCHANGED <<envVars, upVars, slot, hs, subs, asked, rebound, boots>>

AcceptNothing ==
  /\ phase = "accept" /\ queue[AcceptPort] = <<>>
  /\ EndAccept
  /\ out' = {}
  /\ UNCHANGED <<envVars, upVars, downVars, rebound, boots>>

AcceptStep ==
  \/ \E i \in Slots : AcceptIntoSlot(i)
  \/ AcceptAndClose \/ AcceptNothing

-----------------------------------------------------------------------------
(***************************************************************************)
(* Phase "serve": every slot is visited once.                              *)
(***************************************************************************)
AtSlot == phase = "serve" /\ visit \in Slots /\ handler = "none"
AtClient == AtSlot /\ Active(visit)

EndServe ==
  /\ phase = "serve" /\ visit = MaxClients + 1
  /\ phase' = "upstream" /\ visit' = 1
  /\ out' = {}
  /\ UNCHANGED <<handler, toSub, toUnsub, envVars, upVars, downVars,
                 rebound, boots>>

SkipSlot ==
  /\ AtSlot /\ ~Active(visit)
  /\ NextSlot
  /\ out' = {}
  /\ UNCHANGED <<envVars, upVars, downVars, rebound, boots>>

\* continueHandshake() returns 0; on a closed connection it returns -1.
HandshakePending ==
  /\ AtClient /\ hs[visit] = "busy" /\ open[slot[visit]]
  /\ NextSlot
  /\ out' = {}
  /\ UNCHANGED <<envVars, upVars, downVars, rebound, boots>>

\* continueHandshake() returns 1; the visit goes on with the same slot.
HandshakeDone ==
  /\ AtClient /\ hs[visit] = "busy" /\ open[slot[visit]]
  /\ hs' = [hs EXCEPT ![visit] = "done"]
  /\ out' = {}
  /\ UNCHANGED <<ctrlVars, envVars, upVars, queue, open, slot, subs, asked,
                 rebound, boots>>

\* continueHandshake() returns -1: an error, or 30 s have passed.
HandshakeFails ==
  /\ AtClient /\ hs[visit] = "busy"
  /\ Release(visit)
  /\ NextSlot
  /\ out' = {}
  /\ UNCHANGED <<envVars, upVars, rebound, boots>>

\* The client's connection is down.
DropClosed ==
  /\ AtClient /\ hs[visit] # "busy" /\ ~open[slot[visit]]
  /\ Release(visit)
  /\ NextSlot
  /\ out' = {}
  /\ UNCHANGED <<envVars, upVars, rebound, boots>>

\* Variant: packets are read before the handshake is done.
CanHandle_BeforeHandshake == AtClient /\ open[slot[visit]]

CanHandle == AtClient /\ hs[visit] # "busy" /\ open[slot[visit]]

\* handleClient() with no byte to read, or a packet type it only drains.
HandleNothing ==
  /\ CanHandle
  /\ NextSlot
  /\ out' = {}
  /\ UNCHANGED <<envVars, upVars, downVars, rebound, boots>>

\* CONNECT and PINGREQ are answered; nothing is checked and nothing changes.
HandleConnectOrPing ==
  /\ CanHandle
  /\ \E kind \in {"connack", "pingresp"} :
       out' = {Packet(visit, kind, NoTopic)}
  /\ NextSlot
  /\ UNCHANGED <<envVars, upVars, downVars, rebound, boots>>

\* PUBLISH.  Without a printer a request topic is answered by the gateway
\* itself.  The payload then goes to the printer's request topic, and QoS 1
\* is acknowledged, whether or not it went; QoS 2 is not acknowledged.
HandlePublish ==
  /\ CanHandle
  /\ \E qos \in 0..2, isRequest \in BOOLEAN :
       out' = (IF Online THEN {Packet(Printer, "request", NoTopic)}
               ELSE IF isRequest THEN {Packet(visit, "fake", NoTopic)} ELSE {})
              \cup (IF qos = 1 THEN {Packet(visit, "puback", NoTopic)} ELSE {})
  /\ pubState' = StateAfterCheck
  /\ NextSlot
  /\ UNCHANGED <<envVars, session, upSubs, upTcp, pubClient, downVars,
                 rebound, boots>>

\* A client that does not repeat itself asks only for new filters.
Wellformed(pkt) ==
  \/ Repeats
  \/ /\ \A k, n \in DOMAIN pkt : k # n => pkt[k].topic # pkt[n].topic
     /\ \A k \in DOMAIN pkt : pkt[k].topic \notin asked[visit]

\* SUBSCRIBE: the header is read; its filters follow one at a time.
HandleSubscribe ==
  /\ CanHandle
  /\ handler' = "subscribe"
  /\ toSub' \in {pkt \in NonEmptySeqs(Subs) : Wellformed(pkt)}
  /\ out' = {}
  /\ UNCHANGED <<phase, visit, toUnsub, envVars, upVars, downVars,
                 rebound, boots>>

\* One filter: stored if there is room, and subscribed upstream in any case.
SubscribeTopic ==
  LET s == Head(toSub)
  IN /\ handler = "subscribe" /\ toSub # <<>>
     /\ toSub' = Tail(toSub)
     /\ subs' = IF Len(subs[visit]) < MaxSubs
                THEN [subs EXCEPT ![visit] = Append(@, s)]
                ELSE subs
     /\ asked' = [asked EXCEPT ![visit] = @ \cup {s.topic}]
     /\ pubState' = IF s.qos <= 1 THEN StateAfterCheck ELSE pubState
     /\ upSubs' = IF s.qos <= 1 /\ Online /\ session
                  THEN upSubs \cup {ToUpstream(s.topic)}
                  ELSE upSubs
     /\ out' = {}
     /\ UNCHANGED <<phase, visit, handler, toUnsub, envVars, session, upTcp,
                    pubClient, queue, open, slot, hs, rebound, boots>>

\* SUBACK grants everything; without a printer the identity report follows.
SubscribeDone ==
  /\ handler = "subscribe" /\ toSub = <<>>
  /\ out' = {Packet(visit, "suback", NoTopic)} \cup
            (IF ~Online /\ \E f \in Stored(visit), sn \in {GatewaySerial, PrinterSerial} :
                             Matches([serial |-> sn, leaf |-> ReportLeaf], f)
             THEN {Packet(visit, "fake", NoTopic)} ELSE {})
  /\ pubState' = StateAfterCheck
  /\ handler' = "none"
  /\ visit' = visit + 1
  /\ UNCHANGED <<phase, toSub, toUnsub, envVars, session, upSubs, upTcp,
                 pubClient, downVars, rebound, boots>>

\* UNSUBSCRIBE: the header is read; its filters follow one at a time.
HandleUnsubscribe ==
  /\ CanHandle
  /\ handler' = "unsubscribe"
  /\ toUnsub' \in NonEmptySeqs(ClientFilters)
  /\ out' = {}
  /\ UNCHANGED <<phase, visit, toSub, envVars, upVars, downVars,
                 rebound, boots>>

\* Variant: the entries behind the one found are not moved up.
RemoveFirst_NoShift(entries, f) ==
  IF \E k \in 1..Len(entries) : entries[k].topic = f
  THEN SubSeq(entries, 1, Len(entries) - 1)
  ELSE entries

\* The first entry with the given topic is taken out of the array: those
\* before it stay, those behind it move up.
RemoveFirst(entries, f) ==
  IF \E k \in 1..Len(entries) : entries[k].topic = f
  THEN [k \in 1..(Len(entries) - 1) |->
          IF \A n \in 1..k : entries[n].topic # f THEN entries[k]
                                                 ELSE entries[k + 1]]
  ELSE entries

\* Variant: only the slots before the client's are searched.
StillWanted_Before(f) ==
  \E j \in 1..(visit - 1) : Active(j) /\ f \in Stored(j)

\* Whether another client has an entry with exactly this topic.
StillWanted(f) ==
  \E j \in Slots \ {visit} : Active(j) /\ f \in Stored(j)

UnsubscribeTopic ==
  LET f == Head(toUnsub)
  IN /\ handler = "unsubscribe" /\ toUnsub # <<>>
     /\ toUnsub' = Tail(toUnsub)
     /\ subs' = [subs EXCEPT ![visit] = RemoveFirst(@, f)]
     /\ asked' = [asked EXCEPT ![visit] = @ \ {f}]
     /\ upSubs' = IF ~StillWanted(f) /\ Online
                  THEN upSubs \ {ToUpstream(f)}
                  ELSE upSubs
     /\ pubState' = IF StillWanted(f) THEN pubState ELSE StateAfterCheck
     /\ out' = {}
     /\ UNCHANGED <<phase, visit, handler, toSub, envVars, session, upTcp,
                    pubClient, queue, open, slot, hs, rebound, boots>>

UnsubscribeDone ==
  /\ handler = "unsubscribe" /\ toUnsub = <<>>
  /\ out' = {Packet(visit, "unsuback", NoTopic)}
  /\ handler' = "none"
  /\ visit' = visit + 1
  /\ UNCHANGED <<phase, toSub, toUnsub, envVars, upVars, downVars,
                 rebound, boots>>

\* readBytes() does not wait: when the rest of the packet has not come yet, or
\* the peer is gone, the handler returns without an answer.
HandlerCutShort ==
  /\ handler # "none"
  /\ toSub # <<>> \/ toUnsub # <<>>
  /\ handler' = "none" /\ toSub' = <<>> /\ toUnsub' = <<>>
  /\ visit' = visit + 1
  /\ out' = {}
  /\ UNCHANGED <<phase, envVars, upVars, downVars, rebound, boots>>

HandleDisconnect ==
  /\ CanHandle
  /\ Release(visit)
  /\ NextSlot
  /\ out' = {}
  /\ UNCHANGED <<envVars, upVars, rebound, boots>>

ServeStep ==
  \/ EndServe \/ SkipSlot
  \/ HandshakePending \/ HandshakeDone \/ HandshakeFails
  \/ DropClosed \/ HandleNothing \/ HandleConnectOrPing \/ HandlePublish
  \/ HandleSubscribe \/ SubscribeTopic \/ SubscribeDone
  \/ HandleUnsubscribe \/ UnsubscribeTopic \/ UnsubscribeDone
  \/ HandlerCutShort \/ HandleDisconnect

LoopStep == UpstreamStep \/ AcceptStep \/ ServeStep

-----------------------------------------------------------------------------
(***************************************************************************)
(* The environment.                                                        *)
(***************************************************************************)
WifiChanges ==
  /\ wifi' = ~wifi
  /\ out' = {}
  /\ UNCHANGED <<ctrlVars, printer, reconnectDue, upVars, downVars,
                 rebound, boots>>

\* A printer that goes off forgets its session; the gateway's connection may
\* look open for as long as no keep-alive fails.
PrinterChanges ==
  /\ \E state \in {"off", "refusing", "on"} \ {printer} :
       /\ printer' = state
       /\ session' = (session /\ state # "off")
       /\ upSubs' = IF state = "off" THEN {} ELSE upSubs
  /\ out' = {}
  /\ UNCHANGED <<ctrlVars, wifi, reconnectDue, upTcp, pubClient, pubState,
                 downVars, rebound, boots>>

LinkLost ==
  /\ upTcp = "open"
  /\ upTcp' = "closed"
  /\ session' = FALSE /\ upSubs' = {}
  /\ out' = {}
  /\ UNCHANGED <<ctrlVars, envVars, pubClient, pubState, downVars,
                 rebound, boots>>

ReconnectTimer ==
  /\ ~reconnectDue
  /\ reconnectDue' = TRUE
  /\ out' = {}
  /\ UNCHANGED <<ctrlVars, wifi, printer, upVars, downVars, rebound, boots>>

Queued(p) == \E s \in {"tls", "plain"} : \E k \in 1..Len(queue[s]) : queue[s][k] = p
Held(p)   == \E i \in Slots : slot[i] = p

PeerConnects(p) ==
  /\ ~open[p] /\ ~Queued(p) /\ ~Held(p)
  /\ open' = [open EXCEPT ![p] = TRUE]
  /\ queue' = [queue EXCEPT ![IF p \in TlsPeers THEN "tls" ELSE "plain"] =
                               Append(@, p)]
  /\ out' = {}
  /\ UNCHANGED <<ctrlVars, envVars, upVars, slot, hs, subs, asked,
                 rebound, boots>>

PeerLeaves(p) ==
  /\ open[p]
  /\ open' = [open EXCEPT ![p] = FALSE]
  /\ out' = {}
  /\ UNCHANGED <<ctrlVars, envVars, upVars, queue, slot, hs, subs, asked,
                 rebound, boots>>

\* The settings page and both update paths restart the device, as does a
\* crash or a power cut.
Reboot ==
  /\ boots < MaxReboots
  /\ boots' = boots + 1
  /\ phase' = "upstream" /\ visit' = 1
  /\ handler' = "none" /\ toSub' = <<>> /\ toUnsub' = <<>>
  /\ wifi' = FALSE /\ reconnectDue' = FALSE
  /\ session' = FALSE /\ upSubs' = {}
  /\ upTcp' = "null" /\ pubClient' = "null" /\ pubState' = "down"
  /\ queue' = [s \in {"tls", "plain"} |-> <<>>]
  /\ open' = [p \in Peers |-> FALSE]
  /\ slot' = [i \in Slots |-> NoPeer]
  /\ hs' = [i \in Slots |-> "plain"]
  /\ subs' = [i \in Slots |-> <<>>]
  /\ asked' = [i \in Slots |-> {}]
  /\ rebound' = FALSE /\ out' = {}
  /\ UNCHANGED printer

Environment ==
  \/ WifiChanges \/ PrinterChanges \/ LinkLost \/ ReconnectTimer
  \/ \E p \in Peers : PeerConnects(p) \/ PeerLeaves(p)
  \/ Reboot

Next == LoopStep \/ Environment

Spec == Init /\ [][Next]_vars

(***************************************************************************)
(* main.cpp's loop() never returns for good, so the thread always takes    *)
(* its next step; millis() advances; and an unanswered PINGREQ times out   *)
(* when _pubsub.loop() keeps running.  Nothing is assumed of the peers,    *)
(* the WiFi or the printer.                                                *)
(***************************************************************************)
Fairness ==
  /\ WF_vars(LoopStep)
  /\ WF_vars(ReconnectTimer)
  /\ SF_vars(KeepaliveTimeout)

FairSpec == Spec /\ Fairness

-----------------------------------------------------------------------------
(***************************************************************************)
(* Safety.                                                                 *)
(***************************************************************************)

\* What a client is delivered is what it asked for: the entries of its slot
\* are its own live subscriptions, none lost when others were removed, none
\* inherited from the slot's last client.
StoredIsAsked ==
  \A i \in Slots : Stored(i) = asked[i]

\* While the printer holds the gateway's session, it has every filter some
\* local client is subscribed to: through (re)connections made while clients
\* came and went, and through other clients' UNSUBSCRIBEs.
DemandCovered ==
  Online /\ session =>
    \A i \in Slots : \A f \in asked[i] : ToUpstream(f) \in upSubs

\* A filter leaves a living upstream session only when no client that stays
\* subscribed needs it (README: "only unsubscribes when no local client
\* still wants a topic").
OnlyUnwantedDropped ==
  [][session' => \A u \in upSubs \ upSubs' :
                   \A i \in Slots : \A s \in {subs'[i][k] : k \in 1..Len(subs'[i])} :
                     ToUpstream(s.topic) # u]_vars

\* A message of the printer goes to exactly the clients one of whose
\* subscriptions the printer itself would have matched it against: the two
\* translations, on the way up and on the way down, agree, and no entry is left
\* of what a client has given up.
ReportsReachAskers ==
  [][InUpstream =>
       \A t \in PrinterTopics : OnUpstreamMessage(t) =>
         {o.to : o \in out'} =
           {i \in Slots : \E f \in asked[i] : Matches(t, ToUpstream(f))}]_vars

\* Every open connection is pending on a server or held by one slot, and no
\* connection is in two places: none leaks, none is served twice.
SocketsOwned ==
  \A p \in Peers :
    /\ open[p] => Queued(p) \/ Held(p)
    /\ ~(Queued(p) /\ Held(p))
    /\ \A i, j \in Slots : slot[i] = p /\ slot[j] = p => i = j

\* A client of port 8883 whose TLS handshake is not done.
InHandshake(i) == Active(i) /\ slot[i] \in TlsPeers /\ hs[i] # "done"

\* Nothing that a client of port 8883 sends is answered, stored or passed on to
\* the printer before its TLS handshake is done, no handler starts for it, and
\* no report is written to it, though loop() visits its slot and reports keep
\* coming for the others (mqtt_bridge.cpp:289-302).
HandshakeFirst ==
  [][\A i \in Slots : InHandshake(i) =>
       /\ \A o \in out' : o.to # i
       /\ asked'[i] = {} /\ subs'[i] = <<>>
       /\ phase = "serve" /\ visit = i =>
            /\ handler' = "none"
            /\ \A o \in out' : o.to # Printer]_vars

(***************************************************************************)
(* The bridge as one session shared by its clients: a report carries the   *)
(* name local clients know, a filter stands for what the printer takes it  *)
(* to be.                                                                  *)
(***************************************************************************)
UpstreamName == [f \in ClientFilters |-> ToUpstream(f)]
ReportsOf == [f \in ClientFilters |->
                {ToLocal(t) : t \in {u \in PrinterTopics : Matches(u, UpstreamName[f])}}]

Shared == INSTANCE SharedSession WITH
  Clients <- Slots,
  Names <- ClientFilters,
  Selected <- ReportsOf,
  linked <- session,
  covered <- {f \in ClientFilters : UpstreamName[f] \in upSubs},
  wants <- asked,
  got <- {<<o.to, o.topic>> : o \in {p \in out : p.kind = "message"}}

\* To its clients the bridge is a session each has to itself: subscriptions of
\* others, reconnections, reused slots and restarts change nothing in what a
\* client gets, and a filter goes only with the last client that wants it.
ImplementsSharedSession == Shared!Spec

\* The connection object that connectUpstream() has deleted is never taken
\* for a connected one, so that no packet goes to it.
NeverOnlineOnFreed ==
  pubClient = "freed" => upTcp = "null" /\ ~Online

\* The bridge becomes online only with a session that the printer has
\* accepted: no stale _state makes it skip the CONNECT.
ComesOnlineWithSession ==
  [][~Online /\ Online' => session']_vars

(***************************************************************************)
(* What the code does not keep.                                            *)
(***************************************************************************)

\* A handler that talks to the printer through _pubsub finds there a
\* connection that was not deleted.
NoFreedUse ==
  handler = "subscribe" => pubClient # "freed"

(***************************************************************************)
(* Liveness.                                                               *)
(***************************************************************************)

\* With WiFi and the printer up for good, the bridge always gets back to a
\* session, from a refused, lost or silently dead one.
Recovers ==
  <>[](wifi /\ printer = "on") => []<>(Online /\ session)

\* The slot of a peer that is gone is freed.
GoneIsReleased ==
  \A p \in Peers : (Held(p) /\ ~open[p]) ~> (~Held(p) \/ open[p])

\* A pending connection is taken or refused; one of port 1883 provided that
\* connections to port 8883 do not keep coming, as those are taken first and
\* a probe among them ends the round.
PendingIsServed ==
  /\ \A p \in TlsPeers : Queued(p) ~> ~Queued(p)
  /\ <>[](\A p \in TlsPeers : ~Queued(p)) =>
       \A p \in PlainPeers : Queued(p) ~> ~Queued(p)

=============================================================================
