-------------------------- MODULE MqttBridgeProofs --------------------------
(***************************************************************************)
(* Theorems about MqttBridge for every value of its constants.             *)
(***************************************************************************)
EXTENDS MqttBridge, DataLemmas, FiniteSetTheorems

USE ConstantsAssumption, WildcardsAssumption

-----------------------------------------------------------------------------
(***************************************************************************)
(* Type correctness.                                                       *)
(***************************************************************************)

LEMMA NoTopicType == NoTopic \in Filters
  BY DEF NoTopic, Filters

LEMMA ToLocalType == ASSUME NEW t \in Filters PROVE ToLocal(t) \in Filters
  BY DEF ToLocal, Filters, Serials

LEMMA ToUpstreamType == ASSUME NEW f \in Filters PROVE ToUpstream(f) \in Filters
  BY DEF ToUpstream, Filters, Serials

LEMMA PrinterTopicType == PrinterTopics \subseteq Filters
  BY DEF PrinterTopics, Filters, Serials

\* A packet written to the printer or to a slot is a packet.
PacketSet == [to : {Printer} \cup Slots, kind : PacketKinds, topic : Filters]

LEMMA PacketType ==
  ASSUME NEW to \in {Printer} \cup Slots, NEW kind \in PacketKinds,
         NEW topic \in Filters
  PROVE  Packet(to, kind, topic) \in PacketSet
  BY DEF Packet, PacketSet

LEMMA SubsetsOfFilters == BuiltinTopics \subseteq Filters /\ ClientFilters \subseteq Filters
  OBVIOUS

\* The filters of a reconnection are filters.
LEMMA EntriesType ==
  ASSUME TypeOK, NEW i \in Slots
  PROVE  Entries(i) \subseteq Subs /\ Stored(i) \subseteq ClientFilters
<1>1. subs[i] \in Seq(Subs)
  BY DEF TypeOK
<1>2. \A k \in 1..Len(subs[i]) : subs[i][k] \in Subs
  BY <1>1
<1> QED
  BY <1>2 DEF Entries, Stored, Subs

LEMMA DemandType == ASSUME TypeOK PROVE Demand \subseteq Filters
<1> SUFFICES ASSUME NEW i \in Slots, NEW s \in Entries(i)
             PROVE  ToUpstream(s.topic) \in Filters
  BY DEF Demand
<1> QED
  BY EntriesType, ToUpstreamType DEF Subs

LEMMA RemoveFirstType ==
  ASSUME NEW entries \in Seq(Subs), NEW f
  PROVE  RemoveFirst(entries, f) \in Seq(Subs)
<1>1. CASE \E k \in 1..Len(entries) : entries[k].topic = f
  <2>1. Len(entries) - 1 \in Nat
    BY <1>1
  <2>2. \A k \in 1..(Len(entries) - 1) : entries[k] \in Subs /\ entries[k + 1] \in Subs
    BY <2>1
  <2>3. RemoveFirst(entries, f) \in [1..(Len(entries) - 1) -> Subs]
    BY <1>1, <2>2 DEF RemoveFirst
  <2> QED
    BY <2>1, <2>3
<1>2. CASE ~\E k \in 1..Len(entries) : entries[k].topic = f
  BY <1>2 DEF RemoveFirst
<1> QED
  BY <1>1, <1>2

LEMMA NonEmptySeqsType == ASSUME NEW S PROVE NonEmptySeqs(S) \subseteq Seq(S)
  BY DEF NonEmptySeqs

LEMMA TypeInit == Init => TypeOK
<1> SUFFICES ASSUME Init PROVE TypeOK
  OBVIOUS
<1>1. visit \in 1..(MaxClients + 1) /\ boots \in 0..MaxReboots
  BY DEF Init
<1>2. queue \in [{"tls", "plain"} -> Seq(Peers)] /\ open \in [Peers -> BOOLEAN]
  BY DEF Init
<1>3. /\ slot \in [Slots -> Peers \cup {NoPeer}]
      /\ hs \in [Slots -> {"plain", "busy", "done"}]
  BY DEF Init
<1>4. subs \in [Slots -> Seq(Subs)] /\ asked \in [Slots -> SUBSET ClientFilters]
  BY DEF Init
<1>5. toSub \in Seq(Subs) /\ toUnsub \in Seq(ClientFilters)
  BY DEF Init
<1> QED
  BY <1>1, <1>2, <1>3, <1>4, <1>5 DEF Init, TypeOK

LEMMA TypeUpstream ==
  ASSUME TypeOK, UpstreamStep PROVE TypeOK'
<1> USE DEF TypeOK, InUpstream, EndUpstream, ctrlVars, envVars, upVars, downVars
<1>1. CASE StartStationServices
  BY <1>1 DEF StartStationServices, Rebind
<1>2. CASE WaitToReconnect
  BY <1>2 DEF WaitToReconnect, StateOfLoop, StateAfterCheck
<1>3. CASE ConnectFails
  BY <1>3 DEF ConnectFails, StateOfLoop, StateAfterCheck
<1>4. CASE ConnectRefused
  BY <1>4 DEF ConnectRefused
<1>5. CASE PubSubIdle
  BY <1>5 DEF PubSubIdle
<1>6. CASE KeepaliveTimeout
  BY <1>6 DEF KeepaliveTimeout
<1>7. CASE ConnectSucceeds
  <2>1. BuiltinTopics \cup Demand \subseteq Filters
    BY DemandType
  <2> QED
    BY <1>7, <2>1 DEF ConnectSucceeds
<1>8. CASE \E t \in PrinterTopics : OnUpstreamMessage(t)
  <2>1. PICK t \in PrinterTopics : OnUpstreamMessage(t)
    BY <1>8
  <2>2. ToLocal(t) \in Filters
    BY PrinterTopicType, ToLocalType
  <2>3. out' \subseteq PacketSet
    BY <2>1, <2>2, PacketType DEF OnUpstreamMessage, Receivers, PacketKinds
  <2> QED
    BY <2>1, <2>3 DEF OnUpstreamMessage, PacketSet
<1> QED
  BY <1>1, <1>2, <1>3, <1>4, <1>5, <1>6, <1>7, <1>8 DEF UpstreamStep

LEMMA TypeAccept ==
  ASSUME TypeOK, AcceptStep PROVE TypeOK'
<1> USE DEF TypeOK, EndAccept, ctrlVars, envVars, upVars, downVars
<1>1. AcceptPort \in {"tls", "plain"}
  BY DEF AcceptPort
<1>2. queue[AcceptPort] \in Seq(Peers)
  BY <1>1
<1>3. queue[AcceptPort] # <<>> => /\ Head(queue[AcceptPort]) \in Peers
                                 /\ Tail(queue[AcceptPort]) \in Seq(Peers)
  BY <1>2
<1>4. CASE \E i \in Slots : AcceptIntoSlot(i)
  BY <1>1, <1>3, <1>4 DEF AcceptIntoSlot
<1>5. CASE AcceptAndClose
  BY <1>1, <1>3, <1>5 DEF AcceptAndClose
<1>6. CASE AcceptNothing
  BY <1>6 DEF AcceptNothing
<1> QED
  BY <1>4, <1>5, <1>6 DEF AcceptStep

\* A packet handler has a client.
HandlerHasClient == handler # "none" => visit \in Slots /\ Active(visit)

LEMMA TypeServe ==
  ASSUME TypeOK, HandlerHasClient, ServeStep PROVE TypeOK'
<1> USE DEF TypeOK, HandlerHasClient, NextSlot, AtSlot, AtClient, CanHandle,
            Slots, ctrlVars, envVars, upVars, downVars
<1>1. \A kind \in PacketKinds :
        visit \in Slots => Packet(visit, kind, NoTopic) \in PacketSet
  BY PacketType, NoTopicType
<1>2. \A kind \in PacketKinds : Packet(Printer, kind, NoTopic) \in PacketSet
  BY PacketType, NoTopicType
<1>3. AtClient => slot[visit] \in Peers
  BY DEF Active
<1>4. CASE EndServe
  BY <1>4 DEF EndServe
<1>5. CASE SkipSlot
  BY <1>5 DEF SkipSlot
<1>6. CASE HandshakePending
  BY <1>6 DEF HandshakePending
<1>7. CASE HandshakeDone
  BY <1>7 DEF HandshakeDone
<1>8. CASE HandshakeFails \/ DropClosed \/ HandleDisconnect
  <2>1. Release(visit) /\ visit \in Slots /\ slot[visit] \in Peers
    BY <1>3, <1>8 DEF HandshakeFails, DropClosed, HandleDisconnect
  <2>2. open' \in [Peers -> BOOLEAN] /\ slot' \in [Slots -> Peers \cup {NoPeer}]
    BY <2>1 DEF Release
  <2>3. hs' \in [Slots -> {"plain", "busy", "done"}] /\ queue' = queue
    BY <2>1 DEF Release
  <2>4. subs' \in [Slots -> Seq(Subs)] /\ asked' \in [Slots -> SUBSET ClientFilters]
    BY <2>1 DEF Release
  <2>5. NextSlot /\ out' = {} /\ UNCHANGED <<envVars, upVars, rebound, boots>>
    BY <1>8 DEF HandshakeFails, DropClosed, HandleDisconnect
  <2> QED
    BY <2>1, <2>2, <2>3, <2>4, <2>5
<1>9. CASE HandleNothing
  BY <1>9 DEF HandleNothing
<1>10. CASE HandleConnectOrPing
  <2>1. out' \subseteq PacketSet
    BY <1>1, <1>10 DEF HandleConnectOrPing, PacketKinds
  <2> QED
    BY <1>10, <2>1 DEF HandleConnectOrPing, PacketSet
<1>11. CASE HandlePublish
  <2>1. out' \subseteq PacketSet
    BY <1>1, <1>2, <1>11 DEF HandlePublish, PacketKinds
  <2> QED
    BY <1>11, <2>1 DEF HandlePublish, PacketSet, StateAfterCheck
<1>12. CASE HandleSubscribe
  <2>1. toSub' \in Seq(Subs)
    BY <1>12, NonEmptySeqsType DEF HandleSubscribe
  <2> QED
    BY <1>12, <2>1 DEF HandleSubscribe
<1>13. CASE SubscribeTopic
  <2>1. Head(toSub) \in Subs /\ Tail(toSub) \in Seq(Subs)
    BY <1>13 DEF SubscribeTopic
  <2>2. Head(toSub).topic \in ClientFilters
    BY <2>1 DEF Subs
  <2>3. ToUpstream(Head(toSub).topic) \in Filters
    BY <2>2, ToUpstreamType
  <2>4. subs' \in [Slots -> Seq(Subs)]
    BY <1>13, <2>1 DEF SubscribeTopic
  <2>5. asked' \in [Slots -> SUBSET ClientFilters]
    BY <1>13, <2>2 DEF SubscribeTopic
  <2> QED
    BY <1>13, <2>1, <2>3, <2>4, <2>5 DEF SubscribeTopic, StateAfterCheck
<1>14. CASE SubscribeDone
  <2>1. out' \subseteq PacketSet
    BY <1>1, <1>14 DEF SubscribeDone, PacketKinds
  <2> QED
    BY <1>14, <2>1 DEF SubscribeDone, PacketSet, StateAfterCheck
<1>15. CASE HandleUnsubscribe
  <2>1. toUnsub' \in Seq(ClientFilters)
    BY <1>15, NonEmptySeqsType DEF HandleUnsubscribe
  <2> QED
    BY <1>15, <2>1 DEF HandleUnsubscribe
<1>16. CASE UnsubscribeTopic
  <2>1. Head(toUnsub) \in ClientFilters /\ Tail(toUnsub) \in Seq(ClientFilters)
    BY <1>16 DEF UnsubscribeTopic
  <2>2. subs' \in [Slots -> Seq(Subs)]
    BY <1>16, RemoveFirstType DEF UnsubscribeTopic
  <2>3. asked' \in [Slots -> SUBSET ClientFilters]
    BY <1>16 DEF UnsubscribeTopic
  <2> QED
    BY <1>16, <2>1, <2>2, <2>3 DEF UnsubscribeTopic, StateAfterCheck
<1>17. CASE UnsubscribeDone
  <2>1. out' \subseteq PacketSet
    BY <1>1, <1>17 DEF UnsubscribeDone, PacketKinds
  <2> QED
    BY <1>17, <2>1 DEF UnsubscribeDone, PacketSet
<1>18. CASE HandlerCutShort
  BY <1>18 DEF HandlerCutShort
<1> QED
  BY <1>4, <1>5, <1>6, <1>7, <1>8, <1>9, <1>10, <1>11, <1>12, <1>13, <1>14,
     <1>15, <1>16, <1>17, <1>18 DEF ServeStep

LEMMA TypeEnvironment ==
  ASSUME TypeOK, Environment PROVE TypeOK'
<1> USE DEF TypeOK, ctrlVars, envVars, upVars, downVars
<1>1. CASE LinkLost
  BY <1>1 DEF LinkLost
<1>2. CASE ReconnectTimer
  BY <1>2 DEF ReconnectTimer
<1>3. CASE WifiChanges
  <2>1. wifi' \in BOOLEAN
    BY <1>3 DEF WifiChanges
  <2> QED
    BY <1>3, <2>1 DEF WifiChanges
<1>4. CASE PrinterChanges
  BY <1>4 DEF PrinterChanges
<1>5. ASSUME NEW p \in Peers, PeerConnects(p) \/ PeerLeaves(p) PROVE TypeOK'
  <2>1. \A s \in {"tls", "plain"} : Append(queue[s], p) \in Seq(Peers)
    BY <1>5
  <2>2. queue' \in [{"tls", "plain"} -> Seq(Peers)]
    BY <1>5, <2>1 DEF PeerConnects, PeerLeaves
  <2>3. open' \in [Peers -> BOOLEAN]
    BY <1>5 DEF PeerConnects, PeerLeaves
  <2> QED
    BY <1>5, <2>2, <2>3 DEF PeerConnects, PeerLeaves
<1>6. CASE Reboot
  <2>1. visit' \in 1..(MaxClients + 1) /\ boots' \in 0..MaxReboots
    BY <1>6 DEF Reboot
  <2>2. queue' \in [{"tls", "plain"} -> Seq(Peers)] /\ open' \in [Peers -> BOOLEAN]
    BY <1>6 DEF Reboot
  <2>3. /\ slot' \in [Slots -> Peers \cup {NoPeer}]
        /\ hs' \in [Slots -> {"plain", "busy", "done"}]
    BY <1>6 DEF Reboot
  <2>4. subs' \in [Slots -> Seq(Subs)] /\ asked' \in [Slots -> SUBSET ClientFilters]
    BY <1>6 DEF Reboot
  <2>5. toSub' \in Seq(Subs) /\ toUnsub' \in Seq(ClientFilters)
    BY <1>6 DEF Reboot
  <2> QED
    BY <1>6, <2>1, <2>2, <2>3, <2>4, <2>5 DEF Reboot
<1> QED
  BY <1>1, <1>2, <1>3, <1>4, <1>5, <1>6 DEF Environment

-----------------------------------------------------------------------------
(***************************************************************************)
(* The inductive invariant.                                                *)
(***************************************************************************)

\* A handler is under way only in the "serve" phase, at the slot of a client
\* whose handshake is over; it alone has filters left to work on.
HandlerInv ==
  /\ handler # "none" => /\ phase = "serve" /\ visit \in Slots
                         /\ Active(visit) /\ hs[visit] # "busy"
  /\ toSub # <<>> => handler = "subscribe"
  /\ toUnsub # <<>> => handler = "unsubscribe"

\* Each server has peers of its own port pending.
QueueInv ==
  /\ queue["tls"] \in Seq(TlsPeers)
  /\ queue["plain"] \in Seq(PlainPeers)

\* A slot with no client, or with one in its handshake, has no entries; a
\* client of port 8883 has a handshake.
SlotInv ==
  \A i \in Slots :
    /\ ~Active(i) \/ hs[i] = "busy" => subs[i] = <<>> /\ asked[i] = {}
    /\ Active(i) /\ slot[i] \in TlsPeers => hs[i] \in {"busy", "done"}

\* How the connection, the client object and its state go together.
UpstreamInv ==
  /\ upTcp = "null" <=> pubClient # "live"
  /\ upTcp = "null" => pubState = "down"
  /\ session => upTcp = "open" /\ pubState = "connected"
  /\ ~session => upSubs = {}

Inv == TypeOK /\ HandlerInv /\ QueueInv /\ SlotInv /\ UpstreamInv

LEMMA InitInv == Init => Inv
<1> SUFFICES ASSUME Init PROVE Inv
  OBVIOUS
<1>1. HandlerInv
  BY DEF Init, HandlerInv
<1>2. QueueInv
  BY DEF Init, QueueInv
<1>3. SlotInv
  BY DEF Init, SlotInv, Active
<1>4. UpstreamInv
  BY DEF Init, UpstreamInv
<1> QED
  BY <1>1, <1>2, <1>3, <1>4, TypeInit DEF Inv

LEMMA HandlerInvImplies == HandlerInv => HandlerHasClient
  BY DEF HandlerInv, HandlerHasClient

(***************************************************************************)
(* What each part of Next leaves alone.                                    *)
(***************************************************************************)
LEMMA UpstreamFrame ==
  ASSUME UpstreamStep
  PROVE  /\ phase = "upstream"
         /\ UNCHANGED <<visit, handler, toSub, toUnsub, slot, hs, subs, asked>>
  BY DEF UpstreamStep, StartStationServices, WaitToReconnect, ConnectFails,
         ConnectRefused, ConnectSucceeds, PubSubIdle, KeepaliveTimeout,
         OnUpstreamMessage, InUpstream, EndUpstream, ctrlVars, downVars

LEMMA AcceptFrame ==
  ASSUME AcceptStep
  PROVE  phase = "accept" /\ UNCHANGED <<handler, toSub, toUnsub, upVars>>
  BY DEF AcceptStep, AcceptIntoSlot, AcceptAndClose, AcceptNothing, EndAccept,
         ctrlVars

\* The handlers neither make nor lose the connection to the printer: they
\* note that it is down, and change the filters of a session that is there.
LEMMA ServeFrame ==
  ASSUME ServeStep
  PROVE  /\ phase = "serve" \/ handler # "none"
         /\ UNCHANGED <<session, upTcp, pubClient>>
         /\ pubState' \in {pubState, StateAfterCheck}
         /\ ~session /\ upSubs = {} => upSubs' = {}
<1> USE DEF CanHandle, AtClient, AtSlot, upVars
<1>1. CASE EndServe \/ SkipSlot \/ HandshakePending \/ HandshakeDone
  BY <1>1 DEF EndServe, SkipSlot, HandshakePending, HandshakeDone
<1>2. CASE HandshakeFails \/ DropClosed \/ HandleDisconnect
  BY <1>2 DEF HandshakeFails, DropClosed, HandleDisconnect
<1>3. CASE HandleNothing \/ HandleConnectOrPing \/ HandlePublish
  BY <1>3 DEF HandleNothing, HandleConnectOrPing, HandlePublish
<1>4. CASE HandleSubscribe \/ SubscribeTopic \/ SubscribeDone
  BY <1>4 DEF HandleSubscribe, SubscribeTopic, SubscribeDone
<1>5. CASE HandleUnsubscribe \/ UnsubscribeTopic \/ UnsubscribeDone \/ HandlerCutShort
  BY <1>5 DEF HandleUnsubscribe, UnsubscribeTopic, UnsubscribeDone, HandlerCutShort
<1> QED
  BY <1>1, <1>2, <1>3, <1>4, <1>5 DEF ServeStep

(***************************************************************************)
(* Each step preserves each part of the invariant.                         *)
(***************************************************************************)
LEMMA TypeStep == ASSUME Inv, Next PROVE TypeOK'
  BY TypeUpstream, TypeAccept, TypeServe, TypeEnvironment, HandlerInvImplies
     DEF Inv, Next, LoopStep

LEMMA UpstreamStepInv == ASSUME Inv, Next PROVE UpstreamInv'
<1> USE DEF Inv, TypeOK, UpstreamInv, Online, StateOfLoop, StateAfterCheck,
            MustConnect, upVars
<1>1. CASE UpstreamStep
  <2>1. CASE StartStationServices \/ PubSubIdle
                \/ \E t \in PrinterTopics : OnUpstreamMessage(t)
    BY <2>1 DEF StartStationServices, PubSubIdle, OnUpstreamMessage
  <2>2. CASE WaitToReconnect
    BY <2>2 DEF WaitToReconnect
  <2>3. CASE ConnectFails
    BY <2>3 DEF ConnectFails
  <2>4. CASE ConnectRefused
    BY <2>4 DEF ConnectRefused
  <2>5. CASE ConnectSucceeds
    BY <2>5 DEF ConnectSucceeds
  <2>6. CASE KeepaliveTimeout
    BY <2>6 DEF KeepaliveTimeout
  <2> QED
    BY <1>1, <2>1, <2>2, <2>3, <2>4, <2>5, <2>6 DEF UpstreamStep
<1>2. CASE AcceptStep
  BY <1>2, AcceptFrame
<1>3. CASE ServeStep
  BY <1>3, ServeFrame
<1>4. CASE Environment
  <2>1. CASE WifiChanges \/ ReconnectTimer
                \/ \E p \in Peers : PeerConnects(p) \/ PeerLeaves(p)
    BY <2>1 DEF WifiChanges, ReconnectTimer, PeerConnects, PeerLeaves
  <2>2. CASE PrinterChanges
    BY <2>2 DEF PrinterChanges
  <2>3. CASE LinkLost
    BY <2>3 DEF LinkLost
  <2>4. CASE Reboot
    BY <2>4 DEF Reboot
  <2> QED
    BY <1>4, <2>1, <2>2, <2>3, <2>4 DEF Environment
<1> QED
  BY <1>1, <1>2, <1>3, <1>4 DEF Next, LoopStep

LEMMA QueueStepInv == ASSUME Inv, Next PROVE QueueInv'
<1> USE DEF Inv, TypeOK, QueueInv, downVars
<1>1. CASE UpstreamStep
  <2>1. UNCHANGED queue \/ Rebind
    BY <1>1 DEF UpstreamStep, StartStationServices, WaitToReconnect,
       ConnectFails, ConnectRefused, ConnectSucceeds, PubSubIdle,
       KeepaliveTimeout, OnUpstreamMessage
  <2>2. CASE UNCHANGED queue
    BY <2>2
  <2>3. CASE Rebind
    BY <2>3 DEF Rebind
  <2> QED
    BY <2>1, <2>2, <2>3
<1>2. CASE AcceptStep
  <2>1. UNCHANGED queue \/ (/\ AcceptPort \in {"tls", "plain"}
                            /\ queue[AcceptPort] # <<>>
                            /\ queue' = [queue EXCEPT ![AcceptPort] = Tail(@)])
    BY <1>2 DEF AcceptStep, AcceptIntoSlot, AcceptAndClose, AcceptNothing,
       AcceptPort
  <2>2. CASE UNCHANGED queue
    BY <2>2
  <2>3. \A S : \A q \in Seq(S) : q # <<>> => Tail(q) \in Seq(S)
    OBVIOUS
  <2>4. ASSUME queue["tls"] # <<>>, queue' = [queue EXCEPT !["tls"] = Tail(@)]
        PROVE  QueueInv'
    BY <2>3, <2>4
  <2>5. ASSUME queue["plain"] # <<>>, queue' = [queue EXCEPT !["plain"] = Tail(@)]
        PROVE  QueueInv'
    BY <2>3, <2>5
  <2> QED
    BY <2>1, <2>2, <2>4, <2>5
<1>3. CASE ServeStep
  <2>1. UNCHANGED queue
    BY <1>3 DEF ServeStep, EndServe, SkipSlot, HandshakePending, HandshakeDone,
       HandshakeFails, DropClosed, HandleNothing, HandleConnectOrPing,
       HandlePublish, HandleSubscribe, SubscribeTopic, SubscribeDone,
       HandleUnsubscribe, UnsubscribeTopic, UnsubscribeDone, HandlerCutShort,
       HandleDisconnect, Release
  <2> QED
    BY <2>1
<1>4. CASE Environment
  <2>1. CASE UNCHANGED queue
    BY <2>1
  <2>2. CASE \E p \in Peers : PeerConnects(p)
    BY <2>2 DEF PeerConnects, Peers
  <2>3. CASE Reboot
    BY <2>3 DEF Reboot
  <2> QED
    BY <1>4, <2>1, <2>2, <2>3 DEF Environment, WifiChanges, PrinterChanges,
       LinkLost, ReconnectTimer, PeerLeaves
<1> QED
  BY <1>1, <1>2, <1>3, <1>4 DEF Next, LoopStep

LEMMA HandlerStepInv == ASSUME Inv, Next PROVE HandlerInv'
<1> USE DEF Inv, TypeOK, HandlerInv, Active
<1>1. CASE UpstreamStep
  BY <1>1, UpstreamFrame
<1>2. CASE AcceptStep
  BY <1>2, AcceptFrame
<1>3. CASE ServeStep
  <2> USE DEF NextSlot, CanHandle, AtClient, AtSlot, downVars, ctrlVars
  <2>1. CASE EndServe
    <3>1. handler = "none"
      BY <2>1 DEF EndServe, Slots
    <3> QED
      BY <2>1, <3>1 DEF EndServe
  <2>2. CASE SkipSlot \/ HandshakePending \/ HandshakeDone
    BY <2>2 DEF SkipSlot, HandshakePending, HandshakeDone
  <2>3. CASE HandshakeFails \/ DropClosed \/ HandleDisconnect
    BY <2>3 DEF HandshakeFails, DropClosed, HandleDisconnect
  <2>4. CASE HandleNothing \/ HandleConnectOrPing \/ HandlePublish
    BY <2>4 DEF HandleNothing, HandleConnectOrPing, HandlePublish
  <2>5. CASE HandleSubscribe \/ HandleUnsubscribe
    BY <2>5 DEF HandleSubscribe, HandleUnsubscribe
  <2>6. CASE SubscribeTopic \/ UnsubscribeTopic
    BY <2>6 DEF SubscribeTopic, UnsubscribeTopic
  <2>7. CASE SubscribeDone \/ UnsubscribeDone \/ HandlerCutShort
    BY <2>7 DEF SubscribeDone, UnsubscribeDone, HandlerCutShort
  <2> QED
    BY <1>3, <2>1, <2>2, <2>3, <2>4, <2>5, <2>6, <2>7 DEF ServeStep
<1>4. CASE Environment
  <2>1. CASE Reboot
    BY <2>1 DEF Reboot
  <2>2. CASE ~Reboot
    <3>1. UNCHANGED <<phase, visit, handler, toSub, toUnsub, slot, hs>>
      BY <1>4, <2>2 DEF Environment, WifiChanges, PrinterChanges, LinkLost,
         ReconnectTimer, PeerConnects, PeerLeaves, ctrlVars, downVars
    <3> QED
      BY <3>1
  <2> QED
    BY <2>1, <2>2
<1> QED
  BY <1>1, <1>2, <1>3, <1>4 DEF Next, LoopStep

LEMMA SlotStepInv == ASSUME Inv, Next PROVE SlotInv'
<1> USE DEF Inv, TypeOK, SlotInv, Active
<1>1. CASE UpstreamStep
  BY <1>1, UpstreamFrame
<1>2. CASE AcceptStep
  <2>1. CASE UNCHANGED <<slot, hs, subs, asked>>
    BY <2>1
  <2>2. CASE \E i \in Slots : AcceptIntoSlot(i)
    <3>1. PICK i \in Slots : AcceptIntoSlot(i)
      BY <2>2
    <3>2. /\ slot' = [slot EXCEPT ![i] = Head(queue[AcceptPort])]
          /\ hs' = [hs EXCEPT ![i] = IF AcceptPort = "tls" THEN "busy" ELSE "plain"]
          /\ subs' = [subs EXCEPT ![i] = <<>>]
          /\ asked' = [asked EXCEPT ![i] = {}]
      BY <3>1 DEF AcceptIntoSlot
    <3>3. AcceptPort # "tls" => Head(queue[AcceptPort]) \in PlainPeers
      BY <3>1 DEF AcceptIntoSlot, AcceptPort, QueueInv
    <3>4. AcceptPort # "tls" => Head(queue[AcceptPort]) \notin TlsPeers
      BY <3>3
    <3> QED
      BY <3>2, <3>4
  <2> QED
    BY <1>2, <2>1, <2>2 DEF AcceptStep, AcceptAndClose, AcceptNothing, downVars
<1>3. CASE ServeStep
  <2> USE DEF CanHandle, AtClient, AtSlot, downVars
  <2>1. CASE UNCHANGED <<slot, hs, subs, asked>>
    BY <2>1
  <2>2. CASE HandshakeDone
    BY <2>2 DEF HandshakeDone
  <2>3. CASE HandshakeFails \/ DropClosed \/ HandleDisconnect
    <3>1. Release(visit) /\ visit \in Slots
      BY <2>3 DEF HandshakeFails, DropClosed, HandleDisconnect
    <3> QED
      BY <3>1 DEF Release
  <2>4. CASE SubscribeTopic
    BY <2>4 DEF SubscribeTopic, HandlerInv
  <2>5. CASE UnsubscribeTopic
    BY <2>5 DEF UnsubscribeTopic, HandlerInv
  <2> QED
    BY <1>3, <2>1, <2>2, <2>3, <2>4, <2>5 DEF ServeStep, EndServe, SkipSlot,
       HandshakePending, HandleNothing, HandleConnectOrPing, HandlePublish,
       HandleSubscribe, SubscribeDone, HandleUnsubscribe, UnsubscribeDone,
       HandlerCutShort
<1>4. CASE Environment
  <2>1. CASE Reboot
    BY <2>1 DEF Reboot
  <2>2. CASE ~Reboot
    <3>1. UNCHANGED <<slot, hs, subs, asked>>
      BY <1>4, <2>2 DEF Environment, WifiChanges, PrinterChanges, LinkLost,
         ReconnectTimer, PeerConnects, PeerLeaves, downVars
    <3> QED
      BY <3>1
  <2> QED
    BY <2>1, <2>2
<1> QED
  BY <1>1, <1>2, <1>3, <1>4 DEF Next, LoopStep

LEMMA StepInv == ASSUME Inv, [Next]_vars PROVE Inv'
<1>1. CASE Next
  BY <1>1, TypeStep, HandlerStepInv, QueueStepInv, SlotStepInv, UpstreamStepInv
     DEF Inv
<1>2. CASE UNCHANGED vars
  BY <1>2 DEF Inv, TypeOK, HandlerInv, QueueInv, SlotInv, UpstreamInv, Active,
     vars, ctrlVars, envVars, upVars, downVars
<1> QED
  BY <1>1, <1>2

-----------------------------------------------------------------------------
(***************************************************************************)
(* The theorems.                                                           *)
(***************************************************************************)

\* The invariant holds in every reachable state, whatever the clients, the
\* printer and the WiFi do.
THEOREM Invariance == Spec => []Inv
  BY InitInv, StepInv, PTL DEF Spec

\* Every variable stays within the values the code gives it: no index leaves
\* the arrays, no counter its bound.
THEOREM TypeCorrectness == Spec => []TypeOK
<1>1. Inv => TypeOK
  BY DEF Inv
<1> QED
  BY <1>1, Invariance, PTL

\* The kinds of step, and what each may do to a slot in its handshake.
LEMMA UpstreamLeavesPending ==
  ASSUME Inv, UpstreamStep, NEW i \in Slots, InHandshake(i)
  PROVE  \A o \in out' : o.to # i
<1>1. Stored(i) = {}
  BY DEF Inv, SlotInv, TypeOK, InHandshake, Stored
<1>2. CASE out' = {}
  BY <1>2
<1>3. ASSUME NEW t \in PrinterTopics, OnUpstreamMessage(t)
      PROVE  \A o \in out' : o.to # i
  <2>1. i \notin Receivers(t)
    BY <1>1 DEF Receivers
  <2>2. out' = {Packet(j, "message", ToLocal(t)) : j \in Receivers(t)}
    BY <1>3 DEF OnUpstreamMessage
  <2>3. \A o \in out' : o.to \in Receivers(t)
    BY <2>2 DEF Packet
  <2> QED
    BY <2>1, <2>3
<1> QED
  BY <1>2, <1>3 DEF UpstreamStep, StartStationServices, WaitToReconnect,
     ConnectFails, ConnectRefused, ConnectSucceeds, PubSubIdle, KeepaliveTimeout

LEMMA AcceptLeavesPending ==
  ASSUME Inv, AcceptStep, NEW i \in Slots, InHandshake(i)
  PROVE  out' = {} /\ asked'[i] = asked[i] /\ subs'[i] = subs[i]
<1>1. CASE AcceptAndClose \/ AcceptNothing
  BY <1>1 DEF AcceptAndClose, AcceptNothing, downVars
<1>2. ASSUME NEW j \in Slots, AcceptIntoSlot(j)
      PROVE  out' = {} /\ asked'[i] = asked[i] /\ subs'[i] = subs[i]
  <2>1. j # i
    BY <1>2 DEF AcceptIntoSlot, IsFirstFree, IsFree, InHandshake
  <2>2. /\ out' = {} /\ subs' = [subs EXCEPT ![j] = <<>>]
        /\ asked' = [asked EXCEPT ![j] = {}]
    BY <1>2 DEF AcceptIntoSlot
  <2> QED
    BY <2>1, <2>2 DEF Inv, TypeOK
<1> QED
  BY <1>1, <1>2 DEF AcceptStep

\* Packets of the "serve" phase go to the slot that is visited or the printer.
LEMMA ServeWrites ==
  ASSUME Inv, ServeStep
  PROVE  /\ \A o \in out' : o.to \in {visit, Printer}
         /\ \A i \in Slots \ {visit} : /\ asked'[i] \in {asked[i], {}}
                                       /\ subs'[i] \in {subs[i], <<>>}
<1> USE DEF Inv, TypeOK, downVars, Packet
<1>1. CASE EndServe \/ SkipSlot \/ HandshakePending \/ HandshakeDone
           \/ HandleNothing \/ HandlerCutShort
  BY <1>1 DEF EndServe, SkipSlot, HandshakePending, HandshakeDone, HandleNothing,
     HandlerCutShort
<1>2. CASE HandshakeFails \/ DropClosed \/ HandleDisconnect
  BY <1>2 DEF HandshakeFails, DropClosed, HandleDisconnect, Release
<1>3. CASE HandleConnectOrPing
  BY <1>3 DEF HandleConnectOrPing
<1>4. CASE HandlePublish
  BY <1>4 DEF HandlePublish
<1>5. CASE HandleSubscribe \/ HandleUnsubscribe
  BY <1>5 DEF HandleSubscribe, HandleUnsubscribe
<1>6. CASE SubscribeDone \/ UnsubscribeDone
  BY <1>6 DEF SubscribeDone, UnsubscribeDone
<1>7. CASE SubscribeTopic
  BY <1>7 DEF SubscribeTopic
<1>8. CASE UnsubscribeTopic
  BY <1>8 DEF UnsubscribeTopic
<1> QED
  BY <1>1, <1>2, <1>3, <1>4, <1>5, <1>6, <1>7, <1>8 DEF ServeStep

\* What loop() does when it visits a slot in its handshake.
LEMMA VisitOfPending ==
  ASSUME Inv, ServeStep, visit \in Slots, InHandshake(visit)
  PROVE  /\ out' = {} /\ handler' = "none"
         /\ asked'[visit] = {} /\ subs'[visit] = <<>>
<1>1. /\ hs[visit] = "busy" /\ handler = "none" /\ Active(visit)
      /\ asked[visit] = {} /\ subs[visit] = <<>>
      /\ toSub = <<>> /\ toUnsub = <<>>
  BY DEF Inv, HandlerInv, SlotInv, InHandshake
<1>2. ~CanHandle
  BY <1>1 DEF CanHandle
<1>3. visit # MaxClients + 1
  BY DEF Slots
<1>4. HandshakePending \/ HandshakeDone \/ HandshakeFails
  BY <1>1, <1>2, <1>3 DEF ServeStep, EndServe, SkipSlot, DropClosed, HandleNothing,
     HandleConnectOrPing, HandlePublish, HandleSubscribe, SubscribeTopic,
     SubscribeDone, HandleUnsubscribe, UnsubscribeTopic, UnsubscribeDone,
     HandlerCutShort, HandleDisconnect
<1>5. CASE HandshakePending \/ HandshakeDone
  BY <1>1, <1>5 DEF HandshakePending, HandshakeDone, NextSlot, downVars, ctrlVars
<1>6. CASE HandshakeFails
  BY <1>1, <1>6 DEF HandshakeFails, Release, NextSlot, Inv, TypeOK
<1> QED
  BY <1>4, <1>5, <1>6

\* Nothing of a client of port 8883 is answered, stored or passed on to the
\* printer before its handshake, no handler starts for it, and it gets no packet.
THEOREM NothingBeforeHandshake == Spec => HandshakeFirst
<1>1. ASSUME Inv, [Next]_vars, NEW i \in Slots, InHandshake(i), ~UNCHANGED vars
      PROVE  /\ \A o \in out' : o.to # i
             /\ asked'[i] = {} /\ subs'[i] = <<>>
             /\ phase = "serve" /\ visit = i =>
                  /\ handler' = "none"
                  /\ \A o \in out' : o.to # Printer
  <2>1. /\ asked[i] = {} /\ subs[i] = <<>> /\ Active(i)
        /\ visit = i => handler = "none"
    BY <1>1 DEF Inv, SlotInv, HandlerInv, InHandshake
  <2>2. i # Printer
    BY DEF Slots, Printer
  <2>3. CASE UpstreamStep
    BY <1>1, <2>1, <2>3, UpstreamLeavesPending, UpstreamFrame
  <2>4. CASE AcceptStep
    BY <1>1, <2>1, <2>4, AcceptLeavesPending, AcceptFrame
  <2>5. CASE ServeStep /\ visit = i
    BY <1>1, <2>5, VisitOfPending
  <2>6. CASE ServeStep /\ visit # i
    <3>1. \A o \in out' : o.to \in {visit, Printer}
      BY <1>1, <2>6, ServeWrites
    <3>2. asked'[i] \in {asked[i], {}} /\ subs'[i] \in {subs[i], <<>>}
      BY <1>1, <2>6, ServeWrites
    <3> QED
      BY <2>1, <2>2, <2>6, <3>1, <3>2
  <2>7. CASE Environment
    <3>1. out' = {}
      BY <2>7 DEF Environment, WifiChanges, PrinterChanges, LinkLost,
         ReconnectTimer, PeerConnects, PeerLeaves, Reboot
    <3>2. \/ UNCHANGED <<handler, asked, subs>>
          \/ Reboot
      BY <2>7 DEF Environment, WifiChanges, PrinterChanges, LinkLost,
         ReconnectTimer, PeerConnects, PeerLeaves, ctrlVars, downVars
    <3>3. CASE Reboot
      BY <3>1, <3>3 DEF Reboot
    <3> QED
      BY <2>1, <3>1, <3>2, <3>3
  <2> QED
    BY <1>1, <2>3, <2>4, <2>5, <2>6, <2>7 DEF Next, LoopStep
<1>2. Inv /\ [Next]_vars => [\A i \in Slots : InHandshake(i) =>
       /\ \A o \in out' : o.to # i
       /\ asked'[i] = {} /\ subs'[i] = <<>>
       /\ phase = "serve" /\ visit = i =>
            /\ handler' = "none"
            /\ \A o \in out' : o.to # Printer]_vars
  BY <1>1
<1> QED
  BY <1>2, Invariance, PTL DEF Spec, HandshakeFirst

\* The client object deleted by connectUpstream() never counts as connected.
THEOREM FreedIsOffline == Spec => []NeverOnlineOnFreed
<1>1. Inv => NeverOnlineOnFreed
  BY DEF Inv, UpstreamInv, NeverOnlineOnFreed, Online
<1> QED
  BY <1>1, Invariance, PTL

\* The bridge comes online only when connectUpstream() has just made a
\* session: a step that changes what connected() answers to "yes" is a
\* successful CONNECT, as every lost connection was noted in _state before
\* the next attempt.
THEOREM OnlineMeansSession == Spec => ComesOnlineWithSession
<1>1. ASSUME Inv, Inv', [Next]_vars, ~Online, Online' PROVE session'
  <2> USE DEF Inv, TypeOK, UpstreamInv, Online
  <2>1. upTcp' = "open" /\ pubState' = "connected" /\ pubClient' = "live"
    BY <1>1
  <2>2. ~(upTcp = "open" /\ pubState = "connected" /\ pubClient = "live")
    BY <1>1
  <2>3. CASE UpstreamStep
    <3>1. CASE ConnectSucceeds
      BY <1>1, <3>1 DEF ConnectSucceeds, StateOfLoop, StateAfterCheck, MustConnect
    <3>2. CASE WaitToReconnect \/ ConnectFails \/ ConnectRefused \/ KeepaliveTimeout
      BY <1>1, <2>1, <2>2, <3>2 DEF WaitToReconnect, ConnectFails,
         ConnectRefused, KeepaliveTimeout, StateOfLoop, StateAfterCheck,
         MustConnect
    <3> QED
      BY <2>1, <2>2, <2>3, <3>1, <3>2 DEF UpstreamStep, StartStationServices,
         PubSubIdle, OnUpstreamMessage, upVars
  <2>4. CASE AcceptStep
    BY <2>1, <2>2, <2>4, AcceptFrame DEF upVars
  <2>5. CASE ServeStep
    BY <2>1, <2>2, <2>5, ServeFrame DEF StateAfterCheck
  <2>6. CASE Environment
    BY <2>1, <2>2, <2>6 DEF Environment, WifiChanges, PrinterChanges, LinkLost,
       ReconnectTimer, PeerConnects, PeerLeaves, Reboot, upVars
  <2>7. CASE UNCHANGED vars
    BY <2>1, <2>2, <2>7 DEF vars, upVars
  <2> QED
    BY <1>1, <2>3, <2>4, <2>5, <2>6, <2>7 DEF Next, LoopStep
<1>2. Inv /\ Inv' /\ [Next]_vars => [~Online /\ Online' => session']_vars
  BY <1>1
<1> QED
  BY <1>2, Invariance, PTL DEF Spec, ComesOnlineWithSession

-----------------------------------------------------------------------------
(***************************************************************************)
(* No connection of a local client leaks or is served twice.  The          *)
(* inductive invariant is SocketsOwned, and that no peer is pending twice. *)
(***************************************************************************)
SocketInv ==
  /\ SocketsOwned
  /\ Once(queue["tls"]) /\ Once(queue["plain"])

LEMMA QueuedIsIn ==
  ASSUME NEW p
  PROVE  /\ Queued(p) <=> IsIn(queue["tls"], p) \/ IsIn(queue["plain"], p)
         /\ Queued(p)' <=> IsIn(queue'["tls"], p) \/ IsIn(queue'["plain"], p)
  BY DEF Queued, IsIn

\* The peers of the two servers are different ones.
LEMMA PortsDisjoint ==
  ASSUME Inv
  PROVE  /\ \A p : IsIn(queue["tls"], p) => p \in TlsPeers
         /\ \A p : IsIn(queue["plain"], p) => p \in PlainPeers
  BY DEF Inv, QueueInv, IsIn

LEMMA InitSocketInv == Init => SocketInv
<1> SUFFICES ASSUME Init PROVE SocketInv
  OBVIOUS
<1>1. queue["tls"] = <<>> /\ queue["plain"] = <<>>
  BY DEF Init
<1>2. ASSUME NEW p \in Peers PROVE ~open[p] /\ ~Queued(p) /\ ~Held(p)
  BY <1>1, EmptyQueue, QueuedIsIn DEF Init, Held
<1> QED
  BY <1>1, <1>2, EmptyQueue DEF SocketInv, SocketsOwned, Held

\* The servers close: what is pending is closed, what is held is kept.
LEMMA RebindSockets ==
  ASSUME Inv, SocketInv, Rebind, UNCHANGED slot PROVE SocketInv'
<1>1. queue'["tls"] = <<>> /\ queue'["plain"] = <<>>
  BY DEF Rebind
<1>2. ASSUME NEW p \in Peers
      PROVE  (open'[p] => open[p] /\ ~Queued(p)) /\ ~Queued(p)' /\ (Held(p)' <=> Held(p))
  BY <1>1, EmptyQueue, QueuedIsIn DEF Rebind, Queued, Held
<1> QED
  BY <1>1, <1>2, EmptyQueue DEF SocketInv, SocketsOwned

\* The first pending connection of a server is taken out of its queue.
LEMMA TakenSockets ==
  ASSUME Inv, SocketInv, NEW s \in {"tls", "plain"}, queue[s] # <<>>,
         queue' = [queue EXCEPT ![s] = Tail(@)]
  PROVE  /\ Head(queue[s]) \in Peers /\ Queued(Head(queue[s]))
         /\ Once(queue'["tls"]) /\ Once(queue'["plain"])
         /\ \A p : Queued(p)' <=> Queued(p) /\ p # Head(queue[s])
<1> USE DEF Inv, TypeOK, SocketInv
<1>1. queue[s] \in Seq(Peers) /\ Once(queue[s])
  OBVIOUS
<1>2. /\ Head(queue[s]) \in Peers /\ IsIn(queue[s], Head(queue[s]))
      /\ \A p : IsIn(Tail(queue[s]), p) <=> IsIn(queue[s], p) /\ p # Head(queue[s])
      /\ Once(Tail(queue[s]))
  BY <1>1, TakeHead
<1>3. \A r \in {"tls", "plain"} : queue'[r] = IF r = s THEN Tail(queue[s]) ELSE queue[r]
  OBVIOUS
<1>4. \A r \in {"tls", "plain"} : r # s => ~IsIn(queue[r], Head(queue[s]))
  BY <1>2, PortsDisjoint
<1> QED
  BY <1>1, <1>2, <1>3, <1>4, QueuedIsIn

LEMMA AcceptSockets ==
  ASSUME Inv, SocketInv, AcceptStep PROVE SocketInv'
<1> USE DEF Inv, TypeOK, SocketInv, SocketsOwned
<1> DEFINE s == AcceptPort
           p == Head(queue[s])
<1>1. s \in {"tls", "plain"}
  BY DEF AcceptPort
<1>2. CASE \E i \in Slots : AcceptIntoSlot(i)
  <2>1. PICK i \in Slots : AcceptIntoSlot(i)
    BY <1>2
  <2>2. /\ queue[s] # <<>> /\ slot[i] = NoPeer
        /\ queue' = [queue EXCEPT ![s] = Tail(@)]
        /\ slot' = [slot EXCEPT ![i] = p]
        /\ open' = open
    BY <2>1 DEF AcceptIntoSlot, IsFirstFree, IsFree, Active
  <2>3. /\ p \in Peers /\ Queued(p)
        /\ Once(queue'["tls"]) /\ Once(queue'["plain"])
        /\ \A q : Queued(q)' <=> Queued(q) /\ q # p
    BY <1>1, <2>2, TakenSockets
  <2>4. \A j \in Slots : slot'[j] = IF j = i THEN p ELSE slot[j]
    BY <2>2
  <2>5. \A q \in Peers : Held(q)' <=> Held(q) \/ q = p
    BY <2>2, <2>4 DEF Held
  <2>6. ~Held(p)
    BY <2>3
  <2>7. \A q \in Peers : \A j, k \in Slots : slot'[j] = q /\ slot'[k] = q => j = k
    BY <2>2, <2>4, <2>6 DEF Held
  <2> HIDE DEF p, s
  <2> QED
    BY <2>2, <2>3, <2>5, <2>6, <2>7
<1>3. CASE AcceptAndClose
  <2>1. /\ queue[s] # <<>>
        /\ queue' = [queue EXCEPT ![s] = Tail(@)]
        /\ open' = [open EXCEPT ![p] = FALSE]
        /\ slot' = slot
    BY <1>3 DEF AcceptAndClose
  <2>2. /\ p \in Peers
        /\ Once(queue'["tls"]) /\ Once(queue'["plain"])
        /\ \A q : Queued(q)' <=> Queued(q) /\ q # p
    BY <1>1, <2>1, TakenSockets
  <2>3. \A q \in Peers : Held(q)' <=> Held(q)
    BY <2>1 DEF Held
  <2> HIDE DEF p, s
  <2> QED
    BY <2>1, <2>2, <2>3
<1>4. CASE AcceptNothing
  BY <1>4 DEF AcceptNothing, downVars, Queued, Held
<1> QED
  BY <1>2, <1>3, <1>4 DEF AcceptStep

\* disconnectClient() closes the connection whose slot it frees.
LEMMA ReleaseSockets ==
  ASSUME Inv, SocketInv, NEW i \in Slots, slot[i] \in Peers, Release(i)
  PROVE  SocketInv'
<1>1. /\ slot \in [Slots -> Peers \cup {NoPeer}] /\ open \in [Peers -> BOOLEAN]
      /\ NoPeer \notin Peers
  BY DEF Inv, TypeOK
<1>2. /\ open' = [open EXCEPT ![slot[i]] = FALSE]
      /\ \A j \in Slots : slot'[j] = IF j = i THEN NoPeer ELSE slot[j]
      /\ queue' = queue
  BY <1>1 DEF Release
<1>3. \A q \in Peers : /\ open[q] => Queued(q) \/ Held(q)
                       /\ ~(Queued(q) /\ Held(q))
                       /\ \A j, k \in Slots : slot[j] = q /\ slot[k] = q => j = k
  BY DEF SocketInv, SocketsOwned
<1>4. ASSUME NEW q \in Peers
      PROVE  /\ Held(q)' <=> Held(q) /\ q # slot[i]
             /\ \A j, k \in Slots : slot'[j] = q /\ slot'[k] = q => j = k
  <2>1. \A j \in Slots : slot'[j] = q => slot[j] = q /\ j # i
    BY <1>1, <1>2
  <2>2. \A j \in Slots : slot[j] = q /\ q # slot[i] => slot'[j] = q
    BY <1>2
  <2>3. \A j \in Slots : slot[j] = q /\ j # i => q # slot[i]
    BY <1>3
  <2> QED
    BY <1>3, <2>1, <2>2, <2>3 DEF Held
<1>5. \A q \in Peers : Queued(q)' <=> Queued(q)
  BY <1>2 DEF Queued
<1>6. \A q \in Peers : open'[q] => open[q] /\ q # slot[i]
  BY <1>1, <1>2
<1>7. SocketsOwned'
  BY <1>3, <1>4, <1>5, <1>6 DEF SocketsOwned
<1> QED
  BY <1>2, <1>7 DEF SocketInv

LEMMA ConnectSockets ==
  ASSUME Inv, SocketInv, NEW p \in Peers, PeerConnects(p) PROVE SocketInv'
<1> USE DEF Inv, TypeOK, SocketInv, SocketsOwned
<1> DEFINE s == IF p \in TlsPeers THEN "tls" ELSE "plain"
<1>1. /\ ~Queued(p) /\ ~Held(p)
      /\ queue' = [queue EXCEPT ![s] = Append(@, p)]
      /\ open' = [open EXCEPT ![p] = TRUE]
      /\ slot' = slot
  BY DEF PeerConnects
<1>2. s \in {"tls", "plain"}
  OBVIOUS
<1> HIDE DEF s
<1>3. queue[s] \in Seq(Peers) /\ Once(queue[s]) /\ ~IsIn(queue[s], p)
  BY <1>1, <1>2, QueuedIsIn
<1>4. /\ \A r : IsIn(Append(queue[s], p), r) <=> IsIn(queue[s], r) \/ r = p
      /\ Once(Append(queue[s], p))
  BY <1>3, AddLast
<1>5. \A r \in {"tls", "plain"} :
        queue'[r] = IF r = s THEN Append(queue[s], p) ELSE queue[r]
  BY <1>1, <1>2
<1>6. \A q \in Peers : Queued(q)' <=> Queued(q) \/ q = p
  BY <1>2, <1>4, <1>5, QueuedIsIn
<1>7. \A q \in Peers : Held(q)' <=> Held(q)
  BY <1>1 DEF Held
<1>8. Once(queue'["tls"]) /\ Once(queue'["plain"])
  BY <1>2, <1>4, <1>5
<1> QED
  BY <1>1, <1>6, <1>7, <1>8

LEMMA SocketStep ==
  ASSUME Inv, SocketInv, [Next]_vars PROVE SocketInv'
<1>1. ASSUME UNCHANGED <<queue, slot>>, \A p \in Peers : open'[p] => open[p]
      PROVE  SocketInv'
  BY <1>1 DEF SocketInv, SocketsOwned, Queued, Held
<1>2. CASE UpstreamStep
  <2>1. CASE StartStationServices
    BY <2>1, RebindSockets DEF StartStationServices
  <2> QED
    BY <1>1, <1>2, <2>1 DEF UpstreamStep, WaitToReconnect, ConnectFails,
       ConnectRefused, ConnectSucceeds, PubSubIdle, KeepaliveTimeout,
       OnUpstreamMessage, downVars
<1>3. CASE AcceptStep
  BY <1>3, AcceptSockets
<1>4. CASE ServeStep
  <2>1. CASE HandshakeFails \/ DropClosed \/ HandleDisconnect
    <3>1. Release(visit) /\ visit \in Slots /\ slot[visit] \in Peers
      BY <2>1 DEF HandshakeFails, DropClosed, HandleDisconnect, CanHandle,
         AtClient, AtSlot, Active, Inv, TypeOK
    <3> QED
      BY <3>1, ReleaseSockets
  <2> QED
    BY <1>1, <1>4, <2>1 DEF ServeStep, EndServe, SkipSlot, HandshakePending,
       HandshakeDone, HandleNothing, HandleConnectOrPing, HandlePublish,
       HandleSubscribe, SubscribeTopic, SubscribeDone, HandleUnsubscribe,
       UnsubscribeTopic, UnsubscribeDone, HandlerCutShort, downVars
<1>5. CASE Environment
  <2>1. CASE \E p \in Peers : PeerConnects(p)
    BY <2>1, ConnectSockets
  <2>2. CASE \E p \in Peers : PeerLeaves(p)
    BY <1>1, <2>2 DEF PeerLeaves, Inv, TypeOK
  <2>3. CASE Reboot
    <3>1. queue'["tls"] = <<>> /\ queue'["plain"] = <<>>
      BY <2>3 DEF Reboot
    <3>2. ASSUME NEW p \in Peers PROVE ~open'[p] /\ ~Queued(p)' /\ ~Held(p)'
      BY <2>3, <3>1, EmptyQueue, QueuedIsIn DEF Reboot, Held
    <3> QED
      BY <3>1, <3>2, EmptyQueue DEF SocketInv, SocketsOwned, Held
  <2> QED
    BY <1>1, <1>5, <2>1, <2>2, <2>3 DEF Environment, WifiChanges,
       PrinterChanges, LinkLost, ReconnectTimer, downVars
<1>6. CASE UNCHANGED vars
  BY <1>1, <1>6 DEF vars, downVars
<1> QED
  BY <1>2, <1>3, <1>4, <1>5, <1>6 DEF Next, LoopStep

-----------------------------------------------------------------------------
\* Every open connection of a local client is pending on its server or held
\* by exactly one slot: disconnectClient() stops what it releases, a refused
\* connection is closed, rebind() drops what it forgets.
THEOREM EverySocketOwned == Spec => []SocketsOwned
<1>1. Inv /\ SocketInv /\ [Next]_vars => SocketInv'
  BY SocketStep
<1>2. SocketInv => SocketsOwned
  BY DEF SocketInv
<1> QED
  BY <1>1, <1>2, InitSocketInv, Invariance, PTL DEF Spec

-----------------------------------------------------------------------------
(***************************************************************************)
(* Theorems about the subscriptions of MqttBridge: what is stored for the  *)
(* clients, what is subscribed upstream, and who gets the reports.         *)
(*                                                                         *)
(* They hold for clients that do what WellBehaved says.  Each part of it   *)
(* is needed: the runs bridge_repeat and bridge_names show what happens    *)
(* without the first and the last, and the code stores nothing beyond      *)
(* MaxSubs entries and subscribes nothing upstream at QoS 2.               *)
(***************************************************************************)

WellBehaved ==
  /\ ~Repeats
  /\ ClientQos \subseteq {0, 1}
  /\ IsFiniteSet(ClientFilters) /\ Cardinality(ClientFilters) <= MaxSubs
  /\ GatewaySerial = PrinterSerial \/ \A f \in ClientFilters : f.serial # PrinterSerial

\* PubSubClient::subscribe() takes every QoS the clients ask for.
LEMMA QosBound == ASSUME WellBehaved, NEW q \in ClientQos PROVE q <= 1
<1>1. q = 0 \/ q = 1
  BY DEF WellBehaved
<1> QED
  BY <1>1

-----------------------------------------------------------------------------
(***************************************************************************)
(* The two translations agree.                                             *)
(***************************************************************************)

LEMMA ToUpstreamFields ==
  ASSUME NEW f \in Filters
  PROVE  /\ ToUpstream(f).leaf = f.leaf
         /\ ToUpstream(f).serial =
              IF f.serial = GatewaySerial THEN PrinterSerial ELSE f.serial
  BY DEF ToUpstream, Filters

LEMMA ToLocalFields ==
  ASSUME NEW t \in PrinterTopics
  PROVE  ToLocal(t).leaf = t.leaf /\ ToLocal(t).serial = GatewaySerial
  BY DEF ToLocal, PrinterTopics

\* Two filters of clients are not one filter upstream.
LEMMA ToUpstreamInjective ==
  ASSUME WellBehaved, NEW f \in ClientFilters, NEW g \in ClientFilters,
         ToUpstream(f) = ToUpstream(g)
  PROVE  f = g
<1>1. f \in Filters /\ g \in Filters
  OBVIOUS
<1>2. f.leaf = g.leaf
  BY <1>1, ToUpstreamFields
<1>3. f.serial = g.serial
  BY <1>1, ToUpstreamFields DEF WellBehaved
<1> QED
  BY <1>1, <1>2, <1>3 DEF Filters

\* A renamed report matches a client's filter exactly when the report itself
\* matches the filter that was subscribed upstream.
LEMMA TranslationsAgree ==
  ASSUME WellBehaved, NEW t \in PrinterTopics, NEW f \in ClientFilters
  PROVE  Matches(ToLocal(t), f) <=> Matches(t, ToUpstream(f))
<1>1. f \in Filters
  OBVIOUS
<1>2. t.serial = PrinterSerial
  BY DEF PrinterTopics
<1>3. GatewaySerial # AnySerial /\ PrinterSerial # AnySerial
  BY DEF Serials
<1> QED
  BY <1>1, <1>2, <1>3, ToUpstreamFields, ToLocalFields DEF WellBehaved, Matches

-----------------------------------------------------------------------------
(***************************************************************************)
(* The array of entries.                                                   *)
(***************************************************************************)
TopicsOf(entries) == {entries[k].topic : k \in 1..Len(entries)}

Distinct(entries) ==
  \A k, n \in 1..Len(entries) : entries[k].topic = entries[n].topic => k = n

LEMMA AppendEntry ==
  ASSUME NEW entries \in Seq(Subs), NEW s \in Subs,
         Distinct(entries), s.topic \notin TopicsOf(entries)
  PROVE  /\ TopicsOf(Append(entries, s)) = TopicsOf(entries) \cup {s.topic}
         /\ Distinct(Append(entries, s))
<1> DEFINE longer == Append(entries, s)
<1>1. /\ Len(longer) = Len(entries) + 1
      /\ \A k \in 1..Len(entries) : longer[k] = entries[k]
      /\ longer[Len(entries) + 1] = s
  OBVIOUS
<1>2. 1..Len(longer) = 1..Len(entries) \cup {Len(entries) + 1}
  BY <1>1
<1> HIDE DEF longer
<1>3. TopicsOf(longer) = TopicsOf(entries) \cup {s.topic}
  BY <1>1, <1>2 DEF TopicsOf
<1>4. \A k \in 1..Len(entries) : longer[k].topic # s.topic
  BY <1>1 DEF TopicsOf
<1>5. Distinct(longer)
  BY <1>1, <1>2, <1>4 DEF Distinct
<1> QED
  BY <1>3, <1>5 DEF longer

\* RemoveFirst() takes one entry out and loses no other.
LEMMA RemoveEntry ==
  ASSUME NEW entries \in Seq(Subs), NEW f, Distinct(entries)
  PROVE  /\ TopicsOf(RemoveFirst(entries, f)) = TopicsOf(entries) \ {f}
         /\ Distinct(RemoveFirst(entries, f))
         /\ f \in TopicsOf(entries) =>
              Len(RemoveFirst(entries, f)) = Len(entries) - 1
         /\ f \notin TopicsOf(entries) => RemoveFirst(entries, f) = entries
<1>1. CASE f \notin TopicsOf(entries)
  BY <1>1 DEF RemoveFirst, TopicsOf
<1>2. CASE f \in TopicsOf(entries)
  <2>1. PICK at \in 1..Len(entries) : entries[at].topic = f
    BY <1>2 DEF TopicsOf
  <2>2. \A k \in 1..Len(entries) : entries[k].topic = f <=> k = at
    BY <2>1 DEF Distinct
  <2> DEFINE shorter == [k \in 1..(Len(entries) - 1) |->
                           IF k < at THEN entries[k] ELSE entries[k + 1]]
  <2>3. \A k \in 1..(Len(entries) - 1) :
          (\A n \in 1..k : entries[n].topic # f) <=> k < at
    BY <2>1, <2>2
  <2>4. RemoveFirst(entries, f) = shorter
    BY <2>1, <2>3 DEF RemoveFirst
  <2>5. Len(entries) - 1 \in Nat /\ Len(shorter) = Len(entries) - 1
    BY <2>1
  <2>6. \A k \in 1..Len(shorter) : shorter[k] = IF k < at THEN entries[k]
                                                          ELSE entries[k + 1]
    BY <2>5
  <2> HIDE DEF shorter
  <2>7. Distinct(shorter)
    BY <2>1, <2>5, <2>6 DEF Distinct
  <2>8. TopicsOf(shorter) \subseteq TopicsOf(entries) \ {f}
    BY <2>1, <2>2, <2>5, <2>6 DEF TopicsOf
  <2>9. ASSUME NEW g \in TopicsOf(entries) \ {f} PROVE g \in TopicsOf(shorter)
    <3>1. PICK k \in 1..Len(entries) : entries[k].topic = g
      BY DEF TopicsOf
    <3>2. k # at
      BY <2>1, <3>1
    <3>3. CASE k < at
      BY <2>1, <2>5, <2>6, <3>1, <3>3 DEF TopicsOf
    <3>4. CASE k > at
      <4>1. k - 1 \in 1..Len(shorter) /\ shorter[k - 1] = entries[k]
        BY <2>1, <2>5, <2>6, <3>1, <3>4
      <4> QED
        BY <3>1, <4>1 DEF TopicsOf
    <3> QED
      BY <3>1, <3>2, <3>3, <3>4, <2>1
  <2> QED
    BY <1>2, <2>4, <2>5, <2>7, <2>8, <2>9
<1> QED
  BY <1>1, <1>2

-----------------------------------------------------------------------------
(***************************************************************************)
(* The inductive invariant.                                                *)
(***************************************************************************)

\* A slot has one entry for each filter its client asked for.
EntriesInv ==
  \A i \in Slots : /\ Stored(i) = asked[i]
                   /\ Distinct(subs[i])
                   /\ Cardinality(asked[i]) = Len(subs[i])

\* What is left of a SUBSCRIBE is new to its client.
PacketInv ==
  /\ Distinct(toSub)
  /\ TopicsOf(toSub) \cap asked[visit] = {}

\* The session has every filter a client asked for.
DemandInv ==
  session => \A i \in Slots : \A f \in asked[i] : ToUpstream(f) \in upSubs

SubscriptionInv == EntriesInv /\ PacketInv /\ DemandInv

LEMMA EmptyCardinality == Cardinality({}) = 0
  BY FS_EmptySet

LEMMA StoredTopics ==
  /\ \A i \in Slots : Stored(i) = TopicsOf(subs[i])
  /\ \A i \in Slots : Stored(i)' = TopicsOf(subs'[i])
  BY DEF Stored, TopicsOf

LEMMA NoEntries ==
  ASSUME NEW entries, entries = <<>>
  PROVE  TopicsOf(entries) = {} /\ Distinct(entries) /\ Len(entries) = 0
  BY DEF TopicsOf, Distinct

LEMMA InitSubscriptionInv == Init => SubscriptionInv
<1> SUFFICES ASSUME Init PROVE SubscriptionInv
  OBVIOUS
<1>1. \A i \in Slots : subs[i] = <<>> /\ asked[i] = {}
  BY DEF Init
<1>2. EntriesInv
  BY <1>1, NoEntries, EmptyCardinality, StoredTopics DEF EntriesInv
<1>3. PacketInv
  BY DEF Init, PacketInv, Distinct, TopicsOf
<1>4. DemandInv
  BY DEF Init, DemandInv
<1> QED
  BY <1>2, <1>3, <1>4 DEF SubscriptionInv

\* No entry and no filter is touched, and the packet is not, or is empty.
LEMMA UntouchedEntries ==
  ASSUME EntriesInv, UNCHANGED <<subs, asked>> PROVE EntriesInv'
  BY StoredTopics DEF EntriesInv

\* A slot is emptied.
LEMMA EmptiedEntries ==
  ASSUME Inv, EntriesInv, NEW i \in Slots,
         subs' = [subs EXCEPT ![i] = <<>>], asked' = [asked EXCEPT ![i] = {}]
  PROVE  EntriesInv'
<1> USE DEF Inv, TypeOK
<1> SUFFICES ASSUME NEW j \in Slots
             PROVE  /\ Stored(j)' = asked'[j]
                    /\ Distinct(subs'[j])
                    /\ Cardinality(asked'[j]) = Len(subs'[j])
  BY DEF EntriesInv
<1>1. CASE j = i
  <2>1. subs'[j] = <<>> /\ asked'[j] = {}
    BY <1>1
  <2> QED
    BY <2>1, NoEntries, EmptyCardinality, StoredTopics
<1>2. CASE j # i
  <2>1. subs'[j] = subs[j] /\ asked'[j] = asked[j]
    BY <1>2
  <2> QED
    BY <2>1, StoredTopics DEF EntriesInv
<1> QED
  BY <1>1, <1>2

(***************************************************************************)
(* The three steps that change entries or the packet.                      *)
(***************************************************************************)
LEMMA HandleSubscribeInv ==
  ASSUME WellBehaved, Inv, SubscriptionInv, HandleSubscribe
  PROVE  PacketInv'
<1>1. toSub' \in NonEmptySeqs(Subs) /\ Wellformed(toSub')
  BY DEF HandleSubscribe
<1>2. UNCHANGED <<visit, asked>>
  BY DEF HandleSubscribe, downVars
<1>3. DOMAIN toSub' = 1..Len(toSub')
  BY <1>1 DEF NonEmptySeqs
<1>4. /\ \A k, n \in DOMAIN toSub' : k # n => toSub'[k].topic # toSub'[n].topic
      /\ \A k \in DOMAIN toSub' : toSub'[k].topic \notin asked[visit]
  BY <1>1 DEF Wellformed, WellBehaved
<1> QED
  BY <1>2, <1>3, <1>4 DEF PacketInv, Distinct, TopicsOf

LEMMA SubscribeTopicInv ==
  ASSUME WellBehaved, Inv, SubscriptionInv, SubscribeTopic
  PROVE  SubscriptionInv'
<1> DEFINE s == Head(toSub)
<1>1. /\ handler = "subscribe" /\ toSub # <<>> /\ toSub \in Seq(Subs)
      /\ visit \in Slots /\ Active(visit)
      /\ UNCHANGED <<visit, handler, session>>
  BY DEF SubscribeTopic, Inv, TypeOK, HandlerInv
<1>2. s \in Subs /\ s = toSub[1] /\ 1 \in 1..Len(toSub)
  BY <1>1
<1>3. s.topic \in ClientFilters /\ s.qos \in ClientQos
  BY <1>2 DEF Subs
<1>4. s.topic \notin asked[visit]
  BY <1>2 DEF SubscriptionInv, PacketInv, TopicsOf
<1>5. /\ Stored(visit) = asked[visit] /\ Distinct(subs[visit])
      /\ Cardinality(asked[visit]) = Len(subs[visit])
  BY <1>1 DEF SubscriptionInv, EntriesInv
<1>6. subs[visit] \in Seq(Subs) /\ asked[visit] \subseteq ClientFilters
  BY <1>1 DEF Inv, TypeOK
<1>7. /\ IsFiniteSet(asked[visit])
      /\ Cardinality(asked[visit] \cup {s.topic}) = Len(subs[visit]) + 1
  BY <1>4, <1>5, <1>6, FS_Subset, FS_AddElement DEF WellBehaved
<1>8. Len(subs[visit]) < MaxSubs
  <2>1. asked[visit] \cup {s.topic} \in SUBSET ClientFilters
    BY <1>3, <1>6
  <2>2. Cardinality(asked[visit] \cup {s.topic}) <= Cardinality(ClientFilters)
    BY <2>1, FS_Subset DEF WellBehaved
  <2>3. Cardinality(ClientFilters) \in Nat
    BY FS_CardinalityType DEF WellBehaved
  <2> QED
    BY <1>6, <1>7, <2>2, <2>3 DEF WellBehaved
<1>9. /\ subs' = [subs EXCEPT ![visit] = Append(@, s)]
      /\ asked' = [asked EXCEPT ![visit] = @ \cup {s.topic}]
      /\ toSub' = Tail(toSub)
  BY <1>8 DEF SubscribeTopic
<1>10. /\ subs'[visit] = Append(subs[visit], s)
       /\ asked'[visit] = asked[visit] \cup {s.topic}
       /\ \A j \in Slots : j # visit => subs'[j] = subs[j] /\ asked'[j] = asked[j]
  BY <1>1, <1>9 DEF Inv, TypeOK
<1>11. EntriesInv'
  <2>1. TopicsOf(subs[visit]) = asked[visit]
    BY <1>1, <1>5, StoredTopics
  <2>2. /\ TopicsOf(subs'[visit]) = asked'[visit]
        /\ Distinct(subs'[visit])
    BY <1>2, <1>4, <1>5, <1>6, <1>10, <2>1, AppendEntry
  <2>3. Cardinality(asked'[visit]) = Len(subs'[visit])
    BY <1>2, <1>6, <1>7, <1>10
  <2>4. \A j \in Slots : j # visit => /\ TopicsOf(subs'[j]) = asked'[j]
                                      /\ Distinct(subs'[j])
                                      /\ Cardinality(asked'[j]) = Len(subs'[j])
    BY <1>10, StoredTopics DEF SubscriptionInv, EntriesInv
  <2> QED
    BY <2>2, <2>3, <2>4, StoredTopics DEF EntriesInv
<1>12. PacketInv'
  <2>1. /\ Len(toSub') = Len(toSub) - 1
        /\ \A k \in 1..Len(toSub') : toSub'[k] = toSub[k + 1] /\ k + 1 \in 1..Len(toSub)
    BY <1>1, <1>9
  <2>2. Distinct(toSub) /\ TopicsOf(toSub) \cap asked[visit] = {}
    BY DEF SubscriptionInv, PacketInv
  <2>3. Len(toSub) \in Nat
    BY <1>1
  <2>4. Distinct(toSub')
    BY <2>1, <2>2, <2>3 DEF Distinct
  <2>5. \A k \in 1..Len(toSub') : /\ toSub'[k].topic \notin asked[visit]
                                 /\ toSub'[k].topic # s.topic
    BY <1>2, <2>1, <2>2, <2>3 DEF Distinct, TopicsOf
  <2> QED
    BY <1>1, <1>10, <2>4, <2>5 DEF PacketInv, TopicsOf
<1>13. DemandInv'
  <2>1. ASSUME session
        PROVE  upSubs' = upSubs \cup {ToUpstream(s.topic)}
    <3>1. Online
      BY <2>1 DEF Inv, UpstreamInv, TypeOK, Online
    <3>2. s.qos <= 1
      BY <1>3, QosBound
    <3> QED
      BY <2>1, <3>1, <3>2 DEF SubscribeTopic
  <2> QED
    BY <1>1, <1>10, <2>1 DEF DemandInv, SubscriptionInv
<1> QED
  BY <1>11, <1>12, <1>13 DEF SubscriptionInv

LEMMA UnsubscribeTopicInv ==
  ASSUME WellBehaved, Inv, SubscriptionInv, UnsubscribeTopic
  PROVE  SubscriptionInv'
<1> DEFINE f == Head(toUnsub)
<1>1. /\ handler = "unsubscribe" /\ toUnsub # <<>> /\ toUnsub \in Seq(ClientFilters)
      /\ toSub = <<>> /\ visit \in Slots /\ Active(visit)
      /\ UNCHANGED <<visit, handler, session, toSub>>
  BY DEF UnsubscribeTopic, Inv, TypeOK, HandlerInv
<1>2. f \in ClientFilters
  BY <1>1
<1>3. /\ subs'[visit] = RemoveFirst(subs[visit], f)
      /\ asked'[visit] = asked[visit] \ {f}
      /\ \A j \in Slots : j # visit => subs'[j] = subs[j] /\ asked'[j] = asked[j]
  BY <1>1 DEF UnsubscribeTopic, Inv, TypeOK
<1>4. EntriesInv'
  <2>1. subs[visit] \in Seq(Subs) /\ asked[visit] \in SUBSET ClientFilters
    BY <1>1 DEF Inv, TypeOK
  <2>2. /\ TopicsOf(subs[visit]) = asked[visit] /\ Distinct(subs[visit])
        /\ Cardinality(asked[visit]) = Len(subs[visit])
    BY <1>1, StoredTopics DEF SubscriptionInv, EntriesInv
  <2>3. TopicsOf(subs'[visit]) = asked'[visit] /\ Distinct(subs'[visit])
    BY <1>3, <2>1, <2>2, RemoveEntry
  <2>4. Cardinality(asked'[visit]) = Len(subs'[visit])
    <3>1. IsFiniteSet(asked[visit])
      BY <2>1, FS_Subset DEF WellBehaved
    <3>2. Cardinality(asked[visit] \ {f}) =
            IF f \in asked[visit] THEN Cardinality(asked[visit]) - 1
                                  ELSE Cardinality(asked[visit])
      BY <3>1, FS_RemoveElement
    <3>3. /\ f \in asked[visit] => Len(subs'[visit]) = Len(subs[visit]) - 1
          /\ f \notin asked[visit] => subs'[visit] = subs[visit]
      BY <1>3, <2>1, <2>2, RemoveEntry
    <3> QED
      BY <1>3, <2>2, <3>2, <3>3
  <2>5. \A j \in Slots : j # visit => /\ TopicsOf(subs'[j]) = asked'[j]
                                      /\ Distinct(subs'[j])
                                      /\ Cardinality(asked'[j]) = Len(subs'[j])
    BY <1>3, StoredTopics DEF SubscriptionInv, EntriesInv
  <2> QED
    BY <2>3, <2>4, <2>5, StoredTopics DEF EntriesInv
<1>5. PacketInv'
  BY <1>1, NoEntries DEF PacketInv
<1>6. DemandInv'
  <2> SUFFICES ASSUME session, NEW j \in Slots, NEW g \in asked'[j]
               PROVE  ToUpstream(g) \in upSubs'
    BY <1>1 DEF DemandInv
  <2>1. g \in asked[j] /\ g \in ClientFilters
    BY <1>3 DEF Inv, TypeOK
  <2>2. ToUpstream(g) \in upSubs
    BY <2>1 DEF SubscriptionInv, DemandInv
  <2>3. CASE StillWanted(f)
    BY <2>2, <2>3 DEF UnsubscribeTopic
  <2>4. CASE ~StillWanted(f)
    <3>1. f \notin asked'[j]
      <4>1. CASE j = visit
        BY <1>3, <4>1
      <4>2. CASE j # visit
        <5>1. ~Active(j) => asked[j] = {}
          BY DEF Inv, SlotInv
        <5>2. Stored(j) = asked[j]
          BY DEF SubscriptionInv, EntriesInv
        <5> QED
          BY <1>3, <2>4, <4>2, <5>1, <5>2 DEF StillWanted
      <4> QED
        BY <4>1, <4>2
    <3>2. ToUpstream(g) # ToUpstream(f)
      BY <1>2, <2>1, <3>1, ToUpstreamInjective
    <3> QED
      BY <2>2, <3>2 DEF UnsubscribeTopic
  <2> QED
    BY <2>3, <2>4
<1> QED
  BY <1>4, <1>5, <1>6 DEF SubscriptionInv

(***************************************************************************)
(* Every step.                                                             *)
(***************************************************************************)

\* A step that adds no entry keeps what the session needs.
LEMMA DemandKept ==
  ASSUME DemandInv, session' => session, upSubs \subseteq upSubs' \/ ~session',
         \A i \in Slots : asked'[i] \subseteq asked[i]
  PROVE  DemandInv'
  BY DEF DemandInv

\* A reconnection subscribes to everything that is stored.
LEMMA ReconnectionDemand ==
  ASSUME WellBehaved, Inv, SubscriptionInv, ConnectSucceeds
  PROVE  DemandInv'
<1> SUFFICES ASSUME session', NEW i \in Slots, NEW f \in asked[i]
             PROVE  ToUpstream(f) \in upSubs'
  BY DEF ConnectSucceeds, DemandInv, downVars
<1>1. upSubs' = BuiltinTopics \cup Demand
  BY DEF ConnectSucceeds
<1>2. Active(i) /\ f \in Stored(i)
  BY DEF Inv, SlotInv, SubscriptionInv, EntriesInv
<1>3. PICK e \in Entries(i) : e.topic = f
  BY <1>2 DEF Entries, Stored
<1>4. e.qos <= 1
  <2>1. e \in Subs
    BY <1>3, EntriesType DEF Inv
  <2> QED
    BY <2>1, QosBound DEF Subs
<1>5. ToUpstream(e.topic) \in Demand
  BY <1>2, <1>3, <1>4 DEF Demand
<1> QED
  BY <1>1, <1>3, <1>5

LEMMA SubscriptionStep ==
  ASSUME WellBehaved, Inv, SubscriptionInv, Next PROVE SubscriptionInv'
<1> USE DEF SubscriptionInv
<1>1. handler = "none" => toSub = <<>>
  BY DEF Inv, HandlerInv
<1>2. \A i \in Slots : asked[i] \subseteq ClientFilters
  BY DEF Inv, TypeOK
<1>3. ASSUME UNCHANGED <<subs, asked, toSub>>, handler = "none" \/ visit' = visit
      PROVE  EntriesInv' /\ PacketInv'
  BY <1>1, <1>3, UntouchedEntries, NoEntries DEF PacketInv
<1>4. CASE UpstreamStep
  <2>1. EntriesInv' /\ PacketInv' /\ UNCHANGED asked
    BY <1>3, <1>4, UpstreamFrame
  <2>2. CASE ConnectSucceeds
    BY <2>1, <2>2, ReconnectionDemand
  <2>3. CASE ~ConnectSucceeds
    <3>1. session' => session /\ upSubs' = upSubs
      BY <1>4, <2>3 DEF UpstreamStep, StartStationServices, WaitToReconnect,
         ConnectFails, ConnectRefused, PubSubIdle, KeepaliveTimeout,
         OnUpstreamMessage, upVars
    <3> QED
      BY <2>1, <3>1, DemandKept
  <2> QED
    BY <2>2, <2>3
<1>5. CASE AcceptStep
  <2>1. handler = "none" /\ UNCHANGED <<toSub, session, upSubs>>
    BY <1>5, AcceptFrame DEF Inv, HandlerInv, upVars
  <2>2. PacketInv'
    BY <1>1, <2>1, NoEntries DEF PacketInv
  <2>3. CASE UNCHANGED <<subs, asked>>
    BY <2>1, <2>2, <2>3, UntouchedEntries, DemandKept
  <2>4. CASE \E i \in Slots : AcceptIntoSlot(i)
    <3>1. PICK i \in Slots : AcceptIntoSlot(i)
      BY <2>4
    <3>2. /\ subs' = [subs EXCEPT ![i] = <<>>]
          /\ asked' = [asked EXCEPT ![i] = {}]
      BY <3>1 DEF AcceptIntoSlot
    <3>3. \A j \in Slots : asked'[j] \subseteq asked[j]
      BY <3>2 DEF Inv, TypeOK
    <3> QED
      BY <2>1, <2>2, <3>2, <3>3, EmptiedEntries, DemandKept
  <2> QED
    BY <1>5, <2>3, <2>4 DEF AcceptStep, AcceptAndClose, AcceptNothing, downVars
<1>6. CASE ServeStep
  <2> USE DEF CanHandle, AtClient, AtSlot, upVars, downVars
  <2>1. CASE SubscribeTopic
    BY <2>1, SubscribeTopicInv
  <2>2. CASE UnsubscribeTopic
    BY <2>2, UnsubscribeTopicInv
  <2>3. CASE HandleSubscribe
    BY <2>3, HandleSubscribeInv, UntouchedEntries, DemandKept DEF HandleSubscribe
  <2>4. CASE HandshakeFails \/ DropClosed \/ HandleDisconnect
    <3>1. /\ Release(visit) /\ visit \in Slots /\ handler = "none"
          /\ UNCHANGED <<toSub, session, upSubs>>
      BY <2>4 DEF HandshakeFails, DropClosed, HandleDisconnect, NextSlot
    <3>2. /\ subs' = [subs EXCEPT ![visit] = <<>>]
          /\ asked' = [asked EXCEPT ![visit] = {}]
      BY <3>1 DEF Release
    <3>3. \A j \in Slots : asked'[j] \subseteq asked[j]
      BY <3>1, <3>2 DEF Inv, TypeOK
    <3>4. PacketInv'
      BY <1>1, <3>1, NoEntries DEF PacketInv
    <3> QED
      BY <3>1, <3>2, <3>3, <3>4, EmptiedEntries, DemandKept
  <2>5. CASE HandlerCutShort
    BY <2>5, NoEntries, UntouchedEntries, DemandKept DEF HandlerCutShort, PacketInv
  <2>6. CASE SubscribeDone \/ UnsubscribeDone
    <3>1. toSub = <<>> /\ UNCHANGED <<toSub, subs, asked, session, upSubs>>
      BY <2>6 DEF SubscribeDone, UnsubscribeDone, Inv, HandlerInv
    <3> QED
      BY <3>1, NoEntries, UntouchedEntries, DemandKept DEF PacketInv
  <2>7. CASE \/ EndServe \/ SkipSlot \/ HandshakePending \/ HandshakeDone
             \/ HandleNothing \/ HandleConnectOrPing \/ HandlePublish
             \/ HandleUnsubscribe
    <3>1. UNCHANGED <<toSub, subs, asked, session, upSubs>>
      BY <2>7 DEF EndServe, SkipSlot, HandshakePending, HandshakeDone,
         HandleNothing, HandleConnectOrPing, HandlePublish, HandleUnsubscribe,
         NextSlot, ctrlVars
    <3>2. handler = "none"
      BY <2>7 DEF EndServe, SkipSlot, HandshakePending, HandshakeDone,
         HandleNothing, HandleConnectOrPing, HandlePublish, HandleUnsubscribe,
         Inv, HandlerInv, Slots
    <3> QED
      BY <1>3, <3>1, <3>2, DemandKept
  <2> QED
    BY <1>6, <2>1, <2>2, <2>3, <2>4, <2>5, <2>6, <2>7 DEF ServeStep
<1>7. CASE Environment
  <2>1. CASE Reboot
    <3>1. /\ toSub' = <<>> /\ ~session'
          /\ \A i \in Slots : subs'[i] = <<>> /\ asked'[i] = {}
      BY <2>1 DEF Reboot
    <3>2. EntriesInv'
      BY <3>1, NoEntries, EmptyCardinality, StoredTopics DEF EntriesInv
    <3> QED
      BY <3>1, <3>2, NoEntries DEF PacketInv, DemandInv
  <2>2. CASE ~Reboot
    <3>1. UNCHANGED <<visit, toSub, subs, asked>>
      BY <1>7, <2>2 DEF Environment, WifiChanges, PrinterChanges, LinkLost,
         ReconnectTimer, PeerConnects, PeerLeaves, ctrlVars, downVars
    <3>2. CASE PrinterChanges
      <4>1. session' => session /\ upSubs' = upSubs
        BY <3>2 DEF PrinterChanges
      <4> QED
        BY <1>3, <3>1, <4>1, DemandKept
    <3>3. CASE ~PrinterChanges
      <4>1. session' => session /\ upSubs' = upSubs
        BY <1>7, <2>2, <3>3 DEF Environment, WifiChanges, LinkLost,
           ReconnectTimer, PeerConnects, PeerLeaves, upVars
      <4> QED
        BY <1>3, <3>1, <4>1, DemandKept
    <3> QED
      BY <3>2, <3>3
  <2> QED
    BY <2>1, <2>2
<1> QED
  BY <1>4, <1>5, <1>6, <1>7 DEF Next, LoopStep

LEMMA SubscriptionStutter ==
  ASSUME SubscriptionInv, UNCHANGED vars PROVE SubscriptionInv'
<1>1. UNCHANGED <<subs, asked, toSub, visit, session, upSubs>>
  BY DEF vars, ctrlVars, upVars, downVars
<1> QED
  BY <1>1, UntouchedEntries DEF SubscriptionInv, PacketInv, DemandInv

-----------------------------------------------------------------------------
(***************************************************************************)
(* The theorems.                                                           *)
(***************************************************************************)

\* With clients that behave well, the slots hold what was asked for and the
\* printer's session has all of it, in every reachable state.
THEOREM SubscriptionInvariance ==
  ASSUME WellBehaved PROVE Spec => []SubscriptionInv
<1>1. Inv /\ SubscriptionInv /\ [Next]_vars => SubscriptionInv'
  BY SubscriptionStep, SubscriptionStutter
<1> QED
  BY <1>1, InitSubscriptionInv, Invariance, PTL DEF Spec

\* What is stored for a client is what it asked for: nothing is lost when
\* entries are removed, nothing is left behind for the slot's next client.
THEOREM StoredCorrectly == ASSUME WellBehaved PROVE Spec => []StoredIsAsked
<1>1. SubscriptionInv => StoredIsAsked
  BY DEF SubscriptionInv, EntriesInv, StoredIsAsked
<1> QED
  BY <1>1, SubscriptionInvariance, PTL

\* The printer's session has every filter some client asked for, whatever
\* connections were lost and made again and whoever unsubscribed.
THEOREM DemandIsCovered == ASSUME WellBehaved PROVE Spec => []DemandCovered
<1>1. SubscriptionInv => DemandCovered
  BY DEF SubscriptionInv, DemandInv, DemandCovered
<1> QED
  BY <1>1, SubscriptionInvariance, PTL

\* A filter is dropped from a living session only when no client has an
\* entry that needs it.
THEOREM DroppedOnlyUnwanted == ASSUME WellBehaved PROVE Spec => OnlyUnwantedDropped
<1>1. ASSUME Inv', SubscriptionInv', session', NEW u \in upSubs \ upSubs',
             NEW i \in Slots, NEW k \in 1..Len(subs'[i])
      PROVE  ToUpstream(subs'[i][k].topic) # u
  <2>1. subs'[i][k].topic \in asked'[i]
    BY <1>1, StoredTopics DEF SubscriptionInv, EntriesInv, TopicsOf
  <2> QED
    BY <1>1, <2>1 DEF SubscriptionInv, DemandInv
<1>2. Inv' /\ SubscriptionInv' =>
        [session' => \A u \in upSubs \ upSubs' :
           \A i \in Slots : \A s \in {subs'[i][k] : k \in 1..Len(subs'[i])} :
             ToUpstream(s.topic) # u]_vars
  BY <1>1
<1> QED
  BY <1>2, Invariance, SubscriptionInvariance, PTL DEF OnlyUnwantedDropped

\* A report reaches exactly the clients whose filters, as the printer knows
\* them, match it.
THEOREM ReportsReachAllAskers == ASSUME WellBehaved PROVE Spec => ReportsReachAskers
<1>1. ASSUME Inv, SubscriptionInv, NEW t \in PrinterTopics, OnUpstreamMessage(t)
      PROVE  {o.to : o \in out'} =
               {i \in Slots : \E f \in asked[i] : Matches(t, ToUpstream(f))}
  <2>1. {o.to : o \in out'} = Receivers(t)
    <3>1. out' = {Packet(i, "message", ToLocal(t)) : i \in Receivers(t)}
      BY <1>1 DEF OnUpstreamMessage
    <3>2. \A i \in Receivers(t) : Packet(i, "message", ToLocal(t)).to = i
      BY DEF Packet
    <3> QED
      BY <3>1, <3>2
  <2>2. ASSUME NEW i \in Slots
        PROVE  /\ ~Active(i) => asked[i] = {}
               /\ Stored(i) = asked[i]
               /\ asked[i] \subseteq ClientFilters
    BY <1>1 DEF Inv, TypeOK, SlotInv, SubscriptionInv, EntriesInv
  <2>3. \A i \in Slots : \A f \in asked[i] :
          Matches(ToLocal(t), f) <=> Matches(t, ToUpstream(f))
    BY <2>2, TranslationsAgree
  <2> QED
    BY <2>1, <2>2, <2>3 DEF Receivers
<1>2. Inv /\ SubscriptionInv =>
        [\A t \in PrinterTopics : OnUpstreamMessage(t) =>
           {o.to : o \in out'} =
             {i \in Slots : \E f \in asked[i] : Matches(t, ToUpstream(f))}]_vars
  BY <1>1
<1> QED
  BY <1>2, Invariance, SubscriptionInvariance, PTL DEF ReportsReachAskers

-----------------------------------------------------------------------------
(***************************************************************************)
(* The bridge implements SharedSession: what each action is there.         *)
(***************************************************************************)
Covered == {f \in ClientFilters : UpstreamName[f] \in upSubs}
Got == {<<o.to, o.topic>> : o \in {p \in out : p.kind = "message"}}
Silent(S) == \A p \in S : p.kind # "message"

LEMMA NameIs == \A f \in ClientFilters : UpstreamName[f] = ToUpstream(f)
  BY DEF UpstreamName

LEMMA GotNothing == ASSUME Silent(out') PROVE Got' = {}
  BY DEF Silent, Got

LEMMA NothingSilent == Silent({})
  BY DEF Silent

LEMMA QuietStep ==
  ASSUME Silent(out'), UNCHANGED <<session, upSubs, asked>> PROVE Shared!Next
<1>1. Shared!Quiet
  BY GotNothing DEF Shared!Quiet, Covered, Got
<1> QED  BY <1>1 DEF Shared!Next

LEMMA LoseStep ==
  ASSUME Inv, Silent(out'), session' = FALSE, upSubs' = {}, asked' = asked
  PROVE  Shared!Next
<1>1. CASE session
  <2>1. session \in BOOLEAN
    BY DEF Inv, TypeOK
  <2>2. Shared!Lose
    BY <1>1, <2>1, GotNothing DEF Shared!Lose, Covered, Got
  <2> QED  BY <2>2 DEF Shared!Next
<1>2. CASE ~session
  <2>1. session' = session /\ upSubs' = upSubs
    BY <1>2 DEF Inv, UpstreamInv, TypeOK
  <2> QED  BY <2>1, QuietStep
<1> QED  BY <1>1, <1>2

\* What is stored, and so what is asked, is subscribed on a new connection.
LEMMA ConnectStep ==
  ASSUME WellBehaved, Inv, SubscriptionInv, ConnectSucceeds PROVE Shared!Next
<1>1. Silent(out') /\ asked' = asked
  BY NothingSilent DEF ConnectSucceeds, downVars
<1>2. session => FALSE
  BY DEF ConnectSucceeds, MustConnect, Online, Inv, UpstreamInv
<1>3. CASE session'
  <2>1. DemandInv'
    BY ReconnectionDemand
  <2>2. \A f \in ClientFilters : (\E i \in Slots : f \in asked[i]) => f \in Covered'
    BY <1>1, <1>3, <2>1, NameIs DEF DemandInv, Covered
  <2>3. Shared!Connect
    BY <1>1, <1>2, <1>3, <2>2, GotNothing DEF Shared!Connect, Shared!Askers, Covered, Got
  <2> QED  BY <2>3 DEF Shared!Next
<1>4. CASE ~session'
  <2>1. session' = FALSE /\ upSubs' = {}
    BY <1>4 DEF ConnectSucceeds
  <2> QED  BY <1>1, <2>1, LoseStep
<1> QED  BY <1>3, <1>4

\* A report has one name for the local clients.
LEMMA ToLocalInjective ==
  ASSUME NEW t \in PrinterTopics, NEW u \in PrinterTopics, ToLocal(t) = ToLocal(u)
  PROVE  t = u
  BY ToLocalFields DEF PrinterTopics

SelectedBy(f) == ReportsOf[f]

LEMMA SelectedMatches ==
  ASSUME NEW t \in PrinterTopics, NEW f \in ClientFilters
  PROVE  ToLocal(t) \in SelectedBy(f) <=> Matches(t, ToUpstream(f))
<1>1. SelectedBy(f) = {ToLocal(u) : u \in {v \in PrinterTopics : Matches(v, UpstreamName[f])}}
  BY DEF SelectedBy, ReportsOf
<1> QED  BY <1>1, ToLocalInjective, NameIs

LEMMA ReportStep ==
  ASSUME WellBehaved, Inv, SubscriptionInv, NEW t \in PrinterTopics, OnUpstreamMessage(t)
  PROVE  Shared!Next
<1> DEFINE r == ToLocal(t)
<1>1. /\ out' = {Packet(i, "message", r) : i \in Receivers(t)} /\ session
      /\ UNCHANGED <<session, upSubs, asked>>
  BY DEF OnUpstreamMessage, upVars, downVars
<1>2. ASSUME NEW i \in Slots
      PROVE  asked[i] \subseteq ClientFilters
    BY DEF Inv, TypeOK
<1>3. Receivers(t) = {i \in Slots : \E f \in asked[i] : r \in SelectedBy(f)}
  <2>1. \A i \in Slots : \A f \in asked[i] : Matches(r, f) <=> r \in SelectedBy(f)
    BY <1>2, TranslationsAgree, SelectedMatches
  <2>2. \A i \in Slots : (~Active(i) => asked[i] = {}) /\ Stored(i) = asked[i]
    BY DEF Inv, SlotInv, SubscriptionInv, EntriesInv
  <2> QED  BY <2>1, <2>2 DEF Receivers
<1>4. Got' = Receivers(t) \X {r}
  <2>1. \A i : /\ Packet(i, "message", r).to = i
               /\ Packet(i, "message", r).kind = "message"
               /\ Packet(i, "message", r).topic = r
    BY DEF Packet
  <2> HIDE DEF r
  <2> QED  BY <1>1, <2>1 DEF Got
<1>5. CASE Receivers(t) = {}
  <2>1. Silent(out')
    BY <1>1, <1>5, NothingSilent
  <2> QED  BY <1>1, <2>1, QuietStep
<1>6. CASE Receivers(t) # {}
  <2>0. PICK i \in Slots : \E f \in asked[i] : r \in SelectedBy(f)
    BY <1>3, <1>6
  <2>1. PICK f \in asked[i] : r \in SelectedBy(f)
    BY <2>0
  <2>2. f \in Covered /\ f \in ClientFilters
    BY <1>1, <1>2, <2>1, NameIs DEF SubscriptionInv, DemandInv, Covered
  <2>3. Shared!Report(r)
    BY <1>1, <1>2, <1>3, <1>4, <2>1, <2>2 DEF Shared!Report, Covered, Got, SelectedBy
  <2> QED  BY <2>1, <2>2, <2>3 DEF Shared!Next, SelectedBy
<1> QED  BY <1>5, <1>6

LEMMA ClientStep ==
  ASSUME NEW i \in Slots, NEW f \in ClientFilters, Shared!Ask(i, f) \/ Shared!GiveUp(i, f)
  PROVE  Shared!Next
  BY DEF Shared!Next

LEMMA AskStep ==
  ASSUME WellBehaved, Inv, SubscribeTopic PROVE Shared!Next
<1> DEFINE f == Head(toSub).topic
<1>1. /\ Head(toSub) \in Subs /\ f \in ClientFilters /\ Head(toSub).qos <= 1
      /\ visit \in Slots
  <2>1. Head(toSub) \in Subs
    BY DEF SubscribeTopic, Inv, TypeOK
  <2> QED  BY <2>1, QosBound DEF Subs, SubscribeTopic, Inv, HandlerInv
<1>2. /\ asked' = [asked EXCEPT ![visit] = @ \cup {f}]
      /\ session' = session /\ Silent(out')
      /\ upSubs' = IF Online /\ session THEN upSubs \cup {ToUpstream(f)} ELSE upSubs
  BY <1>1, NothingSilent DEF SubscribeTopic
<1>3. session => Online
  BY DEF Inv, UpstreamInv, Online
<1>4. Covered' = IF session THEN Covered \cup {f} ELSE Covered
  <2>1. \A g \in ClientFilters : ToUpstream(g) = ToUpstream(f) => g = f
    BY <1>1, ToUpstreamInjective
  <2> HIDE DEF f
  <2> QED  BY <1>1, <1>2, <1>3, <2>1, NameIs DEF Covered
<1> HIDE DEF f
<1>5. ASSUME NEW i \in Slots, i = visit, NEW g \in ClientFilters, g = f PROVE Shared!Next
  <2>1. Shared!Ask(i, g)
    BY <1>2, <1>4, <1>5, GotNothing DEF Shared!Ask, Covered, Got
  <2> QED  BY <2>1, ClientStep
<1> QED  BY <1>1, <1>5

LEMMA GiveUpStep ==
  ASSUME WellBehaved, Inv, SubscriptionInv, UnsubscribeTopic PROVE Shared!Next
<1> DEFINE f == Head(toUnsub)
<1>1. f \in ClientFilters /\ visit \in Slots
  BY DEF UnsubscribeTopic, Inv, TypeOK, HandlerInv
<1>2. /\ asked' = [asked EXCEPT ![visit] = @ \ {f}]
      /\ session' = session /\ Silent(out')
      /\ upSubs' = IF ~StillWanted(f) /\ Online THEN upSubs \ {ToUpstream(f)} ELSE upSubs
  BY NothingSilent DEF UnsubscribeTopic
<1>3. session => Online
  BY DEF Inv, UpstreamInv, Online
<1>4. ~session => Covered = {} /\ Covered' = {}
  BY <1>2 DEF Inv, UpstreamInv, Covered
<1>5. StillWanted(f) <=> \E j \in Slots \ {visit} : f \in asked[j]
  BY DEF StillWanted, Inv, SlotInv, SubscriptionInv, EntriesInv
<1>6. Covered' = IF \E j \in Slots \ {visit} : f \in asked[j] THEN Covered ELSE Covered \ {f}
  <2>1. \A g \in ClientFilters : ToUpstream(g) = ToUpstream(f) => g = f
    BY <1>1, ToUpstreamInjective
  <2> HIDE DEF f
  <2>2. CASE session
    BY <1>1, <1>2, <1>3, <1>5, <2>1, <2>2, NameIs DEF Covered
  <2>3. CASE ~session
    BY <1>4, <2>3
  <2> QED  BY <2>2, <2>3
<1> HIDE DEF f
<1>7. ASSUME NEW i \in Slots, i = visit, NEW g \in ClientFilters, g = f PROVE Shared!Next
  <2>1. Shared!GiveUp(i, g)
    BY <1>2, <1>6, <1>7, GotNothing DEF Shared!GiveUp, Shared!Askers, Covered, Got
  <2> QED  BY <2>1, ClientStep
<1> QED  BY <1>1, <1>7

LEMMA LeaveStep ==
  ASSUME NEW i \in Slots, asked' = [asked EXCEPT ![i] = {}],
         UNCHANGED <<session, upSubs>>, Silent(out')
  PROVE  Shared!Next
<1>1. Shared!Leave(i)
  BY GotNothing DEF Shared!Leave, Covered, Got
<1> QED  BY <1>1 DEF Shared!Next

LEMMA RestartStep == ASSUME Reboot PROVE Shared!Next
<1>1. Shared!Restart
  BY NothingSilent, GotNothing DEF Reboot, Shared!Restart, Covered, Got
<1> QED  BY <1>1 DEF Shared!Next

LEMMA SharedInit == Init => Shared!Init
<1> SUFFICES ASSUME Init PROVE Shared!Init
  OBVIOUS
<1>1. out = {} /\ upSubs = {} /\ session = FALSE /\ asked = [i \in Slots |-> {}]
  BY DEF Init
<1> QED  BY <1>1 DEF Shared!Init

LEMMA SharedStep ==
  ASSUME WellBehaved, Inv, SubscriptionInv, Next PROVE Shared!Next
<1> USE DEF upVars, downVars
<1>1. CASE UpstreamStep
  <2>1. CASE ConnectSucceeds
    BY <2>1, ConnectStep
  <2>2. CASE ConnectFails \/ ConnectRefused
    <3>1. session' = FALSE /\ upSubs' = {} /\ asked' = asked /\ Silent(out')
      BY <2>2, NothingSilent DEF ConnectFails, ConnectRefused
    <3> QED  BY <3>1, LoseStep
  <2>3. CASE StartStationServices \/ WaitToReconnect \/ PubSubIdle \/ KeepaliveTimeout
    <3>1. Silent(out') /\ UNCHANGED <<session, upSubs, asked>>
      BY <2>3, NothingSilent
         DEF StartStationServices, WaitToReconnect, PubSubIdle, KeepaliveTimeout
    <3> QED  BY <3>1, QuietStep
  <2>4. CASE \E t \in PrinterTopics : OnUpstreamMessage(t)
    BY <2>4, ReportStep
  <2> QED  BY <1>1, <2>1, <2>2, <2>3, <2>4 DEF UpstreamStep
<1>2. CASE AcceptStep
  <2>1. CASE \E i \in Slots : AcceptIntoSlot(i)
    <3>1. PICK i \in Slots : AcceptIntoSlot(i)
      BY <2>1
    <3>2. /\ asked' = [asked EXCEPT ![i] = {}]
          /\ UNCHANGED <<session, upSubs>> /\ Silent(out')
      BY <3>1, NothingSilent DEF AcceptIntoSlot
    <3> QED  BY <3>2, LeaveStep
  <2>2. CASE AcceptAndClose \/ AcceptNothing
    <3>1. Silent(out') /\ UNCHANGED <<session, upSubs, asked>>
      BY <2>2, NothingSilent DEF AcceptAndClose, AcceptNothing
    <3> QED  BY <3>1, QuietStep
  <2> QED  BY <1>2, <2>1, <2>2 DEF AcceptStep
<1>3. CASE ServeStep
  <2>1. CASE SubscribeTopic
    BY <2>1, AskStep
  <2>2. CASE UnsubscribeTopic
    BY <2>2, GiveUpStep
  <2>3. CASE HandshakeFails \/ DropClosed \/ HandleDisconnect
    <3>1. /\ Release(visit) /\ visit \in Slots /\ Silent(out')
          /\ UNCHANGED <<session, upSubs>>
      BY <2>3, NothingSilent
         DEF HandshakeFails, DropClosed, HandleDisconnect, CanHandle, AtClient, AtSlot
    <3>2. asked' = [asked EXCEPT ![visit] = {}]
      BY <3>1 DEF Release
    <3> QED  BY <3>1, <3>2, LeaveStep
  <2>4. CASE \/ EndServe \/ SkipSlot \/ HandshakePending \/ HandshakeDone
             \/ HandleNothing \/ HandleSubscribe \/ HandleUnsubscribe \/ HandlerCutShort
    <3>1. Silent(out') /\ UNCHANGED <<session, upSubs, asked>>
      BY <2>4, NothingSilent
         DEF EndServe, SkipSlot, HandshakePending, HandshakeDone, HandleNothing,
             HandleSubscribe, HandleUnsubscribe, HandlerCutShort
    <3> QED  BY <3>1, QuietStep
  <2>5. CASE HandleConnectOrPing \/ HandlePublish \/ SubscribeDone \/ UnsubscribeDone
    <3>1. UNCHANGED <<session, upSubs, asked>>
      BY <2>5 DEF HandleConnectOrPing, HandlePublish, SubscribeDone, UnsubscribeDone
    <3>2. \A p \in out' : p.kind \in {"connack", "pingresp", "request", "fake", "puback",
                                      "suback", "unsuback"}
      BY <2>5 DEF HandleConnectOrPing, HandlePublish, SubscribeDone, UnsubscribeDone, Packet
    <3>3. Silent(out')
      BY <3>2 DEF Silent
    <3> QED  BY <3>1, <3>3, QuietStep
  <2> QED  BY <1>3, <2>1, <2>2, <2>3, <2>4, <2>5 DEF ServeStep
<1>4. CASE Environment
  <2>1. CASE Reboot
    BY <2>1, RestartStep
  <2>2. CASE LinkLost
    <3>1. session' = FALSE /\ upSubs' = {} /\ asked' = asked /\ Silent(out')
      BY <2>2, NothingSilent DEF LinkLost
    <3> QED  BY <3>1, LoseStep
  <2>3. CASE PrinterChanges
    <3>1. PICK state \in {"off", "refusing", "on"} :
            /\ session' = (session /\ state # "off")
            /\ upSubs' = IF state = "off" THEN {} ELSE upSubs
      BY <2>3 DEF PrinterChanges
    <3>2. asked' = asked /\ Silent(out') /\ session \in BOOLEAN
      BY <2>3, NothingSilent DEF PrinterChanges, Inv, TypeOK
    <3>3. CASE state = "off"
      BY <3>1, <3>2, <3>3, LoseStep
    <3>4. CASE state # "off"
      BY <3>1, <3>2, <3>4, QuietStep
    <3> QED  BY <3>3, <3>4
  <2>4. CASE WifiChanges \/ ReconnectTimer \/ \E p \in Peers : PeerConnects(p) \/ PeerLeaves(p)
    <3>1. Silent(out') /\ UNCHANGED <<session, upSubs, asked>>
      BY <2>4, NothingSilent DEF WifiChanges, ReconnectTimer, PeerConnects, PeerLeaves
    <3> QED  BY <3>1, QuietStep
  <2> QED  BY <1>4, <2>1, <2>2, <2>3, <2>4 DEF Environment
<1> QED  BY <1>1, <1>2, <1>3, <1>4 DEF Next, LoopStep

\* With clients that behave well, the bridge is the shared session: whoever
\* else comes, goes, subscribes and unsubscribes, and however often the
\* connection is lost, a client gets what it asked for (mqtt_bridge.cpp:206-309).
THEOREM BridgeIsSharedSession ==
  ASSUME WellBehaved PROVE Spec => ImplementsSharedSession
<1>1. Inv /\ SubscriptionInv /\ [Next]_vars => [Shared!Next]_(Shared!vars)
  <2> SUFFICES ASSUME Inv, SubscriptionInv, [Next]_vars
               PROVE  Shared!Next \/ UNCHANGED Shared!vars
    OBVIOUS
  <2>1. CASE Next
    BY <2>1, SharedStep
  <2>2. CASE UNCHANGED vars
    <3>1. UNCHANGED <<session, upSubs, asked, out>>
      BY <2>2 DEF vars, ctrlVars, upVars, downVars
    <3> QED  BY <3>1 DEF Shared!vars
  <2> QED  BY <2>1, <2>2
<1> QED
  BY <1>1, SharedInit, Invariance, SubscriptionInvariance, PTL
     DEF Spec, ImplementsSharedSession, Shared!Spec
=============================================================================
