------------------------------ MODULE TcpProxy ------------------------------
(***************************************************************************)
(* One TcpProxy of the gateway: the camera stream (port 6000) or FTPS      *)
(* (port 990).  The local clients share one connection to the printer.     *)
(* What the printer sends is written to every client; what a client sends  *)
(* is written to the printer.                                              *)
(*                                                                         *)
(* TcpProxy::loop() runs in four phases:                                   *)
(*   "upstream"  make the connection to the printer, or go on with it;     *)
(*   "accept"    take the waiting connections into free slots;             *)
(*   "down"      forwardUpToDown();                                        *)
(*   "up"        visit the slots in order: forwardDownToUp().              *)
(* Bytes are not modelled: a step says that some were forwarded for a      *)
(* slot, and "gaps" remembers the slots some of whose bytes were lost.     *)
(***************************************************************************)
EXTENDS Naturals, Sequences, FiniteSets

CONSTANTS
  MaxClients,      \* _maxClients
  Peers,           \* programs that connect to the proxy's port
  NoPeer,          \* the content of a free slot
  Sessions,        \* bound: connections to the printer are told apart
                   \* modulo this number
  ShortWrites      \* whether write() may take fewer bytes than it is given

Slots == 1..MaxClients

ASSUME ProxyAssumption ==
  /\ MaxClients \in Nat \ {0}
  /\ NoPeer \notin Peers
  /\ Sessions \in Nat \ {0}
  /\ ShortWrites \in BOOLEAN

VARIABLES
  phase,           \* where loop() is
  visit,           \* the slot the "up" phase has come to
  wifi,            \* WiFi.isConnected()
  printer,         \* whether the printer accepts connections
  due,             \* now - _lastReconnect > 5000
  upOpen,          \* _upstream.connected()
  session,         \* history: the connection to the printer, as a number
  disconnected,    \* _disconnected: disconnectAll() has been called
  queue,           \* the connections _server has pending
  open,            \* whether a peer's connection is up
  slot,            \* the peer in each slot; NoPeer when it is not active
  joined,          \* history: the session in which the slot was taken
  spoke,           \* history: the peers whose bytes this session carries
  gaps,            \* history: the slots some of whose bytes were lost
  out              \* history: the slots the last step forwarded bytes for

loopVars   == <<phase, visit>>
envVars    == <<wifi, printer>>
upVars     == <<due, upOpen, session, disconnected>>
clientVars == <<queue, open, slot, joined>>
vars       == <<loopVars, envVars, upVars, clientVars, spoke, gaps, out>>

TypeOK ==
  /\ phase \in {"upstream", "accept", "down", "up"}
  /\ visit \in 1..(MaxClients + 1)
  /\ wifi \in BOOLEAN /\ printer \in BOOLEAN /\ due \in BOOLEAN
  /\ upOpen \in BOOLEAN /\ disconnected \in BOOLEAN
  /\ session \in 1..Sessions
  /\ queue \in Seq(Peers)
  /\ open \in [Peers -> BOOLEAN]
  /\ slot \in [Slots -> Peers \cup {NoPeer}]
  /\ joined \in [Slots -> 1..Sessions]
  /\ spoke \subseteq Peers
  /\ gaps \subseteq Slots
  /\ out \subseteq [dir : {"down", "up"}, slot : Slots]

\* The constructor, and setup() with its call of setRemote().
Init ==
  /\ phase = "upstream" /\ visit = 1
  /\ wifi = FALSE /\ printer = FALSE /\ due = FALSE
  /\ upOpen = FALSE /\ session = 1 /\ disconnected = TRUE
  /\ queue = <<>>
  /\ open = [p \in Peers |-> FALSE]
  /\ slot = [i \in Slots |-> NoPeer]
  /\ joined = [i \in Slots |-> 1]
  /\ spoke = {} /\ gaps = {} /\ out = {}

Active(i) == slot[i] # NoPeer
IsFirstFree(i) == ~Active(i) /\ \A j \in Slots : j < i => Active(j)

-----------------------------------------------------------------------------
(***************************************************************************)
(* Phase "upstream".  Without WiFi, loop() returns at once and changes     *)
(* nothing.                                                                *)
(***************************************************************************)

\* Variant: the first slot is left out.
DisconnectAll_SkipsFirst ==
  LET kept == {1}
  IN /\ slot' = [i \in Slots |-> IF i \in kept THEN slot[i] ELSE NoPeer]
     /\ open' = [p \in Peers |-> open[p] /\ \A i \in Slots \ kept : slot[i] # p]
     /\ gaps' = gaps \cap kept

\* Variant: the connections are not stopped.
DisconnectAll_WithoutStop ==
  /\ slot' = [i \in Slots |-> NoPeer]
  /\ gaps' = {}
  /\ UNCHANGED open

DisconnectAll ==
  /\ slot' = [i \in Slots |-> NoPeer]
  /\ open' = [p \in Peers |-> open[p] /\ \A i \in Slots : slot[i] # p]
  /\ gaps' = {}

\* The clients of a lost connection are closed once.
Cleanup ==
  /\ IF disconnected THEN UNCHANGED <<slot, open, gaps>> ELSE DisconnectAll
  /\ UNCHANGED <<queue, joined>>

UpstreamDown == phase = "upstream" /\ wifi /\ ~upOpen

WaitToReconnect ==
  /\ UpstreamDown /\ ~due
  /\ Cleanup /\ disconnected' = TRUE
  /\ out' = {}
  /\ UNCHANGED <<loopVars, envVars, due, upOpen, session, spoke>>

ConnectFails ==
  /\ UpstreamDown /\ due /\ ~printer
  /\ Cleanup /\ disconnected' = TRUE
  /\ due' = FALSE
  /\ out' = {}
  /\ UNCHANGED <<loopVars, envVars, upOpen, session, spoke>>

ConnectSucceeds ==
  /\ UpstreamDown /\ due /\ printer
  /\ Cleanup /\ disconnected' = FALSE
  /\ due' = FALSE
  /\ upOpen' = TRUE /\ session' = (session % Sessions) + 1 /\ spoke' = {}
  /\ out' = {}
  /\ UNCHANGED <<loopVars, envVars>>

\* Variant: clients are accepted only when there is none.
UpstreamIsUp_AcceptsOne ==
  /\ phase = "upstream" /\ wifi /\ upOpen
  /\ phase' = IF \E i \in Slots : Active(i) THEN "down" ELSE "accept"
  /\ out' = {}
  /\ UNCHANGED <<visit, envVars, upVars, clientVars, spoke, gaps>>

UpstreamIsUp ==
  /\ phase = "upstream" /\ wifi /\ upOpen
  /\ phase' = "accept"
  /\ out' = {}
  /\ UNCHANGED <<visit, envVars, upVars, clientVars, spoke, gaps>>

-----------------------------------------------------------------------------
(***************************************************************************)
(* Phase "accept": acceptClient() is called until it returns no slot.      *)
(***************************************************************************)
AcceptIntoSlot(i) ==
  LET p == Head(queue)
  IN /\ phase = "accept" /\ queue # <<>> /\ open[p] /\ IsFirstFree(i)
     /\ queue' = Tail(queue)
     /\ slot' = [slot EXCEPT ![i] = p]
     /\ joined' = [joined EXCEPT ![i] = session]
     /\ out' = {}
     /\ UNCHANGED <<loopVars, envVars, upVars, open, spoke, gaps>>

\* The connection is down already, or there is no slot for it.
AcceptAndClose ==
  /\ phase = "accept" /\ queue # <<>>
  /\ ~open[Head(queue)] \/ \A i \in Slots : Active(i)
  /\ queue' = Tail(queue)
  /\ open' = [open EXCEPT ![Head(queue)] = FALSE]
  /\ phase' = "down"
  /\ out' = {}
  /\ UNCHANGED <<visit, envVars, upVars, slot, joined, spoke, gaps>>

AcceptNothing ==
  /\ phase = "accept" /\ queue = <<>>
  /\ phase' = "down"
  /\ out' = {}
  /\ UNCHANGED <<visit, envVars, upVars, clientVars, spoke, gaps>>

-----------------------------------------------------------------------------
(***************************************************************************)
(* Phases "down" and "up": up to 512 bytes are read and written on.        *)
(***************************************************************************)

\* A write to a connection that is down loses the bytes; one to a connection
\* that is up may lose some of them.
MayLose(up) == IF up THEN IF ShortWrites THEN BOOLEAN ELSE {FALSE} ELSE {TRUE}

ForwardUpToDown ==
  /\ phase = "down" /\ upOpen
  /\ \E lost \in SUBSET {i \in Slots : Active(i)} :
       /\ \A i \in Slots : Active(i) => (i \in lost) \in MayLose(open[slot[i]])
       /\ gaps' = gaps \cup lost
  /\ out' = {[dir |-> "down", slot |-> i] : i \in {j \in Slots : Active(j) /\ open[slot[j]]}}
  /\ phase' = "up"
  /\ UNCHANGED <<visit, envVars, upVars, clientVars, spoke>>

NothingFromPrinter ==
  /\ phase = "down"
  /\ phase' = "up"
  /\ out' = {}
  /\ UNCHANGED <<visit, envVars, upVars, clientVars, spoke, gaps>>

AtSlot == phase = "up" /\ visit \in Slots
\* Variant: the index is stepped back, as if the slots had moved up.
NextSlot_Back == visit' = visit - 1 /\ UNCHANGED phase
NextSlot == visit' = visit + 1 /\ UNCHANGED phase

SkipSlot ==
  /\ AtSlot /\ ~Active(visit)
  /\ NextSlot
  /\ out' = {}
  /\ UNCHANGED <<envVars, upVars, clientVars, spoke, gaps>>

\* disconnectClient()
Release(i) ==
  /\ open' = [open EXCEPT ![slot[i]] = FALSE]
  /\ slot' = [slot EXCEPT ![i] = NoPeer]
  /\ gaps' = gaps \ {i}

\* Variant: the client's connection is not looked at.
ClientGone_Never == FALSE
ClientGone == ~open[slot[visit]]

DropClosed ==
  /\ AtSlot /\ Active(visit) /\ ClientGone
  /\ Release(visit)
  /\ NextSlot
  /\ out' = {}
  /\ UNCHANGED <<envVars, upVars, queue, joined, spoke>>

NothingFromClient ==
  /\ AtSlot /\ Active(visit) /\ ~ClientGone
  /\ NextSlot
  /\ out' = {}
  /\ UNCHANGED <<envVars, upVars, clientVars, spoke, gaps>>

\* The bytes are read from the client and written to the printer, be the
\* connection to the printer up or not.
ForwardDownToUp ==
  /\ AtSlot /\ Active(visit) /\ ~ClientGone
  /\ \E lost \in MayLose(upOpen) : gaps' = IF lost THEN gaps \cup {visit} ELSE gaps
  /\ out' = IF upOpen THEN {[dir |-> "up", slot |-> visit]} ELSE {}
  /\ spoke' = IF upOpen THEN spoke \cup {slot[visit]} ELSE spoke
  /\ NextSlot
  /\ UNCHANGED <<envVars, upVars, clientVars>>

EndLoop ==
  /\ phase = "up" /\ visit = MaxClients + 1
  /\ phase' = "upstream" /\ visit' = 1
  /\ out' = {}
  /\ UNCHANGED <<envVars, upVars, clientVars, spoke, gaps>>

LoopStep ==
  \/ WaitToReconnect \/ ConnectFails \/ ConnectSucceeds \/ UpstreamIsUp
  \/ \E i \in Slots : AcceptIntoSlot(i)
  \/ AcceptAndClose \/ AcceptNothing
  \/ ForwardUpToDown \/ NothingFromPrinter
  \/ SkipSlot \/ DropClosed \/ NothingFromClient \/ ForwardDownToUp \/ EndLoop

-----------------------------------------------------------------------------
(***************************************************************************)
(* The environment.                                                        *)
(***************************************************************************)
WifiChanges ==
  /\ wifi' = ~wifi
  /\ out' = {}
  /\ UNCHANGED <<loopVars, printer, upVars, clientVars, spoke, gaps>>

PrinterChanges ==
  /\ printer' = ~printer
  /\ out' = {}
  /\ UNCHANGED <<loopVars, wifi, upVars, clientVars, spoke, gaps>>

UpstreamLost ==
  /\ upOpen /\ upOpen' = FALSE
  /\ out' = {}
  /\ UNCHANGED <<loopVars, envVars, due, session, disconnected, clientVars,
                 spoke, gaps>>

ReconnectTimer ==
  /\ ~due /\ due' = TRUE
  /\ out' = {}
  /\ UNCHANGED <<loopVars, envVars, upOpen, session, disconnected, clientVars,
                 spoke, gaps>>

Queued(p) == \E k \in 1..Len(queue) : queue[k] = p
Held(p)   == \E i \in Slots : slot[i] = p

PeerConnects(p) ==
  /\ ~open[p] /\ ~Queued(p) /\ ~Held(p)
  /\ open' = [open EXCEPT ![p] = TRUE]
  /\ queue' = Append(queue, p)
  /\ out' = {}
  /\ UNCHANGED <<loopVars, envVars, upVars, slot, joined, spoke, gaps>>

PeerLeaves(p) ==
  /\ open[p]
  /\ open' = [open EXCEPT ![p] = FALSE]
  /\ out' = {}
  /\ UNCHANGED <<loopVars, envVars, upVars, queue, slot, joined, spoke, gaps>>

Environment ==
  \/ WifiChanges \/ PrinterChanges \/ UpstreamLost \/ ReconnectTimer
  \/ \E p \in Peers : PeerConnects(p) \/ PeerLeaves(p)

Next == LoopStep \/ Environment

Spec == Init /\ [][Next]_vars

\* main.cpp calls loop() for ever, and millis() advances.
FairSpec == Spec /\ WF_vars(LoopStep) /\ WF_vars(ReconnectTimer)

-----------------------------------------------------------------------------
(***************************************************************************)
(* Safety.                                                                 *)
(***************************************************************************)

\* A client never outlives the connection to the printer it was accepted
\* for: neither a camera stream nor an FTPS dialogue is joined in its middle
\* because the printer's side was made again behind the client's back.
SameSession ==
  \A i \in Slots : Active(i) => joined[i] = session

\* No byte goes to or from a client after some of its bytes were lost: a loss
\* that a dead connection caused closes the client before anything else is
\* forwarded for it, so that neither side sees a stream with a hole.
StreamIntact ==
  [][\A o \in out' : o.slot \notin gaps]_vars

\* Every open connection is pending or held by one slot, and by no other.
SocketsOwned ==
  \A p \in Peers :
    /\ open[p] => Queued(p) \/ Held(p)
    /\ ~(Queued(p) /\ Held(p))
    /\ \A i, j \in Slots : slot[i] = p /\ slot[j] = p => i = j

\* What the printer sends goes to the client it talks to and no other.
EndToEnd ==
  [][\A o \in out' : o.dir = "down" => spoke \subseteq {slot[o.slot]}]_vars

(***************************************************************************)
(* Liveness.                                                               *)
(***************************************************************************)

\* While there is WiFi, the clients of a lost connection are closed.
StaleIsClosed ==
  \A p \in Peers :
    <>[]wifi => ((Held(p) /\ ~upOpen) ~> (~Held(p) \/ upOpen))

\* With WiFi and the printer there for good and a connection that is not lost
\* again and again, a waiting client is taken or turned away.
PendingIsServed ==
  <>[](wifi /\ printer) /\ <>[][~UpstreamLost]_vars =>
    \A p \in Peers : Queued(p) ~> ~Queued(p)

=============================================================================
