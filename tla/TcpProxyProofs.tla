--------------------------- MODULE TcpProxyProofs ---------------------------
(***************************************************************************)
(* The safety of TcpProxy for every number of slots, peers and sessions.   *)
(***************************************************************************)
EXTENDS TcpProxy, DataLemmas

USE ProxyAssumption

-----------------------------------------------------------------------------
(***************************************************************************)
(* The inductive invariant.                                                *)
(***************************************************************************)

\* _disconnected says that no slot is taken; it is set only where loop() finds
\* the connection down and is clear when the connection is up.
StaleInv ==
  /\ upOpen \/ phase # "upstream" => ~disconnected
  /\ disconnected => \A i \in Slots : ~Active(i)

\* A slot that lost bytes is about to be released: its client is gone, or the
\* connection to the printer is.
GapInv ==
  \A i \in gaps : Active(i) /\ (~upOpen \/ ~open[slot[i]])

Inv == TypeOK /\ StaleInv /\ SameSession

-----------------------------------------------------------------------------
LEMMA InitInv == Init => Inv
<1> SUFFICES ASSUME Init PROVE Inv
  OBVIOUS
<1>1. /\ TRUE \in BOOLEAN /\ FALSE \in BOOLEAN
      /\ 1 \in 1..(MaxClients + 1) /\ 1 \in 1..Sessions
      /\ <<>> \in Seq(Peers)
  OBVIOUS
<1>2. /\ open \in [Peers -> BOOLEAN]
      /\ slot \in [Slots -> Peers \cup {NoPeer}]
      /\ joined \in [Slots -> 1..Sessions]
  BY <1>1 DEF Init
<1>3. TypeOK
  BY <1>1, <1>2 DEF Init, TypeOK
<1>4. StaleInv /\ SameSession
  BY DEF Init, StaleInv, SameSession, Active
<1> QED
  BY <1>3, <1>4 DEF Inv

\* The clients are closed, or there was none.
LEMMA CleanupInv ==
  ASSUME Inv, UpstreamDown, Cleanup
  PROVE  /\ slot' = [i \in Slots |-> NoPeer]
         /\ open' \in [Peers -> BOOLEAN] /\ gaps' \subseteq Slots
         /\ queue' = queue /\ joined' = joined
<1>1. CASE disconnected
  <2>1. \A i \in Slots : slot[i] = NoPeer
    BY <1>1 DEF Inv, StaleInv, Active
  <2> QED
    BY <1>1, <2>1 DEF Cleanup, Inv, TypeOK
<1>2. CASE ~disconnected
  BY <1>2 DEF Cleanup, DisconnectAll, Inv, TypeOK
<1> QED
  BY <1>1, <1>2 DEF Inv, TypeOK

LEMMA UpstreamStepInv ==
  ASSUME Inv, WaitToReconnect \/ ConnectFails \/ ConnectSucceeds \/ UpstreamIsUp
  PROVE  Inv'
<1>1. CASE UpstreamIsUp
  BY <1>1 DEF UpstreamIsUp, Inv, TypeOK, StaleInv, SameSession, Active, envVars,
     upVars, clientVars
<1>2. CASE WaitToReconnect \/ ConnectFails \/ ConnectSucceeds
  <2>1. UpstreamDown /\ Cleanup
    BY <1>2 DEF WaitToReconnect, ConnectFails, ConnectSucceeds
  <2>2. /\ slot' = [i \in Slots |-> NoPeer]
        /\ open' \in [Peers -> BOOLEAN] /\ gaps' \subseteq Slots
        /\ queue' = queue /\ joined' = joined
    BY <2>1, CleanupInv
  <2>3. session' \in 1..Sessions
    BY <1>2 DEF WaitToReconnect, ConnectFails, ConnectSucceeds, Inv, TypeOK
  <2>4. TypeOK'
    BY <1>2, <2>2, <2>3 DEF WaitToReconnect, ConnectFails, ConnectSucceeds, Inv,
       TypeOK, loopVars, envVars
  <2>5. \A i \in Slots : ~Active(i)'
    BY <2>2 DEF Active
  <2>6. upOpen' => ~disconnected'
    BY <1>2 DEF WaitToReconnect, ConnectFails, ConnectSucceeds, UpstreamDown
  <2>7. phase' = "upstream"
    BY <1>2 DEF WaitToReconnect, ConnectFails, ConnectSucceeds, UpstreamDown,
       loopVars, Inv, TypeOK
  <2> QED
    BY <2>4, <2>5, <2>6, <2>7 DEF Inv, StaleInv, SameSession
<1> QED
  BY <1>1, <1>2

LEMMA AcceptStepInv ==
  ASSUME Inv, (\E i \in Slots : AcceptIntoSlot(i)) \/ AcceptAndClose \/ AcceptNothing
  PROVE  Inv'
<1> USE DEF Inv, TypeOK, StaleInv, SameSession, Active
<1>1. CASE \E i \in Slots : AcceptIntoSlot(i)
  <2>1. PICK i \in Slots : AcceptIntoSlot(i)
    BY <1>1
  <2>2. Head(queue) \in Peers /\ Tail(queue) \in Seq(Peers)
    BY <2>1 DEF AcceptIntoSlot
  <2> QED
    BY <2>1, <2>2 DEF AcceptIntoSlot, loopVars, envVars, upVars
<1>2. CASE AcceptAndClose
  <2>1. Tail(queue) \in Seq(Peers)
    BY <1>2 DEF AcceptAndClose
  <2> QED
    BY <1>2, <2>1 DEF AcceptAndClose, envVars, upVars
<1>3. CASE AcceptNothing
  BY <1>3 DEF AcceptNothing, envVars, upVars, clientVars
<1> QED
  BY <1>1, <1>2, <1>3

\* Every slot but the last has a next one.
LEMMA NextSlotType ==
  ASSUME Inv, AtSlot, NextSlot PROVE visit' \in 1..(MaxClients + 1) /\ phase' = "up"
  BY DEF Inv, TypeOK, AtSlot, NextSlot, Slots

LEMMA ForwardStepInv ==
  ASSUME Inv, \/ ForwardUpToDown \/ NothingFromPrinter \/ SkipSlot \/ DropClosed
              \/ NothingFromClient \/ ForwardDownToUp \/ EndLoop
  PROVE  Inv'
<1> USE DEF Inv, TypeOK, StaleInv, SameSession, Active
<1>1. CASE ForwardUpToDown
  BY <1>1 DEF ForwardUpToDown, envVars, upVars, clientVars
<1>2. CASE DropClosed
  <2>1. /\ visit \in Slots /\ slot[visit] # NoPeer
        /\ open' = [open EXCEPT ![slot[visit]] = FALSE]
        /\ slot' = [slot EXCEPT ![visit] = NoPeer]
        /\ gaps' = gaps \ {visit}
        /\ out' = {}
        /\ UNCHANGED <<envVars, upVars, queue, joined, spoke>>
    BY <1>2 DEF DropClosed, Release, AtSlot
  <2>2. visit' \in 1..(MaxClients + 1) /\ phase' = "up" /\ phase = "up"
    BY <1>2, NextSlotType DEF DropClosed, AtSlot
  <2> QED
    BY <2>1, <2>2 DEF envVars, upVars
<1>3. CASE ForwardDownToUp
  <2>1. gaps' \subseteq Slots /\ spoke' \subseteq Peers
    BY <1>3 DEF ForwardDownToUp, AtSlot
  <2>2. out' \subseteq [dir : {"down", "up"}, slot : Slots]
    BY <1>3 DEF ForwardDownToUp, AtSlot
  <2>3. visit' \in 1..(MaxClients + 1) /\ phase' = "up" /\ phase = "up"
    BY <1>3, NextSlotType DEF ForwardDownToUp, AtSlot
  <2>4. UNCHANGED <<envVars, upVars, clientVars>>
    BY <1>3 DEF ForwardDownToUp
  <2> QED
    BY <2>1, <2>2, <2>3, <2>4 DEF envVars, upVars, clientVars
<1>4. CASE SkipSlot \/ NothingFromClient
  <2>1. visit' \in 1..(MaxClients + 1) /\ phase' = "up" /\ phase = "up"
    BY <1>4, NextSlotType DEF SkipSlot, NothingFromClient, AtSlot
  <2> QED
    BY <1>4, <2>1 DEF SkipSlot, NothingFromClient, envVars, upVars, clientVars
<1>5. CASE NothingFromPrinter \/ EndLoop
  BY <1>5 DEF NothingFromPrinter, EndLoop, envVars, upVars, clientVars
<1> QED
  BY <1>1, <1>2, <1>3, <1>4, <1>5

LEMMA EnvironmentInv ==
  ASSUME Inv, Environment PROVE Inv'
<1> USE DEF Inv, TypeOK, StaleInv, SameSession, Active
<1>1. CASE \E p \in Peers : PeerConnects(p)
  BY <1>1 DEF PeerConnects, loopVars, envVars, upVars
<1>2. CASE \E p \in Peers : PeerLeaves(p)
  BY <1>2 DEF PeerLeaves, loopVars, envVars, upVars
<1>3. CASE WifiChanges \/ PrinterChanges
  <2>1. wifi' \in BOOLEAN /\ printer' \in BOOLEAN
    BY <1>3 DEF WifiChanges, PrinterChanges
  <2> QED
    BY <1>3, <2>1 DEF WifiChanges, PrinterChanges, loopVars, upVars, clientVars
<1>4. CASE UpstreamLost
  BY <1>4 DEF UpstreamLost, loopVars, envVars, clientVars
<1>5. CASE ReconnectTimer
  BY <1>5 DEF ReconnectTimer, loopVars, envVars, clientVars
<1> QED
  BY <1>1, <1>2, <1>3, <1>4, <1>5 DEF Environment

LEMMA StepInv == Inv /\ [Next]_vars => Inv'
<1> SUFFICES ASSUME Inv, [Next]_vars PROVE Inv'
  OBVIOUS
<1>1. CASE UNCHANGED vars
  BY <1>1 DEF vars, loopVars, envVars, upVars, clientVars, Inv, TypeOK, StaleInv,
     SameSession, Active
<1> QED
  BY <1>1, UpstreamStepInv, AcceptStepInv, ForwardStepInv, EnvironmentInv
     DEF Next, LoopStep

\* Inv holds in every reachable state.
THEOREM Invariance == Spec => []Inv
  BY InitInv, StepInv, PTL DEF Spec

\* Every variable stays within the values the code gives it: loop() never goes
\* past the last slot, no slot is out of the array.
THEOREM TypeCorrectness == Spec => []TypeOK
<1>1. Inv => TypeOK
  BY DEF Inv
<1> QED
  BY <1>1, Invariance, PTL

\* disconnectAll() runs before every new connection to the printer, so that no
\* client is carried over from the one before.
THEOREM NoClientCarriedOver == Spec => []SameSession
<1>1. Inv => SameSession
  BY DEF Inv
<1> QED
  BY <1>1, Invariance, PTL

-----------------------------------------------------------------------------
(***************************************************************************)
(* No byte after a loss, if write() takes all it is given.                 *)
(***************************************************************************)
LEMMA InitGaps == Init => GapInv
  BY DEF Init, GapInv

LEMMA GapStep ==
  ASSUME ~ShortWrites, Inv, GapInv, [Next]_vars PROVE GapInv'
<1> USE DEF Inv, TypeOK, GapInv, Active
<1>1. ASSUME UNCHANGED <<slot, gaps>>, upOpen' => upOpen,
             \A p \in Peers : Held(p) => (open'[p] => open[p])
      PROVE  GapInv'
  BY <1>1 DEF Held
<1>2. CASE WaitToReconnect \/ ConnectFails \/ ConnectSucceeds
  <2>1. gaps' = {}
    <3>1. UpstreamDown /\ Cleanup
      BY <1>2 DEF WaitToReconnect, ConnectFails, ConnectSucceeds
    <3>2. disconnected => gaps = {}
      BY DEF StaleInv
    <3> QED
      BY <3>1, <3>2 DEF Cleanup, DisconnectAll
  <2> QED
    BY <2>1
<1>3. CASE \E i \in Slots : AcceptIntoSlot(i)
  <2>1. PICK i \in Slots : AcceptIntoSlot(i)
    BY <1>3
  <2>2. i \notin gaps
    BY <2>1 DEF AcceptIntoSlot, IsFirstFree
  <2> QED
    BY <2>1, <2>2 DEF AcceptIntoSlot, upVars
<1>4. CASE AcceptAndClose
  BY <1>1, <1>4 DEF AcceptAndClose, upVars
<1>5. CASE ForwardUpToDown
  <2>1. \A i \in gaps' : i \in gaps \/ (Active(i) /\ ~open[slot[i]])
    BY <1>5 DEF ForwardUpToDown, MayLose
  <2> QED
    BY <1>5, <2>1 DEF ForwardUpToDown, upVars, clientVars
<1>6. CASE ForwardDownToUp
  <2>1. \A i \in gaps' : i \in gaps \/ (Active(i) /\ ~upOpen)
    BY <1>6 DEF ForwardDownToUp, MayLose
  <2> QED
    BY <1>6, <2>1 DEF ForwardDownToUp, upVars, clientVars
<1>7. CASE DropClosed
  <2>1. /\ visit \in Slots /\ slot[visit] \in Peers
        /\ open' = [open EXCEPT ![slot[visit]] = FALSE]
        /\ slot' = [slot EXCEPT ![visit] = NoPeer]
        /\ gaps' = gaps \ {visit}
        /\ upOpen' = upOpen
    BY <1>7 DEF DropClosed, Release, AtSlot, upVars
  <2>2. \A i \in gaps' : slot'[i] = slot[i] /\ (~open[slot[i]] => ~open'[slot[i]])
    BY <2>1
  <2> QED
    BY <2>1, <2>2
<1>8. CASE UpstreamIsUp \/ AcceptNothing \/ NothingFromPrinter \/ SkipSlot
           \/ NothingFromClient \/ EndLoop
  BY <1>1, <1>8 DEF UpstreamIsUp, AcceptNothing, NothingFromPrinter, SkipSlot,
     NothingFromClient, EndLoop, upVars, clientVars
<1>9. CASE Environment
  <2>1. CASE \E p \in Peers : PeerConnects(p)
    BY <1>1, <2>1 DEF PeerConnects, upVars
  <2>2. CASE \E p \in Peers : PeerLeaves(p)
    BY <1>1, <2>2 DEF PeerLeaves, upVars
  <2> QED
    BY <1>1, <1>9, <2>1, <2>2 DEF Environment, WifiChanges, PrinterChanges,
       UpstreamLost, ReconnectTimer, upVars, clientVars
<1>10. CASE UNCHANGED vars
  BY <1>1, <1>10 DEF vars, upVars, clientVars
<1> QED
  BY <1>2, <1>3, <1>4, <1>5, <1>6, <1>7, <1>8, <1>9, <1>10 DEF Next, LoopStep

\* When write() takes all the bytes it is given, the only losses are those of
\* dead connections, and the client of such a connection is closed before
\* another byte is forwarded for it.
THEOREM NothingAfterALoss == ASSUME ~ShortWrites PROVE Spec => StreamIntact
<1>1. ASSUME Inv, GapInv, [Next]_vars
      PROVE  [\A o \in out' : o.slot \notin gaps]_vars
  <2>1. CASE ForwardUpToDown
    <3>1. ASSUME NEW o \in out'
          PROVE  upOpen /\ o.slot \in Slots /\ Active(o.slot) /\ open[slot[o.slot]]
      BY <2>1, <3>1 DEF ForwardUpToDown
    <3> QED
      BY <1>1, <3>1 DEF GapInv
  <2>2. CASE ForwardDownToUp
    <3>1. ASSUME NEW o \in out' PROVE upOpen /\ o.slot = visit /\ open[slot[visit]]
      BY <2>2, <3>1 DEF ForwardDownToUp, ClientGone
    <3> QED
      BY <1>1, <3>1 DEF GapInv
  <2>3. CASE UNCHANGED vars
    BY <2>3
  <2>4. CASE out' = {}
    BY <2>4
  <2> QED
    BY <1>1, <2>1, <2>2, <2>3, <2>4 DEF Next, LoopStep, Environment,
       WaitToReconnect, ConnectFails, ConnectSucceeds, UpstreamIsUp,
       AcceptIntoSlot, AcceptAndClose, AcceptNothing, NothingFromPrinter,
       SkipSlot, DropClosed, NothingFromClient, EndLoop, WifiChanges,
       PrinterChanges, UpstreamLost, ReconnectTimer, PeerConnects, PeerLeaves
<1>2. Inv /\ GapInv /\ [Next]_vars => GapInv'
  BY GapStep
<1>3. Inv /\ GapInv /\ [Next]_vars => [\A o \in out' : o.slot \notin gaps]_vars
  BY <1>1
<1> QED
  BY <1>2, <1>3, InitGaps, Invariance, PTL DEF Spec, StreamIntact

-----------------------------------------------------------------------------
(***************************************************************************)
(* No connection leaks or is served twice.                                 *)
(***************************************************************************)
SocketInv == SocketsOwned /\ Once(queue)

LEMMA QueuedIsIn == ASSUME NEW p PROVE Queued(p) <=> IsIn(queue, p)
  BY DEF Queued, IsIn

LEMMA InitSockets == Init => SocketInv
<1> SUFFICES ASSUME Init PROVE SocketInv
  OBVIOUS
<1>1. \A p \in Peers : ~open[p] /\ ~Queued(p) /\ ~Held(p)
  BY EmptyQueue, QueuedIsIn DEF Init, Held
<1> QED
  BY <1>1, EmptyQueue DEF Init, SocketInv, SocketsOwned, Held

\* accept() takes the first pending connection.
LEMMA TakenSocket ==
  ASSUME Inv, SocketInv, queue # <<>>, queue' = Tail(queue)
  PROVE  /\ Head(queue) \in Peers /\ Queued(Head(queue))
         /\ Once(queue')
         /\ \A p : Queued(p)' <=> Queued(p) /\ p # Head(queue)
<1>1. queue \in Seq(Peers) /\ Once(queue)
  BY DEF Inv, TypeOK, SocketInv
<1>2. /\ Head(queue) \in Peers /\ IsIn(queue, Head(queue))
      /\ \A p : IsIn(Tail(queue), p) <=> IsIn(queue, p) /\ p # Head(queue)
      /\ Once(Tail(queue))
  BY <1>1, TakeHead
<1> QED
  BY <1>2 DEF Queued, IsIn

LEMMA AcceptSockets ==
  ASSUME Inv, SocketInv, (\E i \in Slots : AcceptIntoSlot(i)) \/ AcceptAndClose
  PROVE  SocketInv'
<1> DEFINE p == Head(queue)
<1> USE DEF Inv, TypeOK, SocketInv, SocketsOwned
<1>1. queue # <<>> /\ queue' = Tail(queue)
  BY DEF AcceptIntoSlot, AcceptAndClose
<1>2. /\ p \in Peers /\ Queued(p) /\ Once(queue')
      /\ \A q : Queued(q)' <=> Queued(q) /\ q # p
  BY <1>1, TakenSocket
<1>3. CASE \E i \in Slots : AcceptIntoSlot(i)
  <2>1. PICK i \in Slots : slot[i] = NoPeer /\ slot' = [slot EXCEPT ![i] = p] /\ open' = open
    BY <1>3 DEF AcceptIntoSlot, IsFirstFree, Active
  <2>2. \A j \in Slots : slot'[j] = IF j = i THEN p ELSE slot[j]
    BY <2>1
  <2>3. \A q \in Peers : Held(q)' <=> Held(q) \/ q = p
    BY <2>1, <2>2 DEF Held
  <2>4. \A q \in Peers : \A j, k \in Slots : slot'[j] = q /\ slot'[k] = q => j = k
    BY <1>2, <2>1, <2>2 DEF Held
  <2> HIDE DEF p
  <2> QED
    BY <1>2, <2>1, <2>3, <2>4
<1>4. CASE AcceptAndClose
  <2>1. open' = [open EXCEPT ![p] = FALSE] /\ slot' = slot
    BY <1>4 DEF AcceptAndClose
  <2>2. \A q \in Peers : Held(q)' <=> Held(q)
    BY <2>1 DEF Held
  <2> HIDE DEF p
  <2> QED
    BY <1>2, <2>1, <2>2
<1> QED
  BY <1>3, <1>4

\* A slot is freed and its connection stopped.
LEMMA ReleaseSocket ==
  ASSUME Inv, SocketInv, NEW i \in Slots, slot[i] \in Peers, Release(i),
         queue' = queue
  PROVE  SocketInv'
<1>1. /\ slot \in [Slots -> Peers \cup {NoPeer}] /\ open \in [Peers -> BOOLEAN]
      /\ NoPeer \notin Peers
  BY DEF Inv, TypeOK
<1>2. /\ open' = [open EXCEPT ![slot[i]] = FALSE]
      /\ \A j \in Slots : slot'[j] = IF j = i THEN NoPeer ELSE slot[j]
  BY <1>1 DEF Release
<1>3. ASSUME NEW q \in Peers
      PROVE  /\ Held(q)' <=> Held(q) /\ q # slot[i]
             /\ \A j, k \in Slots : slot'[j] = q /\ slot'[k] = q => j = k
  <2>1. \A j \in Slots : slot'[j] = q <=> slot[j] = q /\ q # slot[i]
    BY <1>1, <1>2 DEF SocketInv, SocketsOwned
  <2> QED
    BY <2>1 DEF Held, SocketInv, SocketsOwned
<1>4. \A q \in Peers : Queued(q)' <=> Queued(q)
  BY DEF Queued
<1>5. \A q \in Peers : open'[q] => open[q] /\ q # slot[i]
  BY <1>1, <1>2
<1> QED
  BY <1>3, <1>4, <1>5 DEF SocketInv, SocketsOwned

LEMMA CleanupSockets ==
  ASSUME Inv, SocketInv, UpstreamDown, Cleanup PROVE SocketInv'
<1>1. /\ slot' = [i \in Slots |-> NoPeer] /\ queue' = queue
      /\ \A p \in Peers : open'[p] => open[p] /\ ~Held(p)
  <2>1. disconnected => \A i \in Slots : slot[i] = NoPeer
    BY DEF Inv, StaleInv, Active
  <2> QED
    BY <2>1, CleanupInv DEF Cleanup, DisconnectAll, Held
<1>2. \A p \in Peers : ~Held(p)' /\ (Queued(p)' <=> Queued(p))
  BY <1>1 DEF Held, Queued
<1> QED
  BY <1>1, <1>2 DEF SocketInv, SocketsOwned, Held

LEMMA ConnectSocket ==
  ASSUME Inv, SocketInv, NEW p \in Peers, PeerConnects(p) PROVE SocketInv'
<1> USE DEF Inv, TypeOK, SocketInv, SocketsOwned
<1>1. /\ ~Queued(p) /\ ~Held(p)
      /\ queue' = Append(queue, p)
      /\ open' = [open EXCEPT ![p] = TRUE]
      /\ slot' = slot
  BY DEF PeerConnects
<1>2. /\ \A r : IsIn(Append(queue, p), r) <=> IsIn(queue, r) \/ r = p
      /\ Once(Append(queue, p))
  BY <1>1, QueuedIsIn, AddLast
<1>3. \A q \in Peers : (Queued(q)' <=> Queued(q) \/ q = p) /\ (Held(q)' <=> Held(q))
  BY <1>1, <1>2 DEF Queued, IsIn, Held
<1> QED
  BY <1>1, <1>2, <1>3

LEMMA SocketStep ==
  ASSUME Inv, SocketInv, [Next]_vars PROVE SocketInv'
<1>1. ASSUME UNCHANGED <<queue, slot>>, \A p \in Peers : open'[p] => open[p]
      PROVE  SocketInv'
  BY <1>1 DEF SocketInv, SocketsOwned, Queued, Held
<1>2. CASE WaitToReconnect \/ ConnectFails \/ ConnectSucceeds
  BY <1>2, CleanupSockets DEF WaitToReconnect, ConnectFails, ConnectSucceeds
<1>3. CASE (\E i \in Slots : AcceptIntoSlot(i)) \/ AcceptAndClose
  BY <1>3, AcceptSockets
<1>4. CASE DropClosed
  <2>1. /\ Release(visit) /\ visit \in Slots /\ slot[visit] \in Peers
        /\ queue' = queue
    BY <1>4 DEF DropClosed, AtSlot, Active, Inv, TypeOK
  <2> QED
    BY <2>1, ReleaseSocket
<1>5. CASE \E p \in Peers : PeerConnects(p)
  BY <1>5, ConnectSocket
<1>6. CASE \E p \in Peers : PeerLeaves(p)
  BY <1>1, <1>6 DEF PeerLeaves, Inv, TypeOK
<1>7. CASE UNCHANGED vars
  BY <1>1, <1>7 DEF vars, clientVars
<1> QED
  BY <1>1, <1>2, <1>3, <1>4, <1>5, <1>6, <1>7 DEF Next, LoopStep, Environment,
     UpstreamIsUp, AcceptNothing, ForwardUpToDown, NothingFromPrinter, SkipSlot,
     NothingFromClient, ForwardDownToUp, EndLoop, WifiChanges, PrinterChanges,
     UpstreamLost, ReconnectTimer, clientVars

\* Every open connection of a local client is pending or held by exactly one
\* slot.
THEOREM EverySocketOwned == Spec => []SocketsOwned
<1>1. Inv /\ SocketInv /\ [Next]_vars => SocketInv'
  BY SocketStep
<1>2. SocketInv => SocketsOwned
  BY DEF SocketInv
<1> QED
  BY <1>1, <1>2, InitSockets, Invariance, PTL DEF Spec

=============================================================================
