----------------------------- MODULE MqttTopics -----------------------------
(***************************************************************************)
(* The topic names the gateway works with, and the rewriting between the   *)
(* two names of the printer.                                               *)
(*                                                                         *)
(* Bambu topics have the form device/<serial>/<leaf>.  Upstream, <serial>  *)
(* is the real printer's serial; the local clients know the printer under  *)
(* the gateway's serial.  A topic or filter is a record of its serial and  *)
(* its leaf; a filter may have the wildcard "+" as serial and "#" as leaf. *)
(* Matching character by character is the subject of a module of its own;  *)
(* here the two names and the rewriting between them are what matters.     *)
(***************************************************************************)

CONSTANTS
  GatewaySerial,   \* GatewayConfig.gatewaySerial
  PrinterSerial,   \* GatewayConfig.printerSerial
  OtherSerials,    \* serials of devices that are neither
  AnySerial,       \* the wildcard "+"
  Leaves,          \* last levels of a topic: report, request, status, ...
  AnyLeaf          \* the wildcard "#"

Serials == {GatewaySerial, PrinterSerial} \cup OtherSerials

ASSUME WildcardsAssumption ==
  /\ AnySerial \notin Serials
  /\ AnyLeaf \notin Leaves
  /\ GatewaySerial \notin OtherSerials
  /\ PrinterSerial \notin OtherSerials

Topics  == [serial : Serials, leaf : Leaves]
Filters == [serial : Serials \cup {AnySerial}, leaf : Leaves \cup {AnyLeaf}]

\* Not a topic: the field of a packet that carries none.
NoTopic == [serial |-> AnySerial, leaf |-> AnyLeaf]

(***************************************************************************)
(* "device/<gateway>..." becomes "device/<printer>..." on its way up and   *)
(* the other way round on its way down, when the two serials differ.       *)
(***************************************************************************)
ToUpstream(f) ==
  IF GatewaySerial # PrinterSerial /\ f.serial = GatewaySerial
  THEN [f EXCEPT !.serial = PrinterSerial]
  ELSE f

ToLocal(t) ==
  IF PrinterSerial # GatewaySerial /\ t.serial = PrinterSerial
  THEN [t EXCEPT !.serial = GatewaySerial]
  ELSE t

Matches(t, f) ==
  /\ f.serial \in {t.serial, AnySerial}
  /\ f.leaf \in {t.leaf, AnyLeaf}
=============================================================================
