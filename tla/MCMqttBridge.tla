---------------------------- MODULE MCMqttBridge ----------------------------
(***************************************************************************)
(* Small instances of MqttBridge for TLC.                                  *)
(***************************************************************************)
EXTENDS MqttBridge, TLC

CONSTANTS gw, pr, plus, hash, report, status

Named(sn, lf) == [serial |-> sn, leaf |-> lf]

\* Clients that know the printer by the gateway's serial, or by no serial.
OneName == {Named(gw, report), Named(plus, report)}

\* Clients that look for any printer.
AnyName == {Named(plus, report)}

\* Clients that use both names of the printer.
BothNames == {Named(gw, report), Named(pr, report)}

Builtin == {Named(pr, status)}

\* The programs that connect to port 1883 are interchangeable.
Symmetry == Permutations(PlainPeers)

\* The state without the packets that the last step wrote.  No action reads
\* them and each step writes them anew, so states that differ in nothing else
\* have the same steps.
WithoutHistory ==
  <<phase, visit, handler, toSub, toUnsub, wifi, printer, reconnectDue, upVars,
    downVars, rebound, boots>>
=============================================================================
