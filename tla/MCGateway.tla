----------------------------- MODULE MCGateway ------------------------------
(***************************************************************************)
(* Instances of Gateway for TLC.                                           *)
(***************************************************************************)
EXTENDS Gateway

CONSTANTS good, bad, none, home

MCHosts == {good, bad, none}
MCValid == {good}
MCSsids == {home, none}
Same == [x \in MCHosts \cup MCSsids |-> x]
=============================================================================
