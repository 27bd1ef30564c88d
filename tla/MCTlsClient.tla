---------------------------- MODULE MCTlsClient -----------------------------
(***************************************************************************)
(* An instance of TlsClient for TLC: a CONNECT with one byte and another   *)
(* packet with a text of one byte and a payload of two.                    *)
(***************************************************************************)
EXTENDS TlsClient

Byte == [each |-> TRUE, n |-> 1]
Chunk(k) == [each |-> FALSE, n |-> k]

MCPackets ==
  << [reads |-> <<Chunk(1)>>, size |-> 3, connect |-> TRUE],
     [reads |-> <<Byte, Chunk(2)>>, size |-> 5, connect |-> FALSE] >>
=============================================================================
