---------------------------- MODULE ByteChannel -----------------------------
(***************************************************************************)
(* What both ends of a connection rely on: what one end has received is    *)
(* what the other has sent, from the beginning, in order and without a     *)
(* hole.  The units, bytes or messages, are numbers.                       *)
(***************************************************************************)
EXTENDS Naturals, Sequences

VARIABLES
  sent,            \* the units that have been sent
  received         \* the units that have been received

vars == <<sent, received>>

FirstOf(s, n) == SubSeq(s, 1, n)

Init == sent = <<>> /\ received = <<>>

Send == /\ Len(sent') > Len(sent) /\ FirstOf(sent', Len(sent)) = sent
        /\ UNCHANGED received

Receive == /\ \E n \in Len(received)..Len(sent) : received' = FirstOf(sent, n)
           /\ UNCHANGED sent

Next == Send \/ Receive

Spec == Init /\ [][Next]_vars
=============================================================================
