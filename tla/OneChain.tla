------------------------------ MODULE OneChain ------------------------------
(***************************************************************************)
(* What a program of the network that has imported the gateway's CA relies *)
(* on: there is one certificate chain, chosen once, and whatever the       *)
(* gateway presents is that chain.  It may present nothing for a while.    *)
(***************************************************************************)
CONSTANTS
  Chains,          \* the certificate chains there can be
  NoChain          \* no chain: not in Chains

VARIABLES
  chain,           \* the chain of this device
  shown            \* the chain it presents now

vars == <<chain, shown>>

Init == chain = NoChain /\ shown = NoChain

\* The chain is chosen, once, and is presented.
Choose == /\ chain = NoChain
          /\ chain' \in Chains
          /\ shown' = chain'

\* The chain is presented again.
Show == chain # NoChain /\ shown' = chain /\ UNCHANGED chain

\* Nothing is presented.
Hide == shown' = NoChain /\ UNCHANGED chain

Next == Choose \/ Show \/ Hide

Spec == Init /\ [][Next]_vars
=============================================================================
