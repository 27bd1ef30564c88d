---------------------------- MODULE SharedSession ----------------------------
(***************************************************************************)
(* What the programs of the local network rely on when they share one      *)
(* session with the printer: each of them gets the reports it asked for    *)
(* and no others, as if the session were its own, whatever the others ask  *)
(* for, give up, or leave behind.  Filters are names here; what a filter   *)
(* means to the printer is a constant.                                     *)
(***************************************************************************)
CONSTANTS
  Clients,         \* the places of the local clients
  Names,           \* the filters they may use
  Selected         \* the reports the printer has for each filter

VARIABLES
  linked,          \* there is a session with the printer
  covered,         \* the filters that session has
  wants,           \* the filters each client asked for and did not give up
  got              \* the reports just delivered, each with its client

vars == <<linked, covered, wants, got>>

Init == /\ linked = FALSE /\ covered = {}
        /\ wants = [i \in Clients |-> {}]
        /\ got = {}

Askers(f) == {i \in Clients : f \in wants[i]}

\* A new session covers what is wanted; it may cover more.
Connect == /\ ~linked /\ linked'
           /\ covered' \subseteq Names
           /\ \A f \in Names : Askers(f) # {} => f \in covered'
           /\ got' = {}
           /\ UNCHANGED wants

\* The session ends, with all its filters; the clients' wishes stay.
Lose == linked /\ ~linked' /\ covered' = {} /\ got' = {} /\ UNCHANGED wants

Ask(i, f) == /\ wants' = [wants EXCEPT ![i] = @ \cup {f}]
             /\ covered' = IF linked THEN covered \cup {f} ELSE covered
             /\ got' = {}
             /\ UNCHANGED linked

\* A filter is given up for good only with the last client that wants it.
GiveUp(i, f) == /\ wants' = [wants EXCEPT ![i] = @ \ {f}]
                /\ covered' = IF Askers(f) \subseteq {i} THEN covered \ {f} ELSE covered
                /\ got' = {}
                /\ UNCHANGED linked

\* A client goes; what the session has for it may stay.
Leave(i) == wants' = [wants EXCEPT ![i] = {}] /\ got' = {} /\ UNCHANGED <<linked, covered>>

\* A report of the printer that the session has a filter for goes to those
\* that want it, and to them alone.
Report(r) == /\ linked /\ \E f \in covered : r \in Selected[f]
             /\ got' = {i \in Clients : \E f \in wants[i] : r \in Selected[f]} \X {r}
             /\ UNCHANGED <<linked, covered, wants>>

\* Everything begins anew.
Restart == /\ ~linked' /\ covered' = {}
           /\ wants' = [i \in Clients |-> {}]
           /\ got' = {}

\* Something else happens.
Quiet == got' = {} /\ linked' = linked /\ covered' = covered /\ wants' = wants

Next == \/ Quiet \/ Connect \/ Lose \/ Restart
        \/ \E i \in Clients : Leave(i) \/ \E f \in Names : Ask(i, f) \/ GiveUp(i, f)
        \/ \E r \in UNION {Selected[f] : f \in Names} : Report(r)

Spec == Init /\ [][Next]_vars
=============================================================================
