--------------------------- MODULE MonitoringPromise ---------------------------
(***************************************************************************)
(* What the monitoring worker promises: a trouble (an operator on a        *)
(* network) is put on file once, incident and alert together, and is       *)
(* announced to connected users at most once, only when it is on file.     *)
(***************************************************************************)
EXTENDS Naturals

CONSTANT Troubles

VARIABLES
  incidents, alerts,   \* how often each trouble is on file
  announced            \* and how often it went out

vars == <<incidents, alerts, announced>>

Init ==
  /\ incidents = [k \in Troubles |-> 0]
  /\ alerts = [k \in Troubles |-> 0]
  /\ announced = [k \in Troubles |-> 0]

File(k) ==
  /\ incidents[k] = 0
  /\ incidents' = [incidents EXCEPT ![k] = 1]
  /\ alerts' = [alerts EXCEPT ![k] = 1]
  /\ UNCHANGED announced

Announce(k) ==
  /\ incidents[k] = 1
  /\ announced[k] = 0
  /\ announced' = [announced EXCEPT ![k] = 1]
  /\ UNCHANGED <<incidents, alerts>>

Next == \E k \in Troubles : File(k) \/ Announce(k)

Spec == Init /\ [][Next]_vars
=============================================================================
