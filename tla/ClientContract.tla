---------------------------- MODULE ClientContract ----------------------------
(***************************************************************************)
(* What QOpcUaClient promises an application about its `state' property,   *)
(* whichever plugin runs underneath: the order in which the values of      *)
(* ClientState follow one another, and that the two transient values do    *)
(* not last.                                                               *)
(***************************************************************************)
VARIABLE state

Init == state = "Disconnected"

Connect == state = "Disconnected" /\ state' = "Connecting"

(* The attempt ends, one way or the other. *)
Resolve == state = "Connecting" /\ state' \in {"Connected", "Disconnected"}

Close == state = "Connected" /\ state' = "Closing"

(* The connection is lost or replaced. *)
Lose == state = "Connected" /\ state' = "Disconnected"

Closed == state = "Closing" /\ state' = "Disconnected"

Next == Connect \/ Resolve \/ Close \/ Lose \/ Closed

Fairness == WF_state(Resolve) /\ WF_state(Closed)

Safety == Init /\ [][Next]_state

Spec == Safety /\ Fairness
=============================================================================
