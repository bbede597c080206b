----------------------------- MODULE PhaseOrder -----------------------------
(***************************************************************************)
(* What the flight state machine promises to the rest of the flight        *)
(* computer: it walks the graph of phases, one edge at a time, and never   *)
(* comes back.  FlightPhases says when it takes an edge, and implements    *)
(* this specification; EventPipeline takes it as the source of events.     *)
(***************************************************************************)
EXTENDS FlightTypes

VARIABLE flight_state

Init == flight_state = "CALIBRATING"

Next == flight_state' \in Successors[flight_state]

Spec == Init /\ [][Next]_flight_state
=============================================================================
