--------------------------- MODULE MCFlightPhases ---------------------------
(***************************************************************************)
(* FlightPhases for TLC: thresholds of one or two iterations, a clock that *)
(* wraps several times in a flight.                                        *)
(***************************************************************************)
EXTENDS FlightPhases

MCThreshold ==
  [ p \in Phase |-> CASE p \in {"COASTING", "DROGUE"} -> 2 [] OTHER -> 1 ]
=============================================================================
