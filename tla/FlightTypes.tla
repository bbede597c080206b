----------------------------- MODULE FlightTypes ----------------------------
(***************************************************************************)
(* The enumerations of the flight computer that several modules share, and *)
(* the graph of flight phases.                                             *)
(***************************************************************************)

(* flight_fsm_e, without INVALID, which the state machine never enters. *)
Phase == { "CALIBRATING", "READY", "THRUSTING", "COASTING",
           "DROGUE", "MAIN", "TOUCHDOWN" }

(* cats_event_e. *)
Event == { "EV_CALIBRATE", "EV_READY", "EV_LIFTOFF", "EV_MAX_V", "EV_APOGEE",
           "EV_MAIN_DEPLOYMENT", "EV_TOUCHDOWN", "EV_CUSTOM_1", "EV_CUSTOM_2" }

CustomEvents == { "EV_CUSTOM_1", "EV_CUSTOM_2" }

(* The event that announces the entry into a phase. *)
EntryEvent ==
  [ p \in Phase |->
      CASE p = "CALIBRATING" -> "EV_CALIBRATE"
        [] p = "READY"       -> "EV_READY"
        [] p = "THRUSTING"   -> "EV_LIFTOFF"
        [] p = "COASTING"    -> "EV_MAX_V"
        [] p = "DROGUE"      -> "EV_APOGEE"
        [] p = "MAIN"        -> "EV_MAIN_DEPLOYMENT"
        [] p = "TOUCHDOWN"   -> "EV_TOUCHDOWN" ]

(* What one iteration of check_flight_phase can do to the phase.            *)
Transitions ==
  { << "CALIBRATING", "READY" >>, << "READY", "THRUSTING" >>,
    << "THRUSTING", "COASTING" >>, << "COASTING", "DROGUE" >>,
    << "COASTING", "TOUCHDOWN" >>, << "DROGUE", "MAIN" >>, << "MAIN", "TOUCHDOWN" >> }

Successors == [ p \in Phase |-> { q \in Phase : << p, q >> \in Transitions } ]
=============================================================================
