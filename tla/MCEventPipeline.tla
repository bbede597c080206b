-------------------------- MODULE MCEventPipeline --------------------------
(***************************************************************************)
(* EventPipeline for TLC.  The timers are those of the user manual: one    *)
(* from liftoff as a backup of the apogee detection, one from apogee to a  *)
(* custom event for a payload, and one that runs on the pad; a .cfg says   *)
(* which of them are configured.  Pyro channels fire at apogee and main    *)
(* deployment.                                                             *)
(***************************************************************************)
EXTENDS EventPipeline

CONSTANTS backup, payload, pad

MCTimerInit ==
  [ t \in Timer |-> CASE t = backup  -> "EV_LIFTOFF"
                      [] t = payload -> "EV_APOGEE"
                      [] t = pad     -> "EV_READY" ]

MCTimerExec ==
  [ t \in Timer |-> CASE t = backup  -> "EV_APOGEE"
                      [] t = payload -> "EV_CUSTOM_1"
                      [] t = pad     -> "EV_CUSTOM_2" ]

MCActions ==
  [ e \in Event |->
      CASE e = "EV_APOGEE"          -> << "high", "low" >>
        [] e = "EV_MAIN_DEPLOYMENT" -> << "high" >>
        [] e = "EV_TOUCHDOWN"       -> << "low" >>
        [] e = "EV_CUSTOM_2"        -> << "other" >>
        [] OTHER                    -> << >> ]

(* The ground station arms and throws apogee; it clears the event and disarms.
   The first packet only arms when the event has not been cleared. *)
MCPackets ==
  { [ enable |-> TRUE,  event |-> "EV_APOGEE" ],
    [ enable |-> FALSE, event |-> "EV_CALIBRATE" ] }

MCGroundEvents == {"EV_CALIBRATE", "EV_READY", "EV_CUSTOM_2"}
=============================================================================
