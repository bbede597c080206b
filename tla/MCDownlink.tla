----------------------------- MODULE MCDownlink -----------------------------
(***************************************************************************)
(* Two parts of the downlink on small instances: how the rocket's tasks    *)
(* learn the phase, and with it the telemetry its power, and the quality   *)
(* the receiver reports of the link.  They share nothing; a behaviour      *)
(* exercises one while the other is in an initial state (the first, all    *)
(* tasks released at once).                                                *)
(*                                                                         *)
(* The tasks are the estimator with the period of the state machine and    *)
(* the telemetry task with ten times that.                                 *)
(***************************************************************************)
EXTENDS LinkQuality, PhaseNotice

MCObservers == {"estimation", "telemetry"}

MCPeriod == [o \in MCObservers |-> IF o = "telemetry" THEN 10 * FsmPeriod ELSE FsmPeriod]

MCInit == Init /\ NoticeInit

MCNext == \/ NoticeInit /\ left = Period /\ Next /\ UNCHANGED noticeVars
          \/ Init /\ NoticeNext /\ UNCHANGED vars

MCSpec == MCInit /\ [][MCNext]_<< vars, noticeVars >>
=============================================================================
