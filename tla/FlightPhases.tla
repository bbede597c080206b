---------------------------- MODULE FlightPhases ----------------------------
(***************************************************************************)
(* The flight state machine of the flight computer: check_flight_phase and *)
(* the periodic loop of FlightFsm::Run around it.                          *)
(*                                                                         *)
(* Every phase waits for a condition on the sensor data or on the state    *)
(* estimate, and counts the iterations in which the condition holds: the   *)
(* vehicle is still (CALIBRATING), its acceleration exceeds the liftoff    *)
(* threshold (READY) or is negative (THRUSTING), its velocity is negative  *)
(* (COASTING), its height is below the main altitude (DROGUE), its         *)
(* velocity is small (MAIN).  The data are abstracted to the one Boolean   *)
(* `holds', the verdict of the current phase's condition on the latest     *)
(* data; preprocessing and state estimation change it at any time.         *)
(*                                                                         *)
(* `streak', `liftoff_age' and `coast_age' are history variables: the code *)
(* does not have them.                                                     *)
(***************************************************************************)
EXTENDS Naturals, FlightTypes

CONSTANTS
  Threshold,       (* Per phase, the safety counter that must be exceeded.   *)
  TickModulus,     (* The kernel tick is counted modulo this (2^32).         *)
  MinApogeeTicks,  (* MIN_TICK_COUNTS_BETWEEN_THRUSTING_APOGEE.              *)
  MaxStepTicks,    (* Bound: ticks that pass in one step.                    *)
  MaxAscentTicks   (* Bound: ticks from liftoff to the end of the coast.     *)

ASSUME ThresholdAssumption == Threshold \in [Phase -> Nat]

ASSUME TickAssumption ==
  /\ TickModulus    \in Nat \ {0}
  /\ MinApogeeTicks \in Nat
  /\ MaxStepTicks   \in 0 .. TickModulus
  /\ MaxAscentTicks \in 0 .. (TickModulus - 1)

VARIABLES
  flight_state,         (* flight_fsm_t.flight_state.                        *)
  memory,               (* flight_fsm_t.memory: the counter of the phase.    *)
  thrust_trigger_time,  (* flight_fsm_t.thrust_trigger_time.                 *)
  tick,                 (* osKernelGetTickCount(), a word that wraps.        *)
  holds,                (* Does the phase's condition hold for the data?     *)
  streak,               (* History: iterations in a row in which it held.    *)
  liftoff_age,          (* History: ticks since THRUSTING was entered.       *)
  coast_age             (* History: ticks since COASTING was entered.        *)

vars == << flight_state, memory, thrust_trigger_time, tick, holds,
           streak, liftoff_age, coast_age >>

(***************************************************************************)
(* Machine-word arithmetic on ticks: addition and subtraction modulo       *)
(* TickModulus, for operands below it.                                     *)
(***************************************************************************)

TickAfter(t, d) == IF t + d < TickModulus THEN t + d ELSE t + d - TickModulus

TicksBetween_NoWrap(from, to) == IF from <= to THEN to - from ELSE 0

TicksBetween(from, to) == IF from <= to THEN to - from
                                        ELSE to + TickModulus - from

(***************************************************************************)
(* Counting.                                                               *)
(***************************************************************************)

Resetting_DrogueToo == Phase \ {"COASTING", "DROGUE"}

(* The phases that clear their counter when the condition fails.  The check
   of COASTING has no such branch: it counts cumulatively. *)
Resetting == Phase \ {"COASTING"}

(* The counter after the current iteration has looked at the data. *)
Counted ==
  CASE holds                                -> memory + 1
    [] ~holds /\ flight_state \in Resetting -> 0
    [] OTHER                                -> memory

Exceeded == Counted > Threshold[flight_state]

Target_SkipMain ==
  CASE flight_state = "CALIBRATING" -> "READY"
    [] flight_state = "READY"       -> "THRUSTING"
    [] flight_state = "THRUSTING"   -> "COASTING"
    [] flight_state = "COASTING"    -> "DROGUE"
    [] OTHER                        -> "TOUCHDOWN"

Target_MainIsDrogue ==
  CASE flight_state = "CALIBRATING" -> "READY"
    [] flight_state = "READY"       -> "THRUSTING"
    [] flight_state = "THRUSTING"   -> "COASTING"
    [] flight_state \in {"COASTING", "DROGUE"} -> "DROGUE"
    [] OTHER                        -> "TOUCHDOWN"

(* The phase that follows.  A coast that ends too early after the end of
   thrust is taken for a false liftoff. *)
Target ==
  CASE flight_state = "CALIBRATING" -> "READY"
    [] flight_state = "READY"       -> "THRUSTING"
    [] flight_state = "THRUSTING"   -> "COASTING"
    [] flight_state = "COASTING"    ->
         IF TicksBetween(thrust_trigger_time, tick) < MinApogeeTicks
         THEN "TOUCHDOWN" ELSE "DROGUE"
    [] flight_state = "DROGUE"      -> "MAIN"
    [] OTHER                        -> "TOUCHDOWN"

-----------------------------------------------------------------------------
Init ==
  /\ flight_state        = "CALIBRATING"
  /\ memory              = 0
  /\ thrust_trigger_time = 0
  /\ tick                = 0
  /\ holds               \in BOOLEAN
  /\ streak              = 0
  /\ liftoff_age         = 0
  /\ coast_age           = 0

(* An iteration of check_flight_phase that stays in its phase. *)
StayInPhase ==
  /\ flight_state # "TOUCHDOWN"
  /\ ~Exceeded
  /\ memory' = Counted
  /\ streak' = IF holds THEN streak + 1 ELSE 0
  /\ UNCHANGED << flight_state, thrust_trigger_time, tick, holds,
                  liftoff_age, coast_age >>

(* An iteration that ends in change_state_to.  The condition of the new
   phase has not been looked at: it may hold or not. *)
ChangeStateTo(p) ==
  /\ flight_state # "TOUCHDOWN"
  /\ Exceeded
  /\ p = Target
  /\ flight_state' = p
  /\ thrust_trigger_time' =
       IF flight_state = "THRUSTING" THEN tick ELSE thrust_trigger_time
  /\ memory'      = 0
  /\ holds'       \in BOOLEAN
  /\ streak'      = 0
  /\ liftoff_age' = IF p = "THRUSTING" THEN 0 ELSE liftoff_age
  /\ coast_age'   = IF p = "COASTING"  THEN 0 ELSE coast_age
  /\ UNCHANGED tick

Iterate == StayInPhase \/ \E p \in Phase : ChangeStateTo(p)

Ascending == flight_state \in {"THRUSTING", "COASTING"}

(* Between two iterations d ticks pass and the data may change.  The loop
   aims at one iteration every 10 ticks; a late task catches up without a
   pause, so d is bounded on neither side by the code. *)
Pass(d, h) ==
  /\ Ascending => liftoff_age + d <= MaxAscentTicks
  /\ tick'        = TickAfter(tick, d)
  /\ holds'       = h
  /\ liftoff_age' = IF Ascending THEN liftoff_age + d ELSE liftoff_age
  /\ coast_age'   = IF flight_state = "COASTING" THEN coast_age + d ELSE coast_age
  /\ UNCHANGED << flight_state, memory, thrust_trigger_time, streak >>

Next ==
  \/ Iterate
  \/ \E d \in 0 .. MaxStepTicks, h \in BOOLEAN : Pass(d, h)

Spec == Init /\ [][Next]_vars

(* The loop never blocks on anything but its own period. *)
FairSpec == Spec /\ WF_vars(Iterate)

-----------------------------------------------------------------------------
(***************************************************************************)
(* Properties.                                                             *)
(***************************************************************************)

(* Every variable has its type; the counters and ages stay within bounds.
   In particular the tick stays a machine word and no counter outgrows the
   threshold of its phase (check_flight_phase, osKernelGetTickCount). *)
TypeOK ==
  /\ flight_state        \in Phase
  /\ memory              \in 0 .. Threshold[flight_state]
  /\ thrust_trigger_time \in 0 .. (TickModulus - 1)
  /\ tick                \in 0 .. (TickModulus - 1)
  /\ holds               \in BOOLEAN
  /\ streak              \in 0 .. Threshold[flight_state]
  /\ liftoff_age         \in 0 .. MaxAscentTicks
  /\ coast_age           \in 0 .. MaxAscentTicks

(* The counters are worth what their names promise: in every phase but
   COASTING the counter is the length of the current run of iterations in
   which the condition held, whatever happened in the phases before. *)
CounterIsStreak ==
  /\ flight_state # "COASTING" => memory = streak
  /\ flight_state = "COASTING" => streak <= memory

(* The ages agree with the clock: while coasting, the wrapped difference
   that check_coasting_phase computes is the time spent coasting. *)
CoastClock ==
  flight_state = "COASTING" =>
    /\ TicksBetween(thrust_trigger_time, tick) = coast_age
    /\ coast_age <= liftoff_age

IInv == TypeOK /\ CounterIsStreak /\ CoastClock

(* A phase other than COASTING is left only when its condition held in
   more iterations in a row than the threshold says, the current one
   included: one glitch starts the count anew (check_flight_phase). *)
Debounced ==
  [][ flight_state' # flight_state /\ flight_state # "COASTING" =>
        /\ holds
        /\ streak >= Threshold[flight_state] ]_vars

(* The drogue is deployed only after a coast of at least MinApogeeTicks,
   and a coast is written off as a false liftoff only when it was shorter,
   also when the kernel tick wraps in between (check_coasting_phase).  This
   is the gate of the code, which measures from the end of thrust; the one
   of the manual is SafeguardFromLiftoff below. *)
ApogeeGate ==
  [][ flight_state = "COASTING" /\ flight_state' # flight_state =>
        flight_state' = IF coast_age < MinApogeeTicks
                        THEN "TOUCHDOWN" ELSE "DROGUE" ]_vars

(* The state machine implements its abstract specification. *)
Order == INSTANCE PhaseOrder WITH flight_state <- flight_state

WalksPhaseGraph == Order!Spec

(* If from some time on the condition of a phase holds whenever the phase
   is current, the state machine does not stay in it: no phase can swallow
   a flight whose data keep asking for the next one (FlightFsm::Run). *)
PersistentConditionLeaves ==
  \A p \in Phase \ {"TOUCHDOWN"} :
    <>[](flight_state = p => holds) => []<>(flight_state # p)

-----------------------------------------------------------------------------
(***************************************************************************)
(* What the manual says and the code does not do.                          *)
(***************************************************************************)

(* The user manual: "A software safeguard checks the time between liftoff
   and apogee.  If that time is smaller than 1.5 seconds, the flight
   computer assumes a faulty liftoff detection".  Here: a flight is dropped
   at apogee only if its liftoff was less than MinApogeeTicks ago. *)
SafeguardFromLiftoff ==
  [][ flight_state = "COASTING" /\ flight_state' = "TOUCHDOWN" =>
        liftoff_age < MinApogeeTicks ]_vars
=============================================================================
