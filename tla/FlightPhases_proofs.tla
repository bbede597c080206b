------------------------ MODULE FlightPhases_proofs ------------------------
(***************************************************************************)
(* The safety properties of FlightPhases hold for every choice of the      *)
(* thresholds, of the width of the tick and of the bounds.  All of them    *)
(* rest on the inductive invariant IInv: the counter alone says nothing of *)
(* the data that was seen, and the difference of two wrapped ticks nothing *)
(* of the time that passed, until they are tied to the history.            *)
(***************************************************************************)
EXTENDS FlightPhases, TLAPS

(* A wrapped tick is again a tick. *)
LEMMA TickAfterType ==
  ASSUME NEW t \in 0 .. (TickModulus - 1), NEW d \in 0 .. TickModulus
  PROVE  TickAfter(t, d) \in 0 .. (TickModulus - 1)
  BY TickAssumption, SMT DEF TickAssumption, TickAfter

(* No time lies between a reading of the tick and itself. *)
LEMMA TicksBetweenSelf ==
  ASSUME NEW t \in 0 .. (TickModulus - 1)
  PROVE  TicksBetween(t, t) = 0
  BY TickAssumption, SMT DEF TickAssumption, TicksBetween

(* Letting d ticks pass adds d to the wrapped difference, as long as the
   sum is less than one turn of the tick. *)
LEMMA TicksBetweenAdd ==
  ASSUME NEW s \in 0 .. (TickModulus - 1),
         NEW t \in 0 .. (TickModulus - 1),
         NEW d \in 0 .. TickModulus,
         TicksBetween(s, t) + d < TickModulus
  PROVE  TicksBetween(s, TickAfter(t, d)) = TicksBetween(s, t) + d
  BY TickAssumption, SMT DEF TickAssumption, TickAfter, TicksBetween

(* What ChangeStateTo may choose is a phase of the graph. *)
LEMMA TargetIsSuccessor ==
  ASSUME flight_state \in Phase, flight_state # "TOUCHDOWN"
  PROVE  /\ Target \in Successors[flight_state]
         /\ Target \in Phase
         /\ Target # flight_state
  BY DEF Target, Successors, Transitions, Phase

-----------------------------------------------------------------------------
THEOREM InitInvariant == Init => IInv
  BY ThresholdAssumption, TickAssumption, SMT
  DEF Init, IInv, TypeOK, CounterIsStreak, CoastClock, ThresholdAssumption,
      TickAssumption, Resetting, Phase

LEMMA StayInPhaseInvariant == IInv /\ StayInPhase => IInv'
<1> SUFFICES ASSUME IInv, StayInPhase PROVE IInv'
  OBVIOUS
<1> USE DEF IInv
<1>1. Threshold[flight_state] \in Nat
  BY ThresholdAssumption DEF ThresholdAssumption, TypeOK
<1>2. Counted \in 0 .. Threshold[flight_state]
  <2>1. Counted \in Nat
    BY <1>1 DEF TypeOK, Counted
  <2> QED
    BY <1>1, <2>1 DEF StayInPhase, Exceeded
<1>3. flight_state # "COASTING" => streak' = Counted
  BY <1>1 DEF StayInPhase, TypeOK, CounterIsStreak, Counted, Resetting
<1>4. flight_state = "COASTING" => streak' <= Counted
  BY <1>1 DEF StayInPhase, TypeOK, CounterIsStreak, Counted, Resetting
<1>5. streak' \in 0 .. Threshold[flight_state]
  <2>1. streak' \in Nat
    BY <1>1 DEF StayInPhase, TypeOK
  <2> QED
    BY <1>1, <1>2, <1>3, <1>4, <2>1
<1>6. TypeOK'
  BY <1>1, <1>2, <1>5 DEF StayInPhase, TypeOK
<1>7. CounterIsStreak'
  BY <1>3, <1>4 DEF StayInPhase, CounterIsStreak
<1>8. CoastClock'
  BY DEF StayInPhase, CoastClock, TicksBetween
<1> QED
  BY <1>6, <1>7, <1>8

LEMMA ChangeStateToInvariant ==
  ASSUME NEW p \in Phase
  PROVE  IInv /\ ChangeStateTo(p) => IInv'
<1> SUFFICES ASSUME IInv, ChangeStateTo(p) PROVE IInv'
  OBVIOUS
<1> USE DEF IInv
<1>1. Threshold[p] \in Nat
  BY ThresholdAssumption DEF ThresholdAssumption
<1>2. TypeOK'
  BY <1>1, TickAssumption DEF ChangeStateTo, TypeOK, TickAssumption
<1>3. CounterIsStreak'
  BY DEF ChangeStateTo, CounterIsStreak
<1>4. CoastClock'
  <2> SUFFICES ASSUME p = "COASTING" PROVE CoastClock'
    BY DEF ChangeStateTo, CoastClock
  <2>1. flight_state = "THRUSTING"
    BY DEF ChangeStateTo, Target, TypeOK, Phase
  <2>2. thrust_trigger_time' = tick /\ tick' = tick /\ coast_age' = 0
    BY <2>1 DEF ChangeStateTo
  <2>3. TicksBetween(tick, tick) = 0
    BY TicksBetweenSelf DEF TypeOK
  <2>4. 0 <= liftoff_age /\ liftoff_age' = liftoff_age
    BY DEF ChangeStateTo, TypeOK
  <2> QED
    BY <2>2, <2>3, <2>4 DEF CoastClock, TicksBetween
<1> QED
  BY <1>2, <1>3, <1>4

LEMMA PassInvariant ==
  ASSUME NEW d \in 0 .. MaxStepTicks, NEW h \in BOOLEAN
  PROVE  IInv /\ Pass(d, h) => IInv'
<1> SUFFICES ASSUME IInv, Pass(d, h) PROVE IInv'
  OBVIOUS
<1> USE DEF IInv
<1>1. d \in 0 .. TickModulus
  BY TickAssumption DEF TickAssumption
<1>2. TickAfter(tick, d) \in 0 .. (TickModulus - 1)
  BY <1>1, TickAfterType DEF TypeOK
<1>3. CASE flight_state = "COASTING"
  <2>1. coast_age + d <= MaxAscentTicks /\ liftoff_age + d <= MaxAscentTicks
    BY <1>1, <1>3, TickAssumption
    DEF Pass, Ascending, TypeOK, CoastClock, TickAssumption
  <2>2. TicksBetween(thrust_trigger_time, tick) + d < TickModulus
    BY <1>1, <1>3, <2>1, TickAssumption
    DEF TypeOK, CoastClock, TickAssumption
  <2>3. TicksBetween(thrust_trigger_time, TickAfter(tick, d)) = coast_age + d
    BY <1>1, <1>3, <2>2, TicksBetweenAdd DEF TypeOK, CoastClock
  <2>4. coast_age' = coast_age + d /\ liftoff_age' = liftoff_age + d
    BY <1>3 DEF Pass, Ascending
  <2>5. CoastClock'
    <3>1. TicksBetween(thrust_trigger_time, tick)' = coast_age'
      BY <2>3, <2>4 DEF Pass, TicksBetween
    <3> QED
      BY <1>1, <1>3, <2>4, <3>1 DEF CoastClock, TypeOK
  <2>6. TypeOK'
    BY <1>1, <1>2, <2>1, <2>4, TickAssumption
    DEF Pass, TypeOK, TickAssumption
  <2> QED
    BY <2>5, <2>6 DEF Pass, CounterIsStreak
<1>4. CASE flight_state # "COASTING"
  <2>1. coast_age' = coast_age /\ flight_state' # "COASTING"
    BY <1>4 DEF Pass
  <2>2. liftoff_age' \in 0 .. MaxAscentTicks
    BY <1>1, TickAssumption DEF Pass, Ascending, TypeOK, TickAssumption
  <2> QED
    BY <1>2, <2>1, <2>2 DEF Pass, TypeOK, CounterIsStreak, CoastClock
<1> QED
  BY <1>3, <1>4

(* Every step of the flight state machine preserves IInv. *)
THEOREM NextInvariant == IInv /\ [Next]_vars => IInv'
<1> SUFFICES ASSUME IInv, [Next]_vars PROVE IInv'
  OBVIOUS
<1>1. CASE StayInPhase
  BY <1>1, StayInPhaseInvariant
<1>2. ASSUME NEW p \in Phase, ChangeStateTo(p) PROVE IInv'
  BY <1>2, ChangeStateToInvariant
<1>3. ASSUME NEW d \in 0 .. MaxStepTicks, NEW h \in BOOLEAN, Pass(d, h)
      PROVE  IInv'
  BY <1>3, PassInvariant
<1>4. CASE UNCHANGED vars
  BY <1>4 DEF vars, IInv, TypeOK, CounterIsStreak, CoastClock, TicksBetween
<1> QED
  BY <1>1, <1>2, <1>3, <1>4 DEF Next, Iterate

(* The inductive invariant: types and bounds, the counter tied to the data
   seen (check_flight_phase) and the wrapped tick tied to the time that
   passed (check_coasting_phase). *)
THEOREM Invariance == Spec => []IInv
  BY InitInvariant, NextInvariant, PTL DEF Spec

-----------------------------------------------------------------------------
(* Types and bounds of the state machine, for all thresholds and words. *)
THEOREM TypeCorrect == Spec => []TypeOK
<1>1. IInv => TypeOK
  BY DEF IInv
<1> QED
  BY <1>1, Invariance, PTL

(* A phase other than COASTING is left only after an unbroken run of
   iterations in which its condition held (check_flight_phase). *)
THEOREM DebouncedHolds == Spec => Debounced
<1> DEFINE Step ==
      flight_state' # flight_state /\ flight_state # "COASTING" =>
        holds /\ streak >= Threshold[flight_state]
<1>1. IInv /\ [Next]_vars => [Step]_vars
  <2> SUFFICES ASSUME IInv, Next, flight_state' # flight_state,
                      flight_state # "COASTING"
               PROVE  holds /\ streak >= Threshold[flight_state]
    BY DEF vars
  <2>1. PICK p \in Phase : ChangeStateTo(p)
    BY DEF Next, Iterate, StayInPhase, Pass
  <2>2. Threshold[flight_state] \in Nat /\ memory \in Nat /\ memory = streak
    BY ThresholdAssumption
    DEF ThresholdAssumption, IInv, TypeOK, CounterIsStreak
  <2>3. Counted > Threshold[flight_state]
    BY <2>1 DEF ChangeStateTo, Exceeded
  <2>4. flight_state \in Resetting
    BY DEF IInv, TypeOK, Resetting
  <2>5. holds
    BY <2>2, <2>3, <2>4 DEF Counted, IInv, TypeOK
  <2> QED
    BY <2>2, <2>3, <2>5 DEF Counted
<1> QED
  BY <1>1, Invariance, PTL DEF Spec, Debounced

(* A coast shorter than the minimum never deploys the drogue and a longer
   one always does, across a wrap of the tick (check_coasting_phase). *)
THEOREM ApogeeGateHolds == Spec => ApogeeGate
<1> DEFINE Step ==
      flight_state = "COASTING" /\ flight_state' # flight_state =>
        flight_state' = IF coast_age < MinApogeeTicks
                        THEN "TOUCHDOWN" ELSE "DROGUE"
<1>1. IInv /\ [Next]_vars => [Step]_vars
  <2> SUFFICES ASSUME IInv, Next, flight_state = "COASTING",
                      flight_state' # flight_state
               PROVE  flight_state' = IF coast_age < MinApogeeTicks
                                      THEN "TOUCHDOWN" ELSE "DROGUE"
    BY DEF vars
  <2>1. PICK p \in Phase : ChangeStateTo(p)
    BY DEF Next, Iterate, StayInPhase, Pass
  <2>2. TicksBetween(thrust_trigger_time, tick) = coast_age
    BY DEF IInv, CoastClock
  <2> QED
    BY <2>1, <2>2 DEF ChangeStateTo, Target
<1> QED
  BY <1>1, Invariance, PTL DEF Spec, ApogeeGate

(* The state machine implements PhaseOrder: it starts where the abstract
   one starts, and each of its steps is one edge of the graph or leaves
   the phase alone. *)
THEOREM Refinement == Spec => WalksPhaseGraph
<1>1. Init => Order!Init
  BY DEF Init, Order!Init
<1>2. IInv /\ [Next]_vars => [Order!Next]_flight_state
  <2> SUFFICES ASSUME IInv, Next, flight_state' # flight_state
               PROVE  Order!Next
    BY DEF vars
  <2>1. PICK p \in Phase : ChangeStateTo(p)
    BY DEF Next, Iterate, StayInPhase, Pass
  <2> QED
    BY <2>1, TargetIsSuccessor
    DEF ChangeStateTo, IInv, TypeOK, Order!Next, Successors, Transitions,
        Order!Successors, Order!Transitions,
        Phase, Order!Phase
<1> QED
  BY <1>1, <1>2, Invariance, PTL DEF Spec, WalksPhaseGraph, Order!Spec
=============================================================================
