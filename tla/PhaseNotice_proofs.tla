------------------------- MODULE PhaseNotice_proofs -------------------------
(***************************************************************************)
(* What a task must do to miss a phase, for every set of tasks with any    *)
(* periods, however late they run.                                         *)
(*                                                                         *)
(* The invariant bounds, for a task that has not seen the phase, the time  *)
(* since the phase was entered and what is left to the task's next look    *)
(* together; a step of time raises the one and lowers the other by the     *)
(* same amount.                                                            *)
(***************************************************************************)
EXTENDS PhaseNotice, TLAPS

LEMMA InitInv == NoticeInit => NoticeInv
<1> SUFFICES ASSUME NoticeInit PROVE NoticeInv
  OBVIOUS
<1>1. NoticeTypes
  <2>1. left \in [Observers -> Int]
    <3>1. ASSUME NEW o \in Observers PROVE left[o] \in Int
      BY TaskAssumption DEF NoticeInit
    <3>2. left = [o \in Observers |-> left[o]]
      BY DEF NoticeInit
    <3> QED BY <3>1, <3>2
  <2>2. TypeFsm
    BY TaskAssumption DEF NoticeInit, TypeFsm, Phase
  <2> QED BY <2>1, <2>2 DEF NoticeInit, NoticeTypes, TypeObs
<1>2. ASSUME NEW o \in Observers PROVE left[o] <= Period[o] /\ Due(o)
  <2>1. left[o] \in 1 .. Period[o] /\ Period[o] \in Nat
    BY TaskAssumption DEF NoticeInit
  <2>2. Elapsed = 0 /\ entered = 0 /\ ~ LookedBefore(o)
    BY TaskAssumption DEF NoticeInit, Elapsed, LookedBefore
  <2> QED BY <2>1, <2>2 DEF Due
<1>3. Noticing
  BY <1>2 DEF NoticeInit, Noticing
<1> QED BY <1>1, <1>3 DEF NoticeInv

LEMMA TypesNext == NoticeTypes /\ [NoticeNext]_noticeVars => NoticeTypes'
<1> SUFFICES ASSUME NoticeTypes, [NoticeNext]_noticeVars PROVE NoticeTypes'
  OBVIOUS
<1>1. ASSUME NEW o \in Observers PROVE Seen(o) \in Phase \cup {"INVALID"}
  BY DEF Seen, NoticeTypes, TypeFsm, TypeObs
<1>a. ASSUME NEW o \in Observers, EndIteration(o) PROVE left' \in [Observers -> Int]
  <2>1. left \in [Observers -> Int] /\ left[o] + Period[o] \in Int
    BY TaskAssumption DEF NoticeTypes, TypeObs
  <2> QED BY <1>a, <2>1 DEF EndIteration
<1>2. ASSUME NEW o \in Observers, NEW l \in {"user", "max"}, SendPower(l)
      PROVE  powerLevel' \in {"user", "max"} /\ power' \in {"user", "max"}
             /\ unsent' \in BOOLEAN
  BY <1>2 DEF SendPower, NoticeTypes, TypeObs
<1>3. CASE Tick
  <2>1. left' \in [Observers -> Int] /\ fsmLeft' \in Int
    BY <1>3 DEF Tick, NoticeTypes, TypeFsm, TypeObs
  <2> QED BY <1>3, <2>1 DEF Tick, tele, NoticeTypes, TypeFsm, TypeObs
<1>4. CASE FsmStays
  BY <1>4, TaskAssumption DEF FsmStays, MayLeave, obs, tele, NoticeTypes, TypeFsm, TypeObs
<1>5. CASE FsmClear
  BY <1>5 DEF FsmClear, obs, tele, NoticeTypes, TypeFsm, TypeObs
<1>6. CASE FsmSet
  <2>1. flight_state' \in Phase
    BY <1>6 DEF FsmSet, Successors, NoticeTypes, TypeFsm
  <2> QED
    BY <1>6, <2>1, TaskAssumption DEF FsmSet, obs, tele, NoticeTypes, TypeFsm, TypeObs
<1>7. ASSUME NEW o \in Observers, Look(o) PROVE NoticeTypes'
  <2>1. left' \in [Observers -> Int]
    BY <1>a, <1>7 DEF Look
  <2>2. m_fsm_enum' \in [Observers -> Phase \cup {"INVALID"}]
    BY <1>1, <1>7 DEF Look, GetNewFsmEnum, NoticeTypes, TypeObs
  <2> QED BY <1>7, <2>1, <2>2 DEF Look, fsm, tele, NoticeTypes, TypeFsm, TypeObs
<1>8. CASE Poll
  BY <1>1, <1>8, TaskAssumption
  DEF Poll, GetNewFsmEnum, fsm, NoticeTypes, TypeFsm, TypeObs
<1>9. CASE Switch
  <2>1. /\ powerLevel' \in {"user", "max"} /\ power' \in {"user", "max"}
        /\ unsent' \in BOOLEAN
    BY <1>2, <1>9, TaskAssumption DEF Switch, SwitchPower, NoticeTypes, TypeObs
  <2>2. left' \in [Observers -> Int]
    BY <1>a, <1>9, TaskAssumption DEF Switch
  <2> QED BY <1>9, <2>1, <2>2 DEF Switch, fsm, NoticeTypes, TypeFsm, TypeObs
<1>10. CASE UNCHANGED noticeVars
  BY <1>10 DEF noticeVars, fsm, obs, tele, NoticeTypes, TypeFsm, TypeObs
<1> QED
  BY <1>3, <1>4, <1>5, <1>6, <1>7, <1>8, <1>9, <1>10 DEF NoticeNext

-----------------------------------------------------------------------------
(* The state machine.                                                       *)

LEMMA TickInv == NoticeInv /\ Tick => Noticing'
<1> SUFFICES ASSUME NoticeInv, Tick PROVE Noticing'
  OBVIOUS
<1>1. ASSUME NEW o \in Observers
      PROVE  left'[o] = left[o] - 1 /\ left[o] \in Int /\ Period[o] \in Int
  BY TaskAssumption DEF Tick, NoticeInv, NoticeTypes, TypeObs
<1>2. Elapsed' = Elapsed + 1 /\ Elapsed \in Int /\ entered' = entered /\ entered \in Int
  BY TaskAssumption DEF Tick, NoticeInv, NoticeTypes, TypeFsm, Elapsed
<1>3. ASSUME NEW o \in Observers
      PROVE  /\ Due(o) => Due(o)'
             /\ Acted(o) => Acted(o)'
             /\ left'[o] <= Period[o]
  <2>1. LookedBefore(o)' = LookedBefore(o) /\ Acted(o)' = Acted(o)
    BY DEF Tick, tele, LookedBefore, Acted
  <2> QED BY <1>1, <1>2, <2>1 DEF Due, NoticeInv, Noticing
<1>4. fsm_flag = "none" => fsmLeft' <= 0
  BY DEF Tick, NoticeInv, Noticing, NoticeTypes, TypeFsm
<1>5. looked # "asleep" => left'[Telemetry] <= 0
  BY <1>1, TaskAssumption DEF NoticeInv, Noticing
<1> QED BY <1>3, <1>4, <1>5 DEF Tick, tele, NoticeInv, Noticing

LEMMA FsmStaysInv == NoticeInv /\ FsmStays => Noticing'
<1> SUFFICES ASSUME NoticeInv, FsmStays PROVE Noticing'
  OBVIOUS
<1>1. /\ Elapsed' <= Elapsed /\ Elapsed \in Int /\ Elapsed' \in Int
      /\ entered' = entered /\ entered \in Int
  BY TaskAssumption DEF FsmStays, NoticeInv, NoticeTypes, TypeFsm, Elapsed
<1>2. ASSUME NEW o \in Observers
      PROVE  (Due(o) => Due(o)') /\ Acted(o)' = Acted(o)
  <2>1. left[o] \in Int /\ Period[o] \in Int
    BY TaskAssumption DEF NoticeInv, NoticeTypes, TypeObs
  <2>2. left' = left /\ LookedBefore(o)' = LookedBefore(o) /\ Acted(o)' = Acted(o)
    BY DEF FsmStays, obs, tele, LookedBefore, Acted
  <2> QED BY <1>1, <2>1, <2>2 DEF Due
<1> QED BY <1>2 DEF FsmStays, obs, tele, NoticeInv, Noticing

LEMMA FsmSetInv == NoticeInv /\ FsmSet => Noticing'
<1> SUFFICES ASSUME NoticeInv, FsmSet PROVE Noticing'
  OBVIOUS
<1>1. Elapsed' = entered' /\ entered' \in Int
  BY TaskAssumption DEF FsmSet, NoticeInv, NoticeTypes, TypeFsm, Elapsed
<1>2. ASSUME NEW o \in Observers PROVE Due(o)'
  <2>1. left[o] \in Int /\ Period[o] \in Int /\ left' = left /\ looked' = looked
    BY TaskAssumption DEF FsmSet, obs, tele, NoticeInv, NoticeTypes, TypeObs
  <2>2. left[o] <= Period[o] /\ (LookedBefore(o)' => left[o] <= 0)
    BY <2>1 DEF NoticeInv, Noticing, LookedBefore
  <2> QED BY <1>1, <2>1, <2>2 DEF Due
<1>3. fsm_flag' = flight_state' /\ flight_state' \in Phase
  BY DEF FsmSet, Successors, NoticeInv, NoticeTypes, TypeFsm
<1>4. fsm_flag' # "none"
  BY <1>3 DEF Phase
<1>5. UNCHANGED << left, looked >>
  BY DEF FsmSet, obs, tele
<1> QED BY <1>2, <1>3, <1>4, <1>5 DEF NoticeInv, Noticing

-----------------------------------------------------------------------------
(* The observers.                                                           *)

(* An iteration that ends moves a task's next look by a period.             *)
LEMMA EndsIteration ==
  ASSUME NoticeInv, NEW o \in Observers, EndIteration(o), left[o] <= 0
  PROVE  /\ left'[o] = left[o] + Period[o] /\ left'[o] <= Period[o]
         /\ \A p \in Observers \ {o} : left'[p] = left[p]
<1>1. Period[o] \in Nat /\ left[o] \in Int
  BY TaskAssumption DEF NoticeInv, NoticeTypes, TypeObs
<1> QED BY <1>1 DEF EndIteration, NoticeInv, NoticeTypes, TypeObs

LEMMA LookInv ==
  ASSUME NoticeInv, NEW o \in Observers, Look(o)
  PROVE  Noticing'
<1>1. left[o] <= 0 /\ EndIteration(o) /\ o # Telemetry
  BY DEF Look, GetNewFsmEnum
<1>2. /\ UNCHANGED << tele, fsm >>
      /\ \A p \in Observers \ {o} : m_fsm_enum'[p] = m_fsm_enum[p]
      /\ fsm_flag # "none" => m_fsm_enum'[o] = flight_state
  BY DEF Look, GetNewFsmEnum, Seen, NoticeInv, Noticing, NoticeTypes, TypeObs
<1>3. ASSUME NEW p \in Observers
      PROVE  left'[p] <= Period[p] /\ (fsm_flag # "none" => (Acted(p) \/ Due(p))')
  <2>1. CASE p = o
    BY <1>1, <1>2, <2>1, EndsIteration DEF Acted, fsm
  <2>2. CASE p # o
    <3>1. left'[p] = left[p] /\ m_fsm_enum'[p] = m_fsm_enum[p]
      BY <1>1, <1>2, <2>2, EndsIteration
    <3>2. Acted(p)' = Acted(p) /\ Due(p)' = Due(p)
      BY <1>2, <3>1 DEF Acted, Due, LookedBefore, Elapsed, fsm, tele
    <3> QED BY <3>1, <3>2 DEF NoticeInv, Noticing
  <2> QED BY <2>1, <2>2
<1>4. left'[Telemetry] = left[Telemetry]
  BY <1>1, EndsIteration, TaskAssumption
<1> QED BY <1>2, <1>3, <1>4 DEF fsm, tele, NoticeInv, Noticing

LEMMA PollInv == NoticeInv /\ Poll => Noticing'
<1> SUFFICES ASSUME NoticeInv, Poll PROVE Noticing'
  OBVIOUS
<1>1. /\ left[Telemetry] <= 0 /\ UNCHANGED << left, fsm >>
      /\ \A p \in Observers \ {Telemetry} : m_fsm_enum'[p] = m_fsm_enum[p]
      /\ fsm_flag # "none" => m_fsm_enum'[Telemetry] = flight_state
      /\ Telemetry \in Observers
  BY TaskAssumption
  DEF Poll, GetNewFsmEnum, Seen, NoticeInv, Noticing, NoticeTypes, TypeObs
<1>2. ASSUME NEW p \in Observers, fsm_flag # "none"
      PROVE  (Acted(p) \/ Due(p))'
  <2>1. CASE p # Telemetry
    <3>1. Acted(p)' = Acted(p) /\ Due(p)' = Due(p)
      BY <1>1, <2>1 DEF Acted, Due, LookedBefore, Elapsed, fsm
    <3> QED BY <1>2, <3>1 DEF NoticeInv, Noticing
  <2>2. CASE p = Telemetry /\ Acted(Telemetry)
    <3>1. looked' = "same"
      BY <1>2, <2>2 DEF Poll, Seen, Acted, NoticeInv, Noticing
    <3> QED BY <1>1, <1>2, <2>2, <3>1 DEF Acted, fsm
  <2>3. CASE p = Telemetry /\ ~ Acted(Telemetry)
    <3>1. Due(Telemetry) /\ ~ LookedBefore(Telemetry)
      BY <1>1, <1>2, <2>3 DEF NoticeInv, Noticing, Poll, LookedBefore
    <3>2. ~ LookedBefore(Telemetry)'
      BY <1>1, <1>2 DEF LookedBefore, fsm
    <3> QED BY <1>1, <2>3, <3>1, <3>2 DEF Due, Elapsed, fsm
  <2> QED BY <2>1, <2>2, <2>3
<1> QED BY <1>1, <1>2 DEF fsm, NoticeInv, Noticing

LEMMA SwitchInv == NoticeInv /\ Switch => Noticing'
<1> SUFFICES ASSUME NoticeInv, Switch PROVE Noticing'
  OBVIOUS
<1>1. /\ left[Telemetry] <= 0 /\ EndIteration(Telemetry) /\ Telemetry \in Observers
      /\ UNCHANGED << m_fsm_enum, fsm >> /\ looked # "asleep" /\ looked' = "asleep"
  BY TaskAssumption DEF Switch, NoticeInv, Noticing
<1>2. ASSUME NEW p \in Observers, fsm_flag # "none"
      PROVE  (Acted(p) \/ Due(p))'
  <2>1. CASE p # Telemetry
    <3>1. left'[p] = left[p]
      BY <1>1, <2>1, EndsIteration
    <3>2. Acted(p)' = Acted(p) /\ Due(p)' = Due(p)
      BY <1>1, <2>1, <3>1 DEF Acted, Due, LookedBefore, Elapsed, fsm
    <3> QED BY <1>2, <3>2 DEF NoticeInv, Noticing
  <2>2. CASE p = Telemetry /\ m_fsm_enum[Telemetry] = flight_state
    BY <1>1, <2>2 DEF Acted, fsm
  <2>3. CASE p = Telemetry /\ m_fsm_enum[Telemetry] # flight_state
    <3>1. Elapsed + left[Telemetry] <= entered
      <4>1. ~ Acted(Telemetry) /\ LookedBefore(Telemetry)
        BY <1>1, <2>3 DEF Acted, LookedBefore
      <4>2. entered + 0 = entered
        BY DEF NoticeInv, NoticeTypes, TypeFsm
      <4> QED BY <1>1, <1>2, <4>1, <4>2 DEF Due, NoticeInv, Noticing
    <3>2. left'[Telemetry] = left[Telemetry] + Period[Telemetry]
      BY <1>1, EndsIteration
    <3>3. /\ Elapsed \in Int /\ left[Telemetry] \in Int /\ entered \in Int
          /\ Period[Telemetry] \in Int
      BY <1>1, TaskAssumption DEF NoticeInv, NoticeTypes, TypeFsm, TypeObs, Elapsed
    <3>4. Elapsed + left'[Telemetry] <= entered + Period[Telemetry]
      BY <3>1, <3>2, <3>3
    <3>5. Elapsed' = Elapsed /\ entered' = entered /\ ~ LookedBefore(Telemetry)'
      BY <1>1 DEF Elapsed, fsm, LookedBefore
    <3> QED BY <2>3, <3>4, <3>5 DEF Due
  <2> QED BY <2>1, <2>2, <2>3
<1>3. ASSUME NEW p \in Observers PROVE left'[p] <= Period[p]
  BY <1>1, EndsIteration DEF NoticeInv, Noticing
<1> QED BY <1>1, <1>2, <1>3 DEF fsm, NoticeInv, Noticing

LEMMA NextInv == NoticeInv /\ [NoticeNext]_noticeVars => NoticeInv'
<1> SUFFICES ASSUME NoticeInv, [NoticeNext]_noticeVars PROVE Noticing'
  BY TypesNext DEF NoticeInv
<1>1. CASE FsmClear
  BY <1>1 DEF FsmClear, obs, tele, NoticeInv, Noticing
<1>2. CASE UNCHANGED noticeVars
  BY <1>2 DEF noticeVars, fsm, obs, tele, NoticeInv, Noticing, Acted, Due, LookedBefore, Elapsed
<1> QED
  BY <1>1, <1>2, TickInv, FsmStaysInv, FsmSetInv, LookInv, PollInv, SwitchInv
  DEF NoticeNext

-----------------------------------------------------------------------------
(***************************************************************************)
(* Types: no task takes the empty flags for a phase.                       *)
(***************************************************************************)
THEOREM TypeCorrect == NoticeSpec => []NoticeTypes
<1>1. NoticeInv => NoticeTypes
  BY DEF NoticeInv
<1> QED BY InitInv, NextInv, <1>1, PTL DEF NoticeSpec

(* When a phase may be left, a task that has not seen it, and the telemetry *)
(* task if it has not acted on it, is late.                                 *)
LEMMA ActedOrLate ==
  ASSUME NoticeInv, FsmClear, NEW o \in Observers
  PROVE  Acted(o) \/ TooLate(o)
<1> SUFFICES ASSUME ~ Acted(o) PROVE TooLate(o)
  OBVIOUS
<1>1. /\ MinStay <= Elapsed /\ Elapsed \in Int /\ entered \in Int
      /\ left[o] \in Int /\ Period[o] \in Nat /\ MinStay \in Int
  BY TaskAssumption
  DEF FsmClear, MayLeave, Elapsed, NoticeInv, NoticeTypes, TypeFsm, TypeObs
<1>2. Due(o)
  BY DEF FsmClear, NoticeInv, Noticing
<1>3. Elapsed + left[o] <= entered + Period[o]
  BY <1>1, <1>2 DEF Due
<1> QED BY <1>1, <1>3 DEF TooLate

(***************************************************************************)
(* A task misses a phase only if it is late by as much as the shortest     *)
(* stay exceeds its period, less what the state machine was late when it   *)
(* entered the phase.                                                      *)
(***************************************************************************)
THEOREM NoTaskMissesAPhase == NoticeSpec => NoPhaseMissed
<1>1. ASSUME NoticeInv, [NoticeNext]_noticeVars, fsm_flag # "none", fsm_flag' # fsm_flag
      PROVE  \A o \in Observers : m_fsm_enum[o] = flight_state \/ TooLate(o)
  <2>1. FsmClear
    BY <1>1 DEF NoticeNext, Tick, FsmStays, FsmSet, Look, Poll, Switch, fsm, noticeVars
  <2> QED BY <1>1, <2>1, ActedOrLate DEF Acted
<1>2. NoticeInv /\ [NoticeNext]_noticeVars =>
        [ fsm_flag # "none" /\ fsm_flag' # fsm_flag =>
            \A o \in Observers : m_fsm_enum[o] = flight_state \/ TooLate(o) ]_noticeVars
  BY <1>1
<1> QED BY InitInv, NextInv, <1>2, PTL DEF NoticeSpec, NoPhaseMissed

-----------------------------------------------------------------------------
(* The power is raised when the telemetry task has acted on THRUSTING, at   *)
(* the latest when that phase ends, and lowered after the last phase only.  *)
ThrustEnded ==
  \/ flight_state \in {"COASTING", "DROGUE", "MAIN"}
  \/ flight_state = "THRUSTING" /\ fsm_flag = "none"

PowerInv ==
  /\ m_fsm_enum[Telemetry] = "THRUSTING" /\ looked # "new" => power = "max" \/ unsent
  /\ m_fsm_enum[Telemetry] = "TOUCHDOWN" => flight_state = "TOUCHDOWN"
  /\ ThrustEnded => power = "max" \/ behind \/ unsent

LEMMA InitPower == NoticeInit => PowerInv
BY TaskAssumption DEF NoticeInit, PowerInv, ThrustEnded

LEMMA SwitchRaises ==
  ASSUME NoticeInv, PowerInv, Switch
  PROVE  PowerInv'
<1>1. /\ UNCHANGED << m_fsm_enum, fsm, behind >> /\ looked' = "asleep"
      /\ looked \in {"same", "new"}
  BY DEF Switch, NoticeInv, NoticeTypes, TypeObs
<1>2. CASE UNCHANGED << power, unsent >> /\ m_fsm_enum[Telemetry] # "THRUSTING"
  BY <1>1, <1>2 DEF PowerInv, ThrustEnded, fsm
<1>3. CASE UNCHANGED << power, unsent >> /\ looked = "same"
  BY <1>1, <1>3 DEF PowerInv, ThrustEnded, fsm
<1>4. CASE m_fsm_enum[Telemetry] = "THRUSTING" /\ SendPower("max")
  <2>1. power' = "max" \/ unsent'
    BY <1>4 DEF SendPower, NoticeInv, NoticeTypes, TypeObs
  <2> QED BY <1>1, <1>4, <2>1 DEF PowerInv, ThrustEnded, fsm
<1>5. CASE m_fsm_enum[Telemetry] = "TOUCHDOWN"
  BY <1>1, <1>5 DEF PowerInv, ThrustEnded, fsm
<1> QED BY <1>1, <1>2, <1>3, <1>4, <1>5 DEF Switch, SwitchPower

LEMMA NextPower == NoticeInv /\ PowerInv /\ [NoticeNext]_noticeVars => PowerInv'
<1> SUFFICES ASSUME NoticeInv, PowerInv, [NoticeNext]_noticeVars PROVE PowerInv'
  OBVIOUS
<1>1. CASE FsmClear
  <2>1. ASSUME flight_state = "THRUSTING" PROVE power = "max" \/ behind' \/ unsent
    <3>1. Acted(Telemetry) \/ TooLate(Telemetry)
      BY <1>1, ActedOrLate, TaskAssumption
    <3> QED BY <1>1, <2>1, <3>1 DEF FsmClear, Acted, PowerInv
  <2>2. behind => behind'
    BY <1>1 DEF FsmClear
  <2> QED BY <1>1, <2>1, <2>2 DEF FsmClear, obs, tele, PowerInv, ThrustEnded
<1>2. CASE FsmSet
  <2>1. flight_state # "TOUCHDOWN"
    BY <1>2 DEF FsmSet, Successors, Transitions, Phase
  <2>2. ThrustEnded' => ThrustEnded
    BY <1>2 DEF FsmSet, Successors, Transitions, Phase, ThrustEnded, NoticeInv,
                NoticeTypes, TypeFsm
  <2> QED BY <1>2, <2>1, <2>2 DEF FsmSet, obs, tele, PowerInv
<1>3. CASE Poll
  <2>1. /\ UNCHANGED << power, unsent, behind, flight_state, fsm_flag >>
        /\ m_fsm_enum'[Telemetry] = Seen(Telemetry)
        /\ looked' # "new" => looked # "new" /\ m_fsm_enum'[Telemetry] = m_fsm_enum[Telemetry]
    BY <1>3, TaskAssumption
    DEF Poll, GetNewFsmEnum, fsm, NoticeInv, NoticeTypes, TypeObs
  <2>2. m_fsm_enum'[Telemetry] = "TOUCHDOWN" => flight_state = "TOUCHDOWN"
    BY <2>1 DEF Seen, PowerInv, NoticeInv, Noticing
  <2> QED BY <2>1, <2>2 DEF PowerInv, ThrustEnded
<1>4. CASE Switch
  BY <1>4, SwitchRaises
<1>5. CASE /\ UNCHANGED << flight_state, fsm_flag, power, unsent, behind, looked >>
           /\ m_fsm_enum'[Telemetry] = m_fsm_enum[Telemetry]
  BY <1>5 DEF PowerInv, ThrustEnded
<1>6. ASSUME NEW o \in Observers, Look(o)
      PROVE  m_fsm_enum'[Telemetry] = m_fsm_enum[Telemetry]
  BY <1>6, TaskAssumption DEF Look, GetNewFsmEnum, NoticeInv, NoticeTypes, TypeObs
<1>7. \/ FsmClear \/ FsmSet \/ Poll \/ Switch
      \/ /\ UNCHANGED << flight_state, fsm_flag, power, unsent, behind, looked >>
         /\ m_fsm_enum'[Telemetry] = m_fsm_enum[Telemetry]
  BY <1>6 DEF NoticeNext, Tick, FsmStays, Look, fsm, obs, tele, noticeVars
<1> QED BY <1>1, <1>2, <1>3, <1>4, <1>5, <1>7

(***************************************************************************)
(* The rocket sends with full power from the end of the thrust to the      *)
(* touchdown, unless the telemetry task was late when the thrust ended or  *)
(* a transmit of the power timed out.                                      *)
(***************************************************************************)
THEOREM BoostedUnlessLate == NoticeSpec => []BoostedInFlight
<1>1. PowerInv => BoostedInFlight
  BY DEF PowerInv, ThrustEnded, BoostedInFlight
<1> QED BY InitInv, NextInv, InitPower, NextPower, <1>1, PTL DEF NoticeSpec
=============================================================================
