---------------------------- MODULE PhaseNotice ----------------------------
(***************************************************************************)
(* How the tasks of the flight computer learn the flight phase.            *)
(*                                                                         *)
(* The task FlightFsm runs every FsmPeriod and keeps the phase in an event *)
(* flag group, as a number, which change_state_to clears and sets again.   *)
(* The other tasks look at it at the beginning of each of their own        *)
(* iterations (GetNewFsmEnum) and act on a phase when they see it for the  *)
(* first time.  Nothing is queued: a phase that comes and goes between two *)
(* looks is never seen.  The telemetry task, ten times slower than the     *)
(* state machine, looks, sends its packet, reads what has come in, and     *)
(* only then switches to full power if it has seen THRUSTING, with two     *)
(* transmits that may time out and are not repeated.                       *)
(*                                                                         *)
(* Iterations are released every so many ticks (osDelayUntil).  How late a *)
(* released task runs, and how long it takes, is up to the scheduler and   *)
(* left open; a task that is late by more than a period makes up for it.   *)
(* A phase lasts at least MinStay ticks, from the release of one iteration *)
(* of the state machine to that of another: the safety counters of module  *)
(* FlightPhases demand so many iterations.                                 *)
(***************************************************************************)
EXTENDS Integers, FlightTypes

CONSTANTS
  Observers,   (* The tasks that look at the phase.                          *)
  Telemetry,   (* The one that adapts the power.                             *)
  FsmPeriod,   (* Ticks between two iterations of FlightFsm.                 *)
  Period,      (* Ticks between two iterations of each observer.             *)
  MinStay,     (* Ticks a phase lasts at least.                              *)
  MaxLate      (* Bound: no iteration is later than this.                    *)

ASSUME TaskAssumption ==
  /\ Telemetry \in Observers
  /\ FsmPeriod \in Nat \ {0} /\ MinStay \in Nat /\ MaxLate \in Nat
  /\ Period \in [Observers -> Nat \ {0}]

VARIABLES
  flight_state,   (* The phase of the state machine.                         *)
  fsm_flag,       (* The event flags: a phase, or none between clear and set.*)
  fsmLeft,        (* Ticks to the release of FlightFsm's next iteration, or  *)
                  (* of the one under way; negative: since then.             *)
  stay,           (* Ticks from the release of the iteration that entered    *)
                  (* the phase to that of the last one; not counted on when  *)
                  (* the phase may be left.                                  *)
  entered,        (* How long after its release that iteration entered it.   *)
  left,           (* As fsmLeft, for each observer.                          *)
  m_fsm_enum,     (* The phase each observer has seen last.                  *)
  looked,         (* Where the telemetry task is: asleep, or same or new:    *)
                  (* it has looked (fsm_updated) and goes on.                *)
  powerLevel,     (* Of the telemetry MCU: the level to set next, ...        *)
  power,          (* ... and the one that is set.                            *)
  unsent,         (* History: a transmit of the power has timed out.         *)
  behind          (* History: the telemetry task was late when THRUSTING     *)
                  (* ended.                                                  *)

fsm  == << flight_state, fsm_flag, fsmLeft, stay, entered >>
tele == << looked, powerLevel, power, unsent >>
obs  == << left, m_fsm_enum, tele >>
noticeVars == << fsm, obs, behind >>

NoticeInit ==
  /\ flight_state = "CALIBRATING" /\ fsm_flag = "CALIBRATING"
  /\ fsmLeft = FsmPeriod /\ stay = 0 /\ entered = 0
  /\ left \in {l \in [Observers -> UNION {1 .. Period[o] : o \in Observers}] :
                 \A o \in Observers : l[o] \in 1 .. Period[o]}
  /\ m_fsm_enum = [o \in Observers |-> "INVALID"]
  /\ looked = "asleep" /\ powerLevel = "user" /\ power = "user"
  /\ unsent = FALSE /\ behind = FALSE

-----------------------------------------------------------------------------
Tick ==
  /\ fsmLeft > -MaxLate /\ \A o \in Observers : left[o] > -MaxLate
  /\ fsmLeft' = fsmLeft - 1
  /\ left' = [o \in Observers |-> left[o] - 1]
  /\ UNCHANGED << flight_state, fsm_flag, stay, entered, m_fsm_enum, tele, behind >>

-----------------------------------------------------------------------------
(* FlightFsm.                                                               *)

MayLeave_Early == stay + FsmPeriod >= MinStay - 2 * FsmPeriod

(* The safety counter of the phase can have been exceeded.                  *)
MayLeave == stay + FsmPeriod >= MinStay

(* A task is so late that, with the state machine as late as it was when it
   entered the phase, the phase may have passed it by. *)
TooLate(o) == entered - left[o] >= MinStay - Period[o]

(* An iteration that stays in the phase.                                    *)
FsmStays ==
  /\ fsmLeft <= 0 /\ fsm_flag # "none"
  /\ fsmLeft' = fsmLeft + FsmPeriod
  /\ stay' = IF MayLeave THEN stay ELSE stay + FsmPeriod
  /\ UNCHANGED << flight_state, fsm_flag, entered, obs, behind >>

(* change_state_to, first osEventFlagsClear ...                             *)
FsmClear ==
  /\ fsmLeft <= 0 /\ fsm_flag # "none"
  /\ MayLeave
  /\ Successors[flight_state] # {}
  /\ fsm_flag' = "none"
  /\ behind' = (behind \/ (flight_state = "THRUSTING" /\ TooLate(Telemetry)))
  /\ UNCHANGED << flight_state, fsmLeft, stay, entered, obs >>

(* ... and then osEventFlagsSet.                                            *)
FsmSet ==
  /\ fsm_flag = "none"
  /\ flight_state' \in Successors[flight_state]
  /\ fsm_flag' = flight_state'
  /\ stay' = 0
  /\ entered' = -fsmLeft
  /\ fsmLeft' = fsmLeft + FsmPeriod
  /\ UNCHANGED << obs, behind >>

-----------------------------------------------------------------------------
(* The observers.                                                           *)

(* GetNewFsmEnum: no flag is an error and ignored.                          *)
Seen(o) == IF fsm_flag = "none" THEN m_fsm_enum[o] ELSE fsm_flag

GetNewFsmEnum(o) ==
  /\ left[o] <= 0
  /\ m_fsm_enum' = [m_fsm_enum EXCEPT ![o] = Seen(o)]

EndIteration(o) == left' = [left EXCEPT ![o] = left[o] + Period[o]]

(* An iteration of another task, which acts on the phase when it looks.     *)
Look(o) ==
  /\ o # Telemetry
  /\ GetNewFsmEnum(o)
  /\ EndIteration(o)
  /\ UNCHANGED << tele, fsm, behind >>

(* The telemetry task looks ...                                             *)
Poll ==
  /\ looked = "asleep"
  /\ GetNewFsmEnum(Telemetry)
  /\ looked' = IF Seen(Telemetry) = m_fsm_enum[Telemetry] THEN "same" ELSE "new"
  /\ UNCHANGED << left, powerLevel, power, unsent, fsm, behind >>

SendPower_GainFirst(level) ==
  \E sent \in SUBSET {"CMD_POWER_LEVEL", "CMD_PA_GAIN"} :
    /\ power'      = IF "CMD_PA_GAIN" \in sent THEN powerLevel ELSE power
    /\ powerLevel' = IF "CMD_POWER_LEVEL" \in sent THEN level ELSE powerLevel
    /\ unsent'     = (unsent \/ sent # {"CMD_POWER_LEVEL", "CMD_PA_GAIN"})

(* SendSettings of CMD_POWER_LEVEL, which the MCU keeps, and of CMD_PA_GAIN,
   at which it sets the level it has.  Each transmit may time out. *)
SendPower(level) ==
  \E sent \in SUBSET {"CMD_POWER_LEVEL", "CMD_PA_GAIN"} :
    /\ powerLevel' = IF "CMD_POWER_LEVEL" \in sent THEN level ELSE powerLevel
    /\ power'      = IF "CMD_PA_GAIN" \in sent THEN powerLevel' ELSE power
    /\ unsent'     = (unsent \/ sent # {"CMD_POWER_LEVEL", "CMD_PA_GAIN"})

SwitchPower(phase) ==
  \/ phase = "THRUSTING" /\ SendPower("max")
  \/ phase = "TOUCHDOWN" /\ SendPower("user")
  \/ phase \notin {"THRUSTING", "TOUCHDOWN"} /\ UNCHANGED << powerLevel, power, unsent >>

(* ... and at the end of its iteration switches the power.                  *)
Switch ==
  /\ looked # "asleep"
  /\ \/ looked = "new" /\ SwitchPower(m_fsm_enum[Telemetry])
     \/ looked = "same" /\ UNCHANGED << powerLevel, power, unsent >>
  /\ looked' = "asleep"
  /\ EndIteration(Telemetry)
  /\ UNCHANGED << m_fsm_enum, fsm, behind >>

NoticeNext == \/ Tick
              \/ FsmStays \/ FsmClear \/ FsmSet
              \/ (\E o \in Observers : Look(o)) \/ Poll \/ Switch

NoticeSpec == NoticeInit /\ [][NoticeNext]_noticeVars

-----------------------------------------------------------------------------
TypeFsm ==
  /\ flight_state \in Phase /\ fsm_flag \in Phase \cup {"none"}
  /\ fsmLeft \in Int /\ stay \in Nat /\ entered \in Int

TypeObs ==
  /\ left \in [Observers -> Int]
  /\ m_fsm_enum \in [Observers -> Phase \cup {"INVALID"}]
  /\ looked \in {"asleep", "same", "new"}
  /\ powerLevel \in {"user", "max"} /\ power \in {"user", "max"}
  /\ unsent \in BOOLEAN /\ behind \in BOOLEAN

(***************************************************************************)
(* Types; in particular no observer takes the gap between clear and set    *)
(* for a phase.                                                            *)
(***************************************************************************)
NoticeTypes == TypeFsm /\ TypeObs

(* Ticks since the release of the iteration that entered the phase, or      *)
(* fewer when stay is not counted on.                                       *)
Elapsed == stay + FsmPeriod - fsmLeft

(***************************************************************************)
(* The inductive invariant.  The iteration in which an observer sees the   *)
(* phase, and the telemetry task acts on it, is released at most one       *)
(* period after the phase was entered; one in which the telemetry task has *)
(* looked too early was released before.                                   *)
(***************************************************************************)
LookedBefore(o) ==
  o = Telemetry /\ looked # "asleep" /\ m_fsm_enum[o] # flight_state

Due(o) ==
  Elapsed + left[o] <= entered + (IF LookedBefore(o) THEN 0 ELSE Period[o])

Acted(o) == m_fsm_enum[o] = flight_state /\ (o = Telemetry => looked # "new")

Noticing ==
  /\ fsm_flag \in {flight_state, "none"}
  /\ fsm_flag = "none" => fsmLeft <= 0
  /\ looked # "asleep" => left[Telemetry] <= 0
  /\ \A o \in Observers :
        /\ left[o] <= Period[o]
        /\ fsm_flag # "none" => Acted(o) \/ Due(o)

NoticeInv == NoticeTypes /\ Noticing

(***************************************************************************)
(* No task misses a phase for another reason than being late: when the     *)
(* state machine takes a phase back, every task has seen it, or is late by *)
(* what the shortest phase exceeds its period (10 ms for the telemetry),   *)
(* less what the state machine was late itself.  (The estimator resets its *)
(* filter when it sees THRUSTING, the telemetry keeps the time of liftoff. *)
(* COASTING_SAFETY_COUNTER and TELEMETRY_SAMPLING_FREQ decide.)            *)
(***************************************************************************)
NoPhaseMissed ==
  [][ fsm_flag # "none" /\ fsm_flag' # fsm_flag =>
        \A o \in Observers : m_fsm_enum[o] = flight_state \/ TooLate(o) ]_noticeVars

(***************************************************************************)
(* "Adaptive power mode boosts output power to maximum when the flight     *)
(* computer is in THRUSTING mode and returns it to the user-set value when *)
(* TOUCHDOWN is registered" (docs/Chapters/7_AdvancedInformation.typ:320): *)
(* from the end of the thrust to the touchdown the power is at its maximum *)
(* unless the telemetry task was late or a transmit timed out.             *)
(***************************************************************************)
BoostedInFlight ==
  flight_state \in {"COASTING", "DROGUE", "MAIN"} =>
    power = "max" \/ behind \/ unsent
=============================================================================
