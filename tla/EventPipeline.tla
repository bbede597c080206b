--------------------------- MODULE EventPipeline ---------------------------
(***************************************************************************)
(* How an event travels through the flight computer: from the flight state *)
(* machine, an expired timer or a packet of the ground station, through    *)
(* trigger_event and the event queue, to the Peripherals task, which       *)
(* starts timers, arms the pyro channels and performs the configured       *)
(* actions.                                                                *)
(*                                                                         *)
(* Four threads share event_tracking, the queue, the timers and PYRO_EN:   *)
(*   - the FlightFsm task, taken from its abstract specification           *)
(*     PhaseOrder.  It calls trigger_event with event_unique = true;       *)
(*   - the FreeRTOS timer daemon, which calls trigger_event through a      *)
(*     function pointer of one parameter, so that event_unique is whatever *)
(*     a register holds.  Its priority is the lowest but idle: the FlightFsm *)
(*     task can run between its load and its store of event_tracking, but  *)
(*     not the other way round;                                            *)
(*   - the Telemetry task, which obeys packets that carry the test phrase, *)
(*     whatever mode the computer was booted into: it writes PYRO_EN and   *)
(*     calls trigger_event with event_unique = false;                      *)
(*   - the Peripherals task, the only reader of the queue.                 *)
(*                                                                         *)
(* Time is abstracted: a running timer may expire at any moment, a put on  *)
(* a full queue and the silence of the ground station may time out at any  *)
(* moment.  `announced', `executed', `lost' and `thrown' are history       *)
(* variables.                                                              *)
(***************************************************************************)
EXTENDS Naturals, Sequences, Functions, FlightTypes

CONSTANTS
  Timer,          (* The configured timers.                                  *)
  TimerInit,      (* Per timer, the event that starts it.                    *)
  TimerExec,      (* Per timer, the event it triggers on expiry.             *)
  Actions,        (* Per event, the configured list of actions.              *)
  QueueSize,      (* EVENT_QUEUE_SIZE.                                       *)
  UniqueArg,      (* The values event_unique may have in a timer callback.   *)
  GroundEvents,   (* Events the configuration considers harmless on the pad. *)
  Packets,        (* The packets with the test phrase that may arrive.       *)
  TestingEnabled  (* testing_enabled of Telemetry::Run, read from the        *)
                  (* configuration five seconds after the other tasks began. *)

(* "high" and "low" drive a pyro channel; "other" stands for the delay, the
   servos, the low-level output, the recorder and no_action_function. *)
Action == {"high", "low", "other"}

ASSUME ConfigAssumption ==
  /\ TimerInit \in [Timer -> Event]
  /\ TimerExec \in [Timer -> Event]
  /\ Actions   \in [Event -> Seq(Action)]
  /\ QueueSize \in Nat \ {0}
  /\ UniqueArg \subseteq BOOLEAN

(* A packet: the bit enable_testing_telemetry and the event, of which the
   number 0 is EV_CALIBRATE; "none" stands for a number above EV_CUSTOM_2. *)
None == "none"

ASSUME PacketAssumption ==
  /\ Packets \subseteq [enable : BOOLEAN, event : Event \cup {None}]
  /\ TestingEnabled \in BOOLEAN

(* A configuration is safe on the pad if no ground event drives a pyro
   channel high and no timer leads from a ground event to another event. *)
ASSUME PadAssumption ==
  /\ GroundEvents \subseteq Event
  /\ {"EV_CALIBRATE", "EV_READY"} \subseteq GroundEvents
  /\ "EV_LIFTOFF" \notin GroundEvents
  /\ \A e \in GroundEvents : "high" \notin Range(Actions[e])
  /\ \A t \in Timer : TimerInit[t] \in GroundEvents => TimerExec[t] \in GroundEvents

VARIABLES
  flight_state,    (* The phase of the FlightFsm task.                       *)
  fsm_next,        (* The phase whose event the task is putting.             *)
  fsm_pc,          (* "run" or "put": inside osMessageQueuePut.              *)
  event_tracking,  (* The bits of trigger_event's static word that are set.  *)
  event_queue,     (* The message queue.                                     *)
  running,         (* The timers that are running.                           *)
  daemon_pc,       (* "idle", "loaded" or "put".                             *)
  daemon_ev,       (* The event of the daemon's current call.                *)
  seen,            (* The word the daemon loaded.                            *)
  tel_pc,          (* The Telemetry task: "run" or "put".                    *)
  tel_ev,          (* The event of its current call.                         *)
  m_event_reset,   (* A packet with event 0 has come since its last call.    *)
  per_ev,          (* The event the Peripherals task handles, or "none".     *)
  todo,            (* The actions it has left to perform.                    *)
  pyro_en,         (* The PYRO_EN pin.                                       *)
  pyro,            (* The pin of a pyro channel.                             *)
  announced,       (* History: events whose trigger_event returned to the FSM. *)
  executed,        (* History: events whose actions were all performed.      *)
  lost,            (* History: events whose put by FSM or daemon timed out.  *)
  thrown           (* History: events the Telemetry task triggered.          *)

fsm    == << flight_state, fsm_next, fsm_pc, announced >>
daemon == << daemon_pc, daemon_ev, seen >>
pins   == << pyro_en, pyro >>
tel    == << tel_pc, tel_ev, m_event_reset, thrown >>
vars   == << fsm, daemon, tel, pins, event_tracking, event_queue, running,
             per_ev, todo, executed, lost >>

-----------------------------------------------------------------------------
(***************************************************************************)
(* trigger_event.                                                          *)
(***************************************************************************)

Marked_WrongBit(base, ev) ==
  IF ev = "EV_TOUCHDOWN" THEN Event
  ELSE base \cup {"EV_MAX_V", "EV_APOGEE"}

(* The word after ev has been marked as done.  Custom events are not
   marked; touchdown sets every bit. *)
Marked(base, ev) ==
  CASE ev \in CustomEvents   -> base
    [] ev = "EV_TOUCHDOWN"   -> Event
    [] OTHER                 -> base \cup {ev}

(* osMessageQueuePut finds a free slot. *)
Enqueue(ev) ==
  /\ Len(event_queue) < QueueSize
  /\ event_queue' = Append(event_queue, ev)

(* osMessageQueuePut waits its ten ticks for a slot in vain. *)
TimeOut(ev) ==
  /\ Len(event_queue) = QueueSize
  /\ lost' = lost \cup {ev}

(***************************************************************************)
(* The FlightFsm task.                                                     *)
(***************************************************************************)

(* change_state_to calls trigger_event, which finds the event done. *)
FsmSuppressed(p) ==
  /\ fsm_pc = "run"
  /\ p \in Successors[flight_state]
  /\ EntryEvent[p] \in event_tracking
  /\ flight_state' = p
  /\ fsm_next'     = p
  /\ announced'    = announced \cup {EntryEvent[p]}
  /\ UNCHANGED << fsm_pc, daemon, tel, pins, event_tracking, event_queue, running,
                  per_ev, todo, executed, lost >>

(* change_state_to calls trigger_event, which marks the event and goes on
   to put it.  The timer daemon cannot run before the put blocks. *)
FsmTrigger(p) ==
  /\ fsm_pc = "run"
  /\ p \in Successors[flight_state]
  /\ EntryEvent[p] \notin event_tracking
  /\ event_tracking' = Marked(event_tracking, EntryEvent[p])
  /\ fsm_next' = p
  /\ fsm_pc'   = "put"
  /\ UNCHANGED << flight_state, announced, daemon, tel, pins, event_queue, running,
                  per_ev, todo, executed, lost >>

(* trigger_event returns and change_state_to completes. *)
FsmReturn ==
  /\ fsm_pc'       = "run"
  /\ flight_state' = fsm_next
  /\ announced'    = announced \cup {EntryEvent[fsm_next]}
  /\ UNCHANGED << fsm_next, daemon, tel, pins, event_tracking, running,
                  per_ev, todo, executed >>

FsmPut ==
  /\ fsm_pc = "put"
  /\ Enqueue(EntryEvent[fsm_next])
  /\ FsmReturn
  /\ UNCHANGED lost

FsmTimeOut ==
  /\ fsm_pc = "put"
  /\ TimeOut(EntryEvent[fsm_next])
  /\ FsmReturn
  /\ UNCHANGED event_queue

(***************************************************************************)
(* The timer daemon.                                                       *)
(***************************************************************************)

(* The timers are created with osTimerOnce. *)
StillRunning(t) == running \ {t}

(* Timer t expires and its callback is trigger_event.  With event_unique
   set the call loads event_tracking, and is over if the bit is set. *)
Expire(t) ==
  /\ daemon_pc = "idle"
  /\ t \in running
  /\ running' = StillRunning(t)
  /\ \E event_unique \in UniqueArg :
       IF event_unique
       THEN IF TimerExec[t] \in event_tracking
            THEN UNCHANGED daemon
            ELSE /\ daemon_pc' = "loaded"
                 /\ daemon_ev' = TimerExec[t]
                 /\ seen'      = event_tracking
       ELSE /\ daemon_pc' = "put"
            /\ daemon_ev' = TimerExec[t]
            /\ UNCHANGED seen
  /\ UNCHANGED << fsm, tel, pins, event_tracking, event_queue,
                  per_ev, todo, executed, lost >>

(* The daemon stores the marked word.  The compiler may keep the word of
   the load in a register or load it again; a custom event stores nothing. *)
Store ==
  /\ daemon_pc = "loaded"
  /\ IF daemon_ev \in CustomEvents
     THEN UNCHANGED event_tracking
     ELSE \E base \in {seen, event_tracking} :
            event_tracking' = Marked(base, daemon_ev)
  /\ daemon_pc' = "put"
  /\ UNCHANGED << fsm, daemon_ev, seen, tel, pins, event_queue, running,
                  per_ev, todo, executed, lost >>

DaemonReturn ==
  /\ daemon_pc' = "idle"
  /\ UNCHANGED << fsm, daemon_ev, seen, tel, pins, event_tracking, running,
                  per_ev, todo, executed >>

DaemonPut ==
  /\ daemon_pc = "put"
  /\ Enqueue(daemon_ev)
  /\ DaemonReturn
  /\ UNCHANGED lost

DaemonTimeOut ==
  /\ daemon_pc = "put"
  /\ TimeOut(daemon_ev)
  /\ DaemonReturn
  /\ UNCHANGED event_queue

(***************************************************************************)
(* The Telemetry task.                                                     *)
(***************************************************************************)

(* The packet throws its event: armed by the packet itself, an event beyond
   EV_CALIBRATE, and the ground station has cleared the one before. *)
Throws(pkt) ==
  /\ pkt.event \in Event \ {"EV_CALIBRATE"}
  /\ pkt.enable
  /\ m_event_reset

(* ParseRxMessage, for a packet with the right header and passcode. *)
ParseRxMessage(pkt) ==
  /\ tel_pc = "run"
  /\ pyro_en' = pkt.enable
  /\ IF Throws(pkt)
     THEN /\ tel_pc' = "put"
          /\ tel_ev' = pkt.event
          /\ thrown' = thrown \cup {pkt.event}
          /\ m_event_reset' = FALSE
     ELSE /\ m_event_reset' = (m_event_reset \/ pkt.event = "EV_CALIBRATE")
          /\ UNCHANGED << tel_pc, tel_ev, thrown >>
  /\ UNCHANGED << fsm, daemon, pyro, event_tracking, event_queue, running,
                  per_ev, todo, executed, lost >>

(* Its trigger_event neither reads nor marks event_tracking. *)
TelReturn ==
  /\ tel_pc = "put"
  /\ tel_pc' = "run"
  /\ UNCHANGED << fsm, daemon, tel_ev, m_event_reset, thrown, pins,
                  event_tracking, running, per_ev, todo, executed, lost >>

TelPut == TelReturn /\ Enqueue(tel_ev)

TelTimeOut ==
  /\ TelReturn
  /\ Len(event_queue) = QueueSize
  /\ UNCHANGED event_queue

(* Two seconds without a packet, in testing mode. *)
TestingTimeOut ==
  /\ TestingEnabled
  /\ tel_pc = "run"
  /\ pyro_en' = FALSE
  /\ UNCHANGED << fsm, daemon, tel, pyro, event_tracking, event_queue, running,
                  per_ev, todo, executed, lost >>

(***************************************************************************)
(* The Peripherals task.                                                   *)
(***************************************************************************)

StartedBy_AnyEvent(ev) == Timer

(* The timers the event starts, or restarts. *)
StartedBy(ev) == { t \in Timer : TimerInit[t] = ev }

Armed_OnlyReady(ev) == ev = "EV_READY"

(* PYRO_EN after the event: set for every event >= EV_READY, reset for
   EV_CALIBRATE. *)
Armed(ev) == ev # "EV_CALIBRATE"

(* The task takes an event.  osTimerStart fails for a timer when the
   command queue of the daemon is full; the task only logs that. *)
Get ==
  /\ per_ev = None
  /\ event_queue # << >>
  /\ LET ev == Head(event_queue) IN
       /\ \E started \in SUBSET StartedBy(ev) : running' = running \cup started
       /\ pyro_en' = Armed(ev)
       /\ per_ev'  = ev
       /\ todo'    = Actions[ev]
  /\ event_queue' = Tail(event_queue)
  /\ UNCHANGED << fsm, daemon, tel, pyro, event_tracking, executed, lost >>

(* It calls the actuator function of the next action. *)
Act ==
  /\ per_ev # None
  /\ todo # << >>
  /\ pyro' = CASE Head(todo) = "high"  -> TRUE
               [] Head(todo) = "low"   -> FALSE
               [] OTHER                -> pyro
  /\ todo' = Tail(todo)
  /\ UNCHANGED << fsm, daemon, tel, pyro_en, event_tracking, event_queue, running,
                  per_ev, executed, lost >>

(* The loop over the actions is over. *)
Finish ==
  /\ per_ev # None
  /\ todo = << >>
  /\ executed' = executed \cup {per_ev}
  /\ per_ev'   = None
  /\ UNCHANGED << fsm, daemon, tel, pins, event_tracking, event_queue, running,
                  todo, lost >>

-----------------------------------------------------------------------------
(* FlightFsm::Run has called trigger_event(EV_CALIBRATE). *)
Init ==
  /\ flight_state   = "CALIBRATING"
  /\ fsm_next       = "CALIBRATING"
  /\ fsm_pc         = "put"
  /\ event_tracking = {"EV_CALIBRATE"}
  /\ event_queue    = << >>
  /\ running        = {}
  /\ daemon_pc      = "idle"
  /\ daemon_ev      = None
  /\ seen           = {}
  /\ tel_pc         = "run"
  /\ tel_ev         = None
  /\ m_event_reset  = FALSE
  /\ per_ev         = None
  /\ todo           = << >>
  /\ pyro_en        = FALSE
  /\ pyro           = FALSE
  /\ announced      = {}
  /\ executed       = {}
  /\ lost           = {}
  /\ thrown         = {}

FsmStep         == \E p \in Phase : FsmSuppressed(p) \/ FsmTrigger(p)
FsmEndPut       == FsmPut \/ FsmTimeOut
TelEndPut       == TelPut \/ TelTimeOut
DaemonCall      == Store \/ DaemonPut \/ DaemonTimeOut
PeripheralsStep == Get \/ Act \/ Finish

Next ==
  \/ FsmStep
  \/ FsmEndPut
  \/ \E t \in Timer : Expire(t)
  \/ DaemonCall
  \/ \E pkt \in Packets : ParseRxMessage(pkt)
  \/ TelEndPut
  \/ TestingTimeOut
  \/ PeripheralsStep

Spec == Init /\ [][Next]_vars

(* Every put and every delay is bounded, and every task sleeps between its
   iterations: what has begun is finished.  Phases need not advance, a timer
   need not expire, and no packet need come. *)
Fairness ==
  /\ WF_vars(FsmEndPut)
  /\ WF_vars(DaemonCall)
  /\ WF_vars(TelEndPut)
  /\ WF_vars(PeripheralsStep)

FairSpec == Spec /\ Fairness

-----------------------------------------------------------------------------
(***************************************************************************)
(* Properties.                                                             *)
(***************************************************************************)

TypeOK ==
  /\ flight_state   \in Phase
  /\ fsm_next       \in Phase
  /\ fsm_pc         \in {"run", "put"}
  /\ event_tracking \subseteq Event
  /\ event_queue    \in Seq(Event)
  /\ Len(event_queue) <= QueueSize
  /\ running        \subseteq Timer
  /\ daemon_pc      \in {"idle", "loaded", "put"}
  /\ daemon_ev      \in Event \cup {None}
  /\ daemon_pc # "idle" => daemon_ev \in Event
  /\ seen           \subseteq Event
  /\ tel_pc         \in {"run", "put"}
  /\ tel_ev         \in Event \cup {None}
  /\ tel_pc = "put" => tel_ev \in Event
  /\ m_event_reset  \in BOOLEAN
  /\ thrown         \subseteq Event
  /\ per_ev         \in Event \cup {None}
  /\ todo           \in Seq(Action)
  /\ pyro_en        \in BOOLEAN
  /\ pyro           \in BOOLEAN
  /\ announced      \subseteq Event
  /\ executed       \subseteq Event
  /\ lost           \subseteq Event

(* The state machine has detected liftoff, or is about to say so. *)
LiftedOff == fsm_next \notin {"CALIBRATING", "READY"}

(* With a configuration that is safe on the pad, a pyro channel is driven
   before the state machine has detected liftoff only if the ground station
   has thrown an event that is not a ground event, with a packet that arms:
   in whatever order timers expire, packets come and tasks run, neither
   arming nor a thrown ground event nor a timer it starts fires anything
   (trigger_event, Peripherals::Run, ParseRxMessage). *)
NoFireOnPad == pyro => LiftedOff \/ ~(thrown \subseteq GroundEvents)

(* Where an event that the state machine or a timer triggered can be. *)
Places ==
  Range(event_queue) \cup executed \cup lost
    \cup (IF fsm_pc    = "put" THEN {EntryEvent[fsm_next]} ELSE {})
    \cup (IF daemon_pc = "put" THEN {daemon_ev}            ELSE {})
    \cup (IF per_ev # None     THEN {per_ev}               ELSE {})

(* Every event of S is somewhere on its way or was executed, unless a
   touchdown took its place. *)
Accounted(S) == S \subseteq Places \/ "EV_TOUCHDOWN" \in Places

(* When trigger_event returns to the state machine, which never tries
   again, the event is on its way or done, even if the call was ignored
   because somebody else had triggered it: the only way to lose an event is
   a put that times out, the only way to withhold one is a touchdown. *)
AnnouncedIsAccounted == Accounted(announced)

(* The ways in which the Telemetry task disarms. *)
TelemetryDisarms ==
  \/ \E pkt \in Packets : ~pkt.enable /\ ParseRxMessage(pkt)
  \/ TestingTimeOut

(* Once the calibration is over, pyro channels that are armed stay armed
   unless the Telemetry task disarms them, for a packet that says so or for
   the silence of the ground station in testing mode: no event of a timer
   or of a packet disarms them in flight.  This is what the uniqueness of
   EV_CALIBRATE is worth.  It takes a timer callback that passes
   event_unique = true, or no timer that triggers EV_CALIBRATE. *)
StaysArmed ==
  [][ pyro_en /\ "EV_CALIBRATE" \in executed =>
        pyro_en' \/ TelemetryDisarms ]_vars

(* A detected apogee is acted on, whatever timers are configured and
   however the calls of trigger_event interleave, also when the call of the
   state machine was ignored for the sake of a timer's: it can only give way
   to a touchdown (Peripherals::Run), or a put of the two times out. *)
ApogeeIsExecuted ==
  flight_state = "DROGUE" ~>
    {"EV_APOGEE", "EV_TOUCHDOWN"} \cap (executed \cup lost) # {}

-----------------------------------------------------------------------------
(***************************************************************************)
(* What the manual says and the code does not do.                          *)
(***************************************************************************)

(* The user manual, on timers: "Events are unique: only one apogee event
   will be thrown", either by the timer or by the estimation.  Here: an
   event other than a custom one is not handled again after it has been
   handled. *)
UniqueEvents ==
  [][ per_ev' # per_ev /\ per_ev' # None /\ per_ev' \notin CustomEvents =>
        per_ev' \notin executed ]_vars
=============================================================================
