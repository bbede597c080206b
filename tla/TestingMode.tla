---------------------------- MODULE TestingMode ----------------------------
(***************************************************************************)
(* Testing mode: the ground station arms the flight computer over the      *)
(* radio and triggers its events one by one.                               *)
(*                                                                         *)
(* On the ground station the HMI task runs Hmi::testing and calls          *)
(* enterTesting, triggerEvent and exitTesting of a link; the task of that  *)
(* link runs Telemetry::update.  Both fill and send the same member        *)
(* testingMsg, and neither is atomic.  What is sent is a register of the   *)
(* telemetry MCU, whose content goes out again and again while the link is *)
(* bidirectional.  The radio loses and repeats packets.  On the flight     *)
(* computer the Telemetry task parses a packet, arms or disarms, and       *)
(* triggers an event at most once until it has seen event 0; the           *)
(* Peripherals task executes it.                                           *)
(*                                                                         *)
(* Time is abstracted: a delay ends and a timeout expires at any moment.   *)
(* An event is represented by the number of the key press that confirmed   *)
(* it, which makes repetitions visible; 0 is the code's 0.                 *)
(***************************************************************************)
EXTENDS Naturals, Sequences

CONSTANTS
  InTestingMode,  (* Was the flight computer booted into testing mode?       *)
  AirSize,        (* Bound: packets between the MCU and the flight computer. *)
  QueueSize,      (* EVENT_QUEUE_SIZE.                                       *)
  MaxPresses      (* Bound: events confirmed at the ground station.          *)

ASSUME TestingAssumption ==
  /\ InTestingMode \in BOOLEAN
  /\ AirSize \in Nat \ {0} /\ QueueSize \in Nat \ {0}
  /\ MaxPresses \in Nat

VARIABLES
  (* Ground station, HMI. *)
  testingState,    (* Hmi::TestingState; DISCLAIMER also when the HMI shows
                      another screen.                                        *)
  boxWindow,       (* The box that asks to confirm an event is open.         *)
  hmi_pc,          (* Where the HMI task is in a call of the link.           *)
  heard,           (* What the packets of the last second said: "nothing",
                      "one" (their state equals 1) or "other".               *)
  (* Ground station, Telemetry link1. *)
  testingMsg, transmissionMode, newSetting, requestExitTesting, triggerAction,
  upd_pc,          (* Where Telemetry::update is in its loop.                *)
  (* Telemetry MCU of the link, and the radio. *)
  mcu,             (* Its enabled flag (which linkInitialized mirrors), its
                      mode and its transmit buffer.                          *)
  air,             (* Packets on their way, up to the flight computer's UART. *)
  (* Flight computer. *)
  m_testing_armed, m_event_reset, pyro_en,
  queued,          (* The number of events in the event queue.               *)
  (* History and bounds. *)
  presses,         (* Events confirmed so far.                               *)
  fired            (* The events given to trigger_event, in order.           *)

hmi     == << testingState, boxWindow, hmi_pc, presses >>
upd     == << requestExitTesting, triggerAction, upd_pc >>
setting == << transmissionMode, newSetting >>
fc      == << m_testing_armed, m_event_reset, queued, pyro_en, fired >>
testingVars    == << hmi, heard, testingMsg, upd, setting, mcu, air, fc >>

Nothing == [ enable_pyros |-> FALSE, event |-> 0 ]

States == {"DISCLAIMER", "CAN_START", "CAN_NOT_START", "WAIT_FOR_START",
           "FAILED", "STARTED"}

InSession == testingState \in {"WAIT_FOR_START", "FAILED", "STARTED"}

-----------------------------------------------------------------------------
(***************************************************************************)
(* The link: operations both tasks of the ground station use.              *)
(***************************************************************************)

Fill(enable, ev) == testingMsg' = [ enable_pyros |-> enable, event |-> ev ]

(* sendTXPayload: the MCU stores the message, enabled or not. *)
Send == mcu' = [ mcu EXCEPT !.payload = testingMsg ]

SetMode(m) ==
  /\ transmissionMode' = m
  /\ newSetting' = (newSetting \/ m # transmissionMode)

(***************************************************************************)
(* The HMI task.  One action is one call of Hmi::testing up to the point   *)
(* where it enters the link, or one of the steps inside.                   *)
(***************************************************************************)

HmiLoop == hmi_pc = "loop"

AfterDisclaimer == IF heard # "nothing" THEN "CAN_START" ELSE "CAN_NOT_START"

(* The disclaimer is accepted.  The window says whether the flight computer
   is in testing mode; the state does not depend on it. *)
Accept ==
  /\ HmiLoop /\ ~boxWindow
  /\ testingState = "DISCLAIMER"
  /\ testingState' = AfterDisclaimer
  /\ UNCHANGED << boxWindow, hmi_pc, presses, heard, testingMsg,
                  upd, setting, mcu, air, fc >>

(* enterTesting. *)
Start ==
  /\ HmiLoop /\ ~boxWindow
  /\ testingState = "CAN_START"
  /\ testingState' = "WAIT_FOR_START"
  /\ Fill(TRUE, 0)
  /\ hmi_pc' = "send_enter"
  /\ UNCHANGED << boxWindow, presses, heard,
                  upd, setting, mcu, air, fc >>

(* WAIT_FOR_START: a recent packet has state 1. *)
Started ==
  /\ HmiLoop /\ ~boxWindow
  /\ testingState = "WAIT_FOR_START"
  /\ heard = "one"
  /\ testingState' = "STARTED"
  /\ UNCHANGED << boxWindow, hmi_pc, presses, heard, testingMsg,
                  upd, setting, mcu, air, fc >>

(* WAIT_FOR_START: ten seconds have passed; the link is disabled. *)
StartTimeOut ==
  /\ HmiLoop /\ ~boxWindow
  /\ testingState = "WAIT_FOR_START"
  /\ testingState' = "FAILED"
  /\ mcu' = [ mcu EXCEPT !.enabled = FALSE ]
  /\ UNCHANGED << boxWindow, hmi_pc, presses, heard, testingMsg,
                  upd, setting, air, fc >>

(* STARTED: the flight computer is disarmed or silent.  The session has
   failed; a key pressed in the same iteration still opens the box. *)
LinkLost ==
  /\ HmiLoop /\ ~boxWindow
  /\ testingState = "STARTED"
  /\ heard # "one"
  /\ testingState' = "FAILED"
  /\ boxWindow' \in BOOLEAN
  /\ Fill(FALSE, 0)
  /\ hmi_pc' = "send_exit"
  /\ UNCHANGED << presses, heard, upd, setting,
                  mcu, air, fc >>

OpenBox ==
  /\ HmiLoop /\ ~boxWindow
  /\ testingState = "STARTED"
  /\ heard = "one"
  /\ boxWindow' = TRUE
  /\ UNCHANGED << testingState, hmi_pc, presses, heard, testingMsg,
                  upd, setting, mcu, air, fc >>

CloseBox ==
  /\ HmiLoop /\ boxWindow
  /\ boxWindow' = FALSE
  /\ UNCHANGED << testingState, hmi_pc, presses, heard, testingMsg,
                  upd, setting, mcu, air, fc >>

(* triggerEvent.  While the box is open nobody looks at the link. *)
Confirm ==
  /\ HmiLoop /\ boxWindow
  /\ presses < MaxPresses
  /\ boxWindow' = FALSE
  /\ presses' = presses + 1
  /\ Fill(TRUE, presses + 1)
  /\ hmi_pc' = "send_event"
  /\ UNCHANGED << testingState, heard, upd, setting,
                  mcu, air, fc >>

(* The screen is left; exitTesting ends a session. *)
Back ==
  /\ HmiLoop /\ ~boxWindow
  /\ testingState # "DISCLAIMER"
  /\ testingState' = "DISCLAIMER"
  /\ IF InSession
     THEN Fill(FALSE, 0) /\ hmi_pc' = "send_exit"
     ELSE UNCHANGED << testingMsg, hmi_pc >>
  /\ UNCHANGED << boxWindow, presses, heard, upd, setting,
                  mcu, air, fc >>

(* The message is sent; enterTesting and exitTesting then wait 50 ticks. *)
HmiSend ==
  /\ \/ hmi_pc = "send_enter" /\ hmi_pc' = "mode_enter"
     \/ hmi_pc = "send_exit"  /\ hmi_pc' = "mode_exit"
     \/ hmi_pc = "send_event" /\ hmi_pc' = "flag_event"
  /\ Send
  /\ UNCHANGED << testingState, boxWindow, presses, heard,
                  testingMsg, upd, setting, air, fc >>

HmiSetMode ==
  /\ \/ hmi_pc = "mode_enter" /\ hmi_pc' = "loop"
     \/ hmi_pc = "mode_exit"  /\ hmi_pc' = "flag_exit"
  /\ SetMode("BIDIRECTIONAL")
  /\ UNCHANGED << testingState, boxWindow, presses, heard,
                  testingMsg, upd, mcu, air, fc >>

HmiFlag ==
  /\ \/ /\ hmi_pc = "flag_exit"
        /\ requestExitTesting' = TRUE
        /\ UNCHANGED triggerAction
     \/ /\ hmi_pc = "flag_event"
        /\ triggerAction' = TRUE
        /\ UNCHANGED requestExitTesting
  /\ hmi_pc' = "loop"
  /\ UNCHANGED << testingState, boxWindow, presses, heard,
                  testingMsg, upd_pc, setting, mcu, air, fc >>

(***************************************************************************)
(* The task of the link: Telemetry::update.                                *)
(***************************************************************************)

(* The top of the loop, and the beginning of initLink. *)
UpdSettings ==
  /\ upd_pc = "top"
  /\ IF newSetting
     THEN /\ upd_pc' = "init"
          /\ newSetting' = FALSE
          /\ mcu' = [ mcu EXCEPT !.enabled = FALSE ]
     ELSE /\ upd_pc' = "exit"
          /\ UNCHANGED << newSetting, mcu >>
  /\ UNCHANGED << hmi, heard, testingMsg, requestExitTesting, triggerAction,
                  transmissionMode, air, fc >>

(* initLink sends the mode it reads now and enables the MCU later. *)
UpdInit ==
  /\ \/ /\ upd_pc = "init" /\ upd_pc' = "enable"
        /\ mcu' = [ mcu EXCEPT !.mode = transmissionMode ]
     \/ /\ upd_pc = "enable" /\ upd_pc' = "exit"
        /\ mcu' = [ mcu EXCEPT !.enabled = TRUE ]
  /\ UNCHANGED << hmi, heard, testingMsg, requestExitTesting, triggerAction,
                  setting, air, fc >>

AfterExit_StaysUp == "BIDIRECTIONAL"

(* The mode of the link a second after the exit was requested. *)
AfterExit == "UNIDIRECTIONAL"

UpdExit ==
  /\ \/ /\ upd_pc = "exit" /\ upd_pc' = "exit_wait"
        /\ requestExitTesting
        /\ requestExitTesting' = FALSE
        /\ UNCHANGED setting
     \/ /\ upd_pc = "exit_wait" /\ upd_pc' = "trigger"
        /\ SetMode(AfterExit)
        /\ UNCHANGED requestExitTesting
  /\ UNCHANGED << hmi, heard, testingMsg, triggerAction, mcu, air, fc >>

AtTrigger == upd_pc = "trigger" \/ (upd_pc = "exit" /\ ~requestExitTesting)

ClearEvent == 0

(* A second after triggerEvent the event is cleared: the message is filled. *)
BeginClear ==
  /\ AtTrigger
  /\ triggerAction
  /\ triggerAction' = FALSE
  /\ Fill(TRUE, ClearEvent)
  /\ upd_pc' = "clear"
  /\ UNCHANGED << hmi, heard, requestExitTesting, setting, mcu,
                  air, fc >>

(* And sent. *)
EndClear ==
  /\ upd_pc = "clear"
  /\ Send
  /\ upd_pc' = "top"
  /\ UNCHANGED << hmi, heard, testingMsg, requestExitTesting, triggerAction,
                  setting, air, fc >>

(* Nothing to clear, or not yet. *)
NoClear ==
  /\ AtTrigger
  /\ upd_pc' = "top"
  /\ UNCHANGED << hmi, heard, testingMsg, requestExitTesting, triggerAction,
                  setting, mcu, air, fc >>

(***************************************************************************)
(* The radio.                                                              *)
(***************************************************************************)

Silent == air = << >> /\ ~(mcu.enabled /\ mcu.mode = "BIDIRECTIONAL")

(* The MCU answers a packet of the flight computer with its buffer. *)
Uplink ==
  /\ mcu.enabled /\ mcu.mode = "BIDIRECTIONAL"
  /\ Len(air) < AirSize
  /\ air' = Append(air, mcu.payload)
  /\ UNCHANGED << hmi, heard, testingMsg, upd, setting, mcu, fc >>

Lose ==
  /\ air # << >>
  /\ air' = Tail(air)
  /\ UNCHANGED << hmi, heard, testingMsg, upd, setting, mcu, fc >>

(* A packet of the flight computer: state tells whether it is armed in
   testing mode, and the phase of the flight otherwise. *)
Downlink ==
  /\ mcu.enabled
  /\ heard' \in CASE ~InTestingMode  -> {"one", "other"}
                  [] m_testing_armed -> {"one"}
                  [] OTHER           -> {"other"}
  /\ UNCHANGED << hmi, testingMsg, upd, setting, mcu, air, fc >>

(* No packet for a second. *)
Fade ==
  /\ heard' = "nothing"
  /\ UNCHANGED << hmi, testingMsg, upd, setting,
                  mcu, air, fc >>

(***************************************************************************)
(* The flight computer.                                                    *)
(***************************************************************************)

ground == << hmi, heard, testingMsg, upd, setting, mcu >>

(* trigger_event puts the event, or waits in vain for a free slot. *)
Enqueued == IF queued < QueueSize THEN queued + 1 ELSE queued

MayTrigger_NoReset(msg) == msg.event # 0 /\ msg.enable_pyros

MayTrigger(msg) ==
  /\ msg.event # 0
  /\ msg.enable_pyros
  /\ m_event_reset

(* ParseRxMessage.  It does not ask for the mode the computer is in, and
   its MCU listens after every transmission in either mode. *)
Parse ==
  /\ air # << >>
  /\ air' = Tail(air)
  /\ LET msg == Head(air) IN
       /\ m_testing_armed' = msg.enable_pyros
       /\ pyro_en' = msg.enable_pyros
       /\ IF MayTrigger(msg)
          THEN /\ m_event_reset' = FALSE
               /\ fired' = Append(fired, msg.event)
               /\ queued' = Enqueued
          ELSE /\ m_event_reset' = (m_event_reset \/ msg.event = 0)
               /\ UNCHANGED << fired, queued >>
  /\ UNCHANGED ground

(* Two seconds without a packet. *)
TimeOut ==
  /\ InTestingMode
  /\ m_testing_armed' = FALSE
  /\ pyro_en' = FALSE
  /\ UNCHANGED << m_event_reset, queued, fired, air, ground >>

(* The Peripherals task takes an event, enables the pyro channels and
   performs the actions of the event. *)
Execute ==
  /\ queued > 0
  /\ queued' = queued - 1
  /\ pyro_en' = TRUE
  /\ UNCHANGED << m_testing_armed, m_event_reset, fired, air, ground >>

Reboot ==
  /\ m_testing_armed' = FALSE
  /\ m_event_reset'   = FALSE
  /\ queued'          = 0
  /\ pyro_en'         = FALSE
  /\ air'             = << >>
  /\ UNCHANGED << fired, ground >>

-----------------------------------------------------------------------------
TestingInit ==
  /\ testingState = "DISCLAIMER" /\ boxWindow = FALSE
  /\ hmi_pc = "loop" /\ presses = 0
  /\ heard = "nothing"
  /\ testingMsg = Nothing
  /\ transmissionMode = "UNIDIRECTIONAL" /\ newSetting = TRUE
  /\ requestExitTesting = FALSE /\ triggerAction = FALSE /\ upd_pc = "top"
  /\ mcu = [ enabled |-> FALSE, mode |-> "UNIDIRECTIONAL", payload |-> Nothing ]
  /\ air = << >>
  /\ m_testing_armed = FALSE /\ m_event_reset = FALSE
  /\ queued = 0 /\ pyro_en = FALSE
  /\ fired = << >>

HmiKey  == \/ Accept \/ Start \/ Started \/ StartTimeOut \/ LinkLost
           \/ OpenBox \/ CloseBox \/ Confirm \/ Back
HmiCall == HmiSend \/ HmiSetMode \/ HmiFlag
Update  == \/ UpdSettings \/ UpdInit \/ UpdExit \/ BeginClear \/ EndClear
           \/ NoClear
Radio   == Uplink \/ Lose \/ Downlink \/ Fade
Flight  == Parse \/ TimeOut \/ Execute \/ Reboot

TestingNext == HmiKey \/ HmiCall \/ Update \/ Radio \/ Flight

TestingSpec == TestingInit /\ [][TestingNext]_testingVars

(* Calls of the HMI and iterations of the link's task end; a packet in the
   air arrives or is lost; the flight computer times out when it hears
   nothing; its Peripherals task goes on.  Nobody has to press a key and
   the radio may never deliver anything. *)
TestingFairness ==
  /\ WF_testingVars(HmiCall)
  /\ WF_testingVars(Update)
  /\ WF_testingVars(Parse \/ Lose)
  /\ WF_testingVars(Silent /\ TimeOut)
  /\ WF_testingVars(Execute)

TestingFairSpec == TestingSpec /\ TestingFairness

-----------------------------------------------------------------------------
(***************************************************************************)
(* Properties.                                                             *)
(***************************************************************************)

(* Every confirmation triggers its event at most once, although the packet
   is repeated, lost and re-sent by two tasks, sessions are left and entered
   again, and the computer may reboot in between (Telemetry::triggerEvent,
   Telemetry::update, ParseRxMessage). *)
FiredOnce ==
  \A i, j \in 1 .. Len(fired) : i # j => fired[i] # fired[j]

(* Outside a session, once the call that ended it has returned, the link is
   unidirectional or the link's task is on its way to make it so: no order
   of the two tasks, not even leaving and starting again within the second
   of the exit, leaves the uplink open (Telemetry::exitTesting, update). *)
Closing == requestExitTesting \/ upd_pc = "exit_wait"

UplinkCloses ==
  ~InSession /\ hmi_pc = "loop" =>
    Closing \/ /\ transmissionMode = "UNIDIRECTIONAL"
               /\ \/ newSetting \/ upd_pc = "init"
                  \/ mcu.mode = "UNIDIRECTIONAL"

(* When the last session has been left for good, the flight computer ends up
   disarmed with its pyro channels disabled, even if every packet that says
   so is lost: the link falls silent and the computer times out. *)
LeavingDisarms ==
  <>[](~InSession) => <>[](~m_testing_armed /\ ~pyro_en)
=============================================================================
