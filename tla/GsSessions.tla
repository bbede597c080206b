---------------------------- MODULE GsSessions ----------------------------
(***************************************************************************)
(* When the ground station opens and closes a log: the sessions of         *)
(* Recorder::recordTask, with one rocket heard by both radios (SINGLE) or  *)
(* one rocket on each (DUAL).                                              *)
(*                                                                         *)
(* A log is opened by the first packet of a flying rocket while the        *)
(* recorder is armed, and closed when every rocket with a packet in it has *)
(* reported its touchdown, or by the user.  Then the recorder is disarmed  *)
(* until all of these rockets report again that they are ready, so that    *)
(* the packets of rockets lying in the grass open no new log.              *)
(*                                                                         *)
(* Module GsStorage models the same task against the USB drive, command by *)
(* command; here a command is one step, and the storage fails or does not. *)
(* The masks of the code are sets of links.                                *)
(***************************************************************************)
EXTENDS Naturals, Sequences, FiniteSets

CONSTANTS
  Dual,        (* receiverMode = DUAL.                                       *)
  NeverStop,   (* neverStopLogging: "Stop Logging" is set to never.          *)
  QueueDepth,  (* kQueueDepth.                                               *)
  Flights,     (* Bound on the flights of any two rockets.                   *)
  Stops        (* Bound on the requests of the user to close the log.        *)

ASSUME SessionAssumption ==
  /\ Dual \in BOOLEAN /\ NeverStop \in BOOLEAN
  /\ QueueDepth \in Nat \ {0} /\ Flights \in Nat \ {0} /\ Stops \in Nat

Links  == {1, 2}
Phases == {"ready", "flying", "touchdown"}

(* In SINGLE mode both links have the same phrase and hear the same rocket. *)
RocketOf(l) == IF Dual THEN l ELSE 1

Rockets == {RocketOf(l) : l \in Links}

VARIABLES
  phase,       (* What each rocket reports: state <= 2, 3 .. 6 or 7.         *)
  flight,      (* The number of each rocket's flight.                        *)
  queue,       (* Commands for the recorder's task.                          *)
  stops,       (* Requests of the user so far.                               *)
  failing,     (* The storage fails now and then; FALSE for good.            *)
  file,        (* none, open, or closed by a finalizeFile that failed;       *)
               (* fileCreated is file # "none".                              *)
  state,       (* status.state.                                              *)
  armed,
  touchdownMask,
  rearmMask,
  completedParticipantMask,
  participantMask,
  log,         (* History: the number of the log opened last.                *)
  logged       (* History: which flight has a packet in which log.           *)

world   == << phase, flight, stops, failing >>
session == << file, state, armed, touchdownMask, rearmMask,
              completedParticipantMask, participantMask, log, logged >>
vars    == << phase, flight, stops, failing, queue, file, state, armed, touchdownMask,
              rearmMask, completedParticipantMask, participantMask, log,
              logged >>

Sample(l) == [type |-> "sample", link |-> l, state |-> phase[RocketOf(l)],
              flight |-> flight[RocketOf(l)]]

FinalizeCommand == [type |-> "finalize"]

Init ==
  /\ phase = [r \in Rockets |-> "ready"] /\ flight = [r \in Rockets |-> 0]
  /\ stops = 0 /\ failing = TRUE /\ queue = << >>
  /\ file = "none" /\ state = "Idle" /\ armed = TRUE
  /\ touchdownMask = {} /\ rearmMask = {}
  /\ completedParticipantMask = {} /\ participantMask = {}
  /\ log = 0 /\ logged = {}

-----------------------------------------------------------------------------
(* The rockets.                                                             *)

Liftoff(r) ==
  /\ phase[r] = "ready" /\ flight[r] < Flights
  /\ \A q \in Rockets \ {r} : flight[r] + flight[q] < Flights
  /\ phase'  = [phase EXCEPT ![r] = "flying"]
  /\ flight' = [flight EXCEPT ![r] = @ + 1]
  /\ UNCHANGED << stops, failing, queue, session >>

Land(r) ==
  /\ phase[r] = "flying"
  /\ phase' = [phase EXCEPT ![r] = "touchdown"]
  /\ UNCHANGED << flight, stops, failing, queue, session >>

(* The flight computer is switched off and on.                              *)
Reboot(r) ==
  /\ phase[r] = "touchdown"
  /\ phase' = [phase EXCEPT ![r] = "ready"]
  /\ UNCHANGED << flight, stops, failing, queue, session >>

(* From some moment on the storage fails no more.                           *)
Recovers ==
  /\ failing
  /\ failing' = FALSE
  /\ UNCHANGED << phase, flight, stops, queue, session >>

-----------------------------------------------------------------------------
(* What comes into the queue.                                               *)

HasRoom == Len(queue) < QueueDepth

(* onTelemetryPacket.                                                       *)
Packet(l) ==
  /\ HasRoom
  /\ queue' = Append(queue, Sample(l))
  /\ UNCHANGED << world, session >>

(* onTelemetryPacket with a full queue; a lost packet else changes nothing. *)
Overflow ==
  /\ Len(queue) = QueueDepth
  /\ state' = "Fault"
  /\ UNCHANGED << world, queue, file, armed, touchdownMask, rearmMask,
                  completedParticipantMask, participantMask, log, logged >>

(* finalize, from the HMI.                                                  *)
Stop ==
  /\ stops < Stops /\ HasRoom
  /\ stops' = stops + 1
  /\ queue' = Append(queue, FinalizeCommand)
  /\ UNCHANGED << phase, flight, failing, session >>

-----------------------------------------------------------------------------
(* recordTask.                                                              *)

Take(kind) ==
  /\ queue # << >>
  /\ Head(queue).type = kind
  /\ queue' = Tail(queue)
  /\ UNCHANGED world

Ready(s) == s.state = "ready"

CanRearm_AnyReady(ready) == TRUE

(* Whether a disarmed recorder is armed again, with these rockets ready.    *)
CanRearm(ready) ==
  \/ ~ Dual
  \/ completedParticipantMask # {} /\ completedParticipantMask \subseteq ready

(* A packet for a disarmed recorder.                                        *)
Rearm(s) ==
  LET ready == IF Ready(s) THEN rearmMask \cup {s.link} ELSE rearmMask
      rearms == Ready(s) /\ CanRearm(ready)
  IN  /\ rearmMask' = ready
      /\ armed' = rearms
      /\ completedParticipantMask' = IF rearms THEN {} ELSE completedParticipantMask
      /\ participantMask' = IF rearms THEN {} ELSE participantMask
      /\ UNCHANGED << file, state, touchdownMask, log, logged >>

(* setFault, with the participants as they are.                             *)
Fault ==
  /\ state' = "Fault"
  /\ UNCHANGED << armed, touchdownMask, rearmMask, completedParticipantMask >>

(* No file system, or no new file: nothing but the fault.                   *)
NotOpened ==
  /\ failing
  /\ Fault
  /\ UNCHANGED << file, participantMask, log, logged >>

(***************************************************************************)
(* writeSample opens the log if there is none, which empties the status,   *)
(* and adds the link to the participants.                                  *)
(***************************************************************************)
Opened(s) ==
  /\ file' = IF file = "none" THEN "open" ELSE file
  /\ log'  = IF file = "none" THEN log + 1 ELSE log

Joined(s) == IF file = "none" THEN {s.link} ELSE participantMask \cup {s.link}

NotWritten(s) ==
  /\ failing \/ file = "closed"
  /\ Fault
  /\ Opened(s)
  /\ participantMask' = Joined(s)
  /\ UNCHANGED logged

Entry(s) == << RocketOf(s.link), s.flight, log' >>

(* The row is written, but the sync that is due fails.                      *)
NotSynced(s) ==
  /\ failing /\ file # "closed"
  /\ Fault
  /\ Opened(s)
  /\ participantMask' = Joined(s)
  /\ logged' = logged \cup {Entry(s)}

Ends(s) == s.state = "touchdown"

Landed_Last(s) ==
  IF Ends(s) THEN {s.link} ELSE touchdownMask

(* The links that reported their touchdown in this session.                 *)
Landed(s) ==
  IF Ends(s) THEN touchdownMask \cup {s.link} ELSE touchdownMask

Complete_Any(s) == Ends(s)

(* Whether this packet completes the mission.                               *)
Complete(s) ==
  /\ Ends(s)
  /\ ~ Dual \/ Joined(s) \subseteq Landed(s)

StateAfter == IF file = "none" THEN "Recording" ELSE state

Written(s) ==
  /\ file # "closed"
  /\ ~ Complete(s) \/ NeverStop
  /\ Opened(s)
  /\ participantMask' = Joined(s)
  /\ touchdownMask' = Landed(s)
  /\ state'  = StateAfter
  /\ logged' = logged \cup {Entry(s)}
  /\ UNCHANGED << armed, rearmMask, completedParticipantMask >>

Finalized_Forgotten(participants) ==
  /\ file'  = "none" /\ state' = "Idle"
  /\ armed' = FALSE
  /\ rearmMask' = {} /\ touchdownMask' = {}
  /\ completedParticipantMask' = {}

(* finalizeFile that succeeds.                                              *)
Finalized(participants) ==
  /\ file'  = "none" /\ state' = "Idle"
  /\ armed' = FALSE
  /\ rearmMask' = {} /\ touchdownMask' = {}
  /\ completedParticipantMask' = participants

(* finalizeFile whose sync fails: the file is closed, and still created.    *)
NotFinalized(landed) ==
  /\ failing \/ file = "closed"
  /\ file'  = "closed" /\ state' = "Fault"
  /\ touchdownMask' = landed
  /\ UNCHANGED << armed, rearmMask, completedParticipantMask >>

(* The packet that completes the mission is written and the log closed.     *)
WrittenLast(s) ==
  /\ file # "closed"
  /\ Complete(s) /\ ~ NeverStop
  /\ log' = IF file = "none" THEN log + 1 ELSE log
  /\ participantMask' = Joined(s)
  /\ logged' = logged \cup {Entry(s)}
  /\ Finalized(Joined(s)) \/ NotFinalized(Landed(s))

TakeSample ==
  /\ Take("sample")
  /\ LET s == Head(queue)
     IN  \/ ~ armed /\ Rearm(s)
         \/ armed /\ s.state = "ready" /\ UNCHANGED session
         \/ /\ armed /\ s.state # "ready"
            /\ \/ NotOpened  \/ NotWritten(s) \/ NotSynced(s)
               \/ Written(s) \/ WrittenLast(s)

TakeFinalize ==
  /\ Take("finalize")
  /\ \/ file = "none" /\ UNCHANGED session
     \/ /\ file = "open"
        /\ Finalized(participantMask)
        /\ UNCHANGED << participantMask, log, logged >>
     \/ /\ file # "none"
        /\ NotFinalized(touchdownMask)
        /\ UNCHANGED << participantMask, log, logged >>

Next ==
  \/ \E r \in Rockets : Liftoff(r) \/ Land(r) \/ Reboot(r)
  \/ \E l \in Links : Packet(l)
  \/ Overflow \/ Stop \/ Recovers
  \/ TakeSample \/ TakeFinalize

Spec == Init /\ [][Next]_vars

(***************************************************************************)
(* The task is scheduled, and of the packets of each link some come        *)
(* through, again and again.                                               *)
(***************************************************************************)
Fairness ==
  /\ WF_vars(TakeSample \/ TakeFinalize)
  /\ \A l \in Links : SF_vars(Packet(l))

FairSpec == Spec /\ Fairness

-----------------------------------------------------------------------------
(***************************************************************************)
(* The packets of one flight are never spread over two logs: what follows  *)
(* the end of a session, late packets in the queue, rockets on the ground  *)
(* that go on sending, does not open another log.                          *)
(***************************************************************************)
OneLogPerFlight ==
  \A e, f \in logged : e[1] = f[1] /\ e[2] = f[2] => e[3] = f[3]

(***************************************************************************)
(* A recorder that is disarmed waits for somebody: in DUAL mode an empty   *)
(* completedParticipantMask would disarm it for good.  While a log is open *)
(* it is armed, knows a participant, and does not say it is idle.          *)
(***************************************************************************)
NotStuck ==
  /\ ~ armed => completedParticipantMask # {} /\ file = "none"
  /\ file # "none" => participantMask # {} /\ state # "Idle"

FlightsInLog(l) == {f \in 1 .. Flights : << RocketOf(l), f, log >> \in logged}

(***************************************************************************)
(* No flight is cut off: when a log is closed as complete, no rocket is in *)
(* the air on the only flight it has in that log.  (One that landed, was   *)
(* switched on again and launched while the log was still open may be.)    *)
(***************************************************************************)
NoneCutOff ==
  [][ file' = "none" /\ TakeSample /\ armed /\ ~ armed' =>
        \A l \in participantMask' :
           phase[RocketOf(l)] = "flying"
              => FlightsInLog(l)' # {flight[RocketOf(l)]} ]_vars

(***************************************************************************)
(* "Stops logging after touchdown" (docs/Chapters/4_GroundStation.typ:100):*)
(* a log does not stay open when all its rockets have landed, whatever was *)
(* lost to a full queue or to a storage that failed until then.            *)
(***************************************************************************)
LogCloses ==
  [](file = "open" /\ ~ failing =>
       <>(file = "none"
            \/ \E l \in participantMask : phase[RocketOf(l)] # "touchdown"))

(***************************************************************************)
(* When all rockets are ready the recorder is armed, whatever sessions     *)
(* were before.                                                            *)
(***************************************************************************)
Rearms == []<>(armed \/ \E r \in Rockets : phase[r] # "ready")
=============================================================================
