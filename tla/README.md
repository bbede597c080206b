# The CATS flight computer and ground station, in TLA+

This directory holds TLA+ models of the firmware in this repository, the TLC
configurations that check them and TLAPS proofs of the properties that matter
most. It is written for someone who has the repository open next to it.

## 1. The system

Three firmwares are built from the repository.

| firmware | where | runs on | shape |
| --- | --- | --- | --- |
| flight computer | `flight_computer/src` | STM32F411, FreeRTOS | tasks of one priority (`tasks/task.hpp:90`), time-sliced, and interrupts |
| telemetry MCU | `telemetry/src` | STM32G071, bare metal | one main loop and the radio's interrupts |
| ground station | `ground_station/src` | ESP32-S2, FreeRTOS | tasks for the HMI, each radio link, the recorder, the USB callbacks |

The telemetry MCU is built into both ends of the radio link: the same program is
the transmitter's modem in the rocket and the receiver's in the ground station.

### Components, state and operations

| component | state | operations | interacts with |
| --- | --- | --- | --- |
| flight state machine (`control/flight_phases.cpp`) | state, memory counter, tick of thrusting, tick of coasting, safety counter | `check_flight_phase`, once every 10 ms | reads the estimates; starts events |
| events (`tasks/task_peripherals.cpp`, `init/config.cpp`) | event queue, set of fired events, timers, pyro enable | `trigger_event`, timer callback, `Peripherals::Run` | state machine, timers, testing mode; runs the actions |
| actions (`util/actions.cpp`) | pyro, GPIO and servo outputs, recorder state | one function per action | recorder, hardware |
| recorder (`flash/recorder.cpp`, `tasks/task_recorder.cpp`) | recorder state, command queue, element queue, log file, statistics | `set_recorder_state`, `record`, the task's commands | actions, CLI, all tasks that record |
| estimation (`task_preprocessing.cpp`, `task_state_est.cpp`, `control/`) | sensor faults, median window, Kalman filter, orientation | one step every 10 ms | sensors to state machine |
| health monitor, battery, errors | battery level with hysteresis, error bits, beep | periodic check | all tasks |
| telemetry of the flight computer (`task_telemetry.cpp`) | settings, receive parser, testing mode (armed, reset, timeout), power level | pack, parse, adaptive power | telemetry MCU over a UART |
| serial line (`comm/fifo.cpp`, `task_telemetry.cpp`) | FIFO with its flag, lock and state of the UART driver, parser state | receive interrupt, drain, start of reception | MCU, telemetry task |
| flash of the flight computer (`init/system.cpp`, `config/cats_config.cpp`, LittleFS) | flight counter, configuration, logs, each also in RAM | mount, load, save, format, open, write, sync, close | recorder task, command line |
| telemetry MCU (`telemetry/src`) | radio state, frequency hop, link quality, transmit buffer | serial commands, receive, transmit, time-out | flight computer or ground station over a UART, the other MCU over the radio |
| ground station telemetry (`telemetry/telemetry.cpp`) | link settings, testing message, data of the link | `update`, `enterTesting`, `triggerEvent`, `exitTesting` | HMI, MCU |
| ground station HMI (`hmi/hmi.cpp`) | menu state, testing state, confirmation box | one `loop` every 50 ms | all others |
| ground station storage and USB (`utils.cpp`) | who owns the flash: program, computer or firmware update | `update`, requests, USB callbacks | recorder, HMI, host |
| ground station recorder (`logging/recorder.cpp`) | file, request, status | telemetry packets, `recordTask` | telemetry, storage, HMI |

Everything under a `lib/` directory, the HAL start-up files and the generated
files is third-party code, and by far most of the lines of the repository. It is
outside the project except where a property turns on it: the lock and the receive
interrupt of the UART driver (`SerialLink`) and what LittleFS commits when
(`FlashStore`). Where the firmware relies on other such code (a FreeRTOS queue, the
radio channel) the module says what it assumes.

### What is hard about it

* The tasks of the flight computer share one priority and are time-sliced, so any
  two of them interleave at any statement; most of the shared state has no lock.
* Events are decided in one task, put in a queue, run in another, and may start
  timers whose callbacks decide further events.
* The radio loses packets, the MCU repeats them, both ends have time-outs, and the
  flight computer may reboot while it is armed.
* Counters are compared for streaks, a tick wraps at 2^32 ms, a safeguard races the
  normal path from liftoff to apogee.
* An interrupt fills a FIFO that a task empties, behind a flag that makes nobody
  wait, and drops what it cannot store; a parser has to find back into step.
* The power may go between any two commits to the flash; the counter of flights,
  the settings and the logs are separate files.
* The flash of the ground station is owned by the program or by the computer on the
  USB port, never by both, and ownership moves through flags in three contexts.

What makes each component correct follows from that:

* the state machine: phases in order, on unbroken evidence, never stuck;
* the events: nothing fires on the pad, nothing announced is forgotten, everything
  at most once;
* the notice of a phase: no task misses one;
* testing mode: an event fires once, only when armed, and leaving disarms;
* the recorders: files opened and closed in order, a log is complete, no log without
  a file system;
* the flash of the ground station: one owner, and it comes back;
* the radio link: both ends in step, found again after any loss;
* the serial line: the FIFO is a queue, what arrives is whole and in order, and
  reception and the parser recover;
* the flash of the flight computer: no log is overwritten, one loses at most its
  end, and a boot finds the settings that were saved;
* sensors and errors: what is faulty is not used, and is reported.

PROJECT.json lists each hazard with its line and the properties that cover it.

## 2. The modules and the code

| module | models | variables and actions in the code |
| --- | --- | --- |
| `FlightTypes` | the phases, the events, the graph of phases | `flight_fsm_e`, `cats_event_e` |
| `PhaseOrder` | what the state machine promises about the order of phases (abstract specification) | one action: go to a successor |
| `FlightPhases` | `check_flight_phase` and the loop around it | `Iterate` is one call, `holds` the verdict of the phase's condition on the data; ticks are counted modulo 2^w |
| `EventPipeline` | `trigger_event`, the timers' callbacks, the event queue, `Peripherals::Run`, the actions | one action per step of a thread between two accesses of shared data: the state machine (from `PhaseOrder`), the timer daemon, Peripherals, and the telemetry task with what it does for a packet that carries the test phrase |
| `PhaseNotice` | `change_state_to`'s event flags, `GetNewFsmEnum` of the other tasks, the adaptive power | `Tick` is the kernel's time; `FsmStays`, `FsmClear` and `FsmSet` an iteration of the state machine; `Look` one of another task; `Poll` and `Switch` the telemetry task's look and, after its transmits and the drain, its power switch |
| `TestingMode` | HMI, `Telemetry::update` of the ground station, the MCU's transmit register, the radio, the flight computer's telemetry task, Peripherals | one action per step between two accesses of `testingMsg`, the MCU or the air |
| `Recorder` | `set_recorder_state`, `record`, `task_recorder` and its file | one action per access of status, command queue or element queue |
| `GsStorage` | `Utils::update`, the MSC callbacks, `recordTask`, the HMI's requests, all against `usbStorageState` | one action per test or store of a shared flag and per wait |
| `GsSessions` | the masks and the armed flag of `recordTask` | one action per packet or command taken from the queue |
| `RadioLink` | `Transmission` at both ends of the link | `Wait` lets time pass to the next event; `TxTimer`, `PacketEnd`, `AnswerEnd`, `RxTimer` are the interrupts |
| `LinkQuality` | `LqCalculator` and its calls | one step per period of the receiver |
| `SerialLink` | the MCU's frames, the UART's receive interrupt, `fifo_t`, the drain and the parser of `Telemetry::Run` | one action per step of the task between which the interrupt matters; `Receive` and `Overrun` are the interrupt, in whole |
| `ByteQueue`, `LossyLink` | what the FIFO and what the serial line promise (abstract specifications) | put, get; send, lose, arrive |
| `FlashStore` | `init_lfs`, `cc_load`, `cc_save`, the console's commands on the flash, the recorder task's use of LittleFS, loss of power | one action per commit to the flash; `PowerLoss` at any moment |
| `LogArchive` | what the flash promises a reader of the logs (abstract specification) | create, extend the last log, remove, wipe |

`MC*` modules give the constants of a module that needs functions or sets for
them; `*_proofs` modules hold the theorems. The theorems about `TestingMode`,
`FlashStore` and `SerialLink` are in the proof module of the component nearest to each
(`RadioLink_proofs`, `Recorder_proofs`, `LinkQuality_proofs`), which extends both; their
specifications have names of their own for that (`TestingSpec`, `FlashSpec`,
`SerialSpec`). Names are those of the source where TLA+ allows it. Operators whose name has an ending after an underscore
(`MayLeave_Early`) are deliberately wrong variants; nothing refers to them, they
record which mistake in the code each property notices.

How the modules fit together: `EventPipeline` instantiates `PhaseOrder`, which
`FlightPhases` is shown to implement. `PhaseNotice` takes the graph of phases
from `FlightTypes` and the length of the shortest phase from the counters that
`FlightPhases` checks. `SerialLink` instantiates `ByteQueue` and `LossyLink` and
`FlashStore` instantiates `LogArchive`, each with a refinement mapping. `TestingMode`
takes the serial line for reliable; what `SerialLink` says of a lost frame is there
a packet lost on the air. `Recorder` knows in which order files are opened,
written and closed, `FlashStore` what of them is in the flash at each moment. `LinkQuality` relies on what `RadioLink` shows (one packet
or one expiry of the timer in each period, until the receiver's timer has drifted into
a packet). `MCDownlink` puts `LinkQuality` and `PhaseNotice` side by side in one
instance, the downlink; they share nothing, and a behaviour exercises one of them. `GsSessions` and `GsStorage` are two
views of the same task: the first knows what the packets mean and treats a file
operation as one step that may fail, the second knows every step of the file
operations and of the owners of the flash and reduces the packets to "the recorder
wants to write".

### Abstractions worth knowing

* `FlightPhases`: the sensor data are one Boolean. Any sequence of verdicts is
  possible, also those no flight produces.
* `EventPipeline`: time is not counted, so a running timer may expire, and the ground
  station fall silent, at any moment. The callback's undefined second argument (see the
  findings) is a nondeterministic Boolean. `TestingEnabled` is what the telemetry task
  reads five seconds after the others began; `main.cpp:153-167` does not start the state
  machine in testing mode, so `TRUE` beside a state machine needs the configuration to
  change in these seconds, and is there to have both writers of the pyro enable at once.
* `PhaseNotice`: how late a task runs and how long it takes is left open. The level of
  power before the flight is taken for set.
* `TestingMode`: one key per pass of the HMI, one link, one screen for all that are
  not the testing screen. A delay ends at any moment, a packet is kept for at most
  `AirSize` places in the air.
* `Recorder`: one task records for all of them; a record fills a place of the block
  exactly, whereas the code splits one across two blocks.
* `GsStorage`: SINGLE mode; screens are DATA or not. A list of files is the set of
  its used entries.
* `GsSessions`: the receiver mode does not change in a session. `failing` says
  whether the storage fails its operations now; once `Recovers` has happened it
  does not fail again.
* `SerialLink`: a byte is its value and, for the last one of a frame, the frame, so
  that a CRC matches by accident never. What the task transmits, before the drain and after it, is only the
  moment in which it holds the lock of the driver, and whether it timed out. Time is the number of the task's iterations.
* `FlashStore`: all settings are one value. A block of a log is the flight it is of.
  A commit is atomic, and a new file is found empty until its first commit, which is
  what LittleFS promises. A format that is interrupted leaves the old file
  system, none, or an empty one. The console and the recorder task take
  turns (section 5 says what if not), and writes other than those of log blocks do
  not fail.
* `RadioLink`: a packet is heard if the receiver was on its channel from beginning
  to end and the radio did not lose it. Time is in the transmitter's ticks; how many of
  them a period of the receiver takes is drawn from `Spans` each time, since its
  oscillator is another one.

## 3. The runs

Runs that must pass:

| run | instance | what it shows |
| --- | --- | --- |
| `flight_phases` | thresholds 1 and 2, ticks modulo 8 | the phases are walked in order, each left after an unbroken run of evidence where the code demands one, the gate of the code measures the coast from the end of thrust across wraps of the tick, and a condition that persists leaves its phase |
| `pipeline` | queue of 2, one timer (the backup of apogee), packets that arm and throw apogee and packets that disarm | with puts that time out: nothing fires on the pad unless a packet threw an event that is not harmless there, an announced event is executed, queued or counted as lost, the pyros stay armed unless the telemetry task disarms them, and a detected apogee is acted on unless its put timed out or touchdown came first |
| `testing_mode` | one press, any number of sessions and reboots, one place in the air | a confirmed event is triggered at most once; the uplink closes after a session, leaving disarms the rocket even over a dead radio |
| `recorder` | five calls, six records, blocks of two, queue of three | the file is opened and closed in order, a log begins with the records from before liftoff and is one run of records but for the stale ends of blocks, wherever the task waited in vain, and after the last call the task settles to what the status says |
| `gs_storage` | queue of 1, failures, samples of a flight; requests to share and the sync before a log is read answered too late | one owner of the flash; nobody in the firmware works on files without a file system, the HMI unless a request to share it gave up on is carried out later; a computer that is unplugged for good gives the flash back |
| `gs_sessions` | two rockets with three flights between them, one stop, a storage that fails until some moment | a flight is in one log; a log is not closed while one of its rockets flies; the recorder never waits for nobody; a log of landed rockets is closed and ready rockets arm the recorder again |
| `radio_link` | bidirectional, transmitter's period 10, receiver's now 9, now 11, now 12, airtime 3, 7 hops, lost after 4, scan after 2 | until its timer has drifted into a packet a connected receiver is on the channel of every packet and gives up only after the set number of misses; its answer is always heard; it finds the transmitter again after any losses, restarts and drift |
| `downlink` | `LinkQuality`: ring of 5 bits in words of 2, lost after 7, packets may be damaged. `PhaseNotice`: periods 2 and 20, shortest phase 22, up to 3 late | the running total is the number of set bits; the quality is the ratio of packets received once the ring holds no damaged packet, and has faded to zero when the link is given up. A task misses a phase only if it is late by the margin; the power is raised in flight unless the telemetry task was that late or a transmit timed out |
| `serial_link` | two frames of four bytes that look like parts of each other, a FIFO of 3, reception restarted after one silent iteration | the FIFO is a queue; frames arrive whole, in order and at most once whatever bytes are lost; reception comes back when it could not be re-armed or a transmit turned it off; once bytes are no longer lost and a frame that looks like no other keeps coming, frames get through |
| `flash_store` | two firmware versions, three flights of up to four blocks, room for six, a sync every two | no log is overwritten or numbered below another; a log is the beginning of what was recorded, short of at most one sync period; a boot ends with the settings saved last, or with the defaults and an error |

Two runs show a disagreement. Each checks one property, taken from the manual, which
TLC refutes:

| run | the code | the text |
| --- | --- | --- |
| `safeguard` | the gate compares the time since the end of thrust (`flight_phases.cpp:164`, `:117`), so 3 s of thrust and 1.4 s of coast are dropped | `3_Vega.typ:154`, "A software safeguard checks the time between liftoff and apogee" |
| `unique_events` | with three timers: a timer's callback has an undefined `event_unique`, and the actions of an event are performed twice | `3_Vega.typ:385`, "Events are unique" |

### Why the bounds are enough

* Counters and queues are compared with their thresholds only; each instance is
  long enough to be below, at and above each threshold, and to come round once
  (ticks modulo 8 wrap in every coast, the ring of 5 bits crosses a word of 2).
  The proofs hold for all values and take the sizes out of the question where they
  exist.
* The event queue of 2 in `pipeline` is full as soon as Peripherals sits in a delay
  while two events are thrown, so puts time out. With the code's 16 places a put
  times out only with more events than one flight throws: the state machine
  announces seven, a timer that is not chained adds one each. `NothingForgotten`
  is proved for every size.
* Real values of the link: 1000 counts for the transmitter and 1005 for the receiver,
  each of its own oscillator, a packet of about 329 counts, 20 hops, lost after 50
  misses, a scan that dwells for 6 hops. In the instance the receiver's timer drifts
  either way: a slow one, 5 times by up to 2, past the 7 ticks between packets, and a
  fast one (9) expires before the next packet has ended. The scan dwells 3 hops of 7, so
  the transmitter is not always met in the first dwell. The theorems also cover the link
  in one direction only (`Bidirectional = FALSE`).
* `PhaseNotice` uses the real proportions in units of 5 ms: 10, 100 and 110 ms. Tasks
  are up to a period and a half of the state machine late, so the margin of the telemetry
  task (10 ms) is kept by some and passed by others.
* `TestingMode`: one press is repeated by the MCU, cleared, reset by a reboot and
  met again in a later session. Reboots and sessions are not bounded.
* `GsSessions`: with three flights one rocket flies twice, or both fly and one of
  them again; `SINGLE` mode and "never stop logging" are constants of the module,
  for which the theorem holds too.
* `SerialLink`: a FIFO of 3 is shorter than a frame, as the code's 40 bytes are
  shorter than what the MCU can send between two drains: it overflows in the
  middle of a frame, wraps, and the byte that is left unread is there. The bytes 1
  of the first frame can each be taken for an op code, a length and a payload. Task
  iterations count up to the silence limit and one more.
* `FlashStore`: three flights give a log that is closed, one cut by a loss of power and
  one after it; four blocks are two sync periods; six blocks fill the flash in the
  second flight. Losses of power, boots, formats, saves and changes of the firmware
  are not bounded.
* `GsStorage`: `MayTimeOut` names the requests that may be answered too late. The run
  has both that share the flash and the sync before a log is read; a request that was
  given up on stays queued and is carried out later (`late`).

### Fairness

* The tasks of the flight computer have one priority and are time-sliced
  (`tasks/task.hpp:90`), so each that can run does: weak fairness for every task
  (`FlightPhases`, `EventPipeline`, `Recorder`).
  The timer daemon has a lower priority, but the tasks sleep in between. In
  `Recorder` the end of filling (`LeaveFill`) has a condition of its own: it is
  looked at once in 16 iterations also when the records do not pause.
* The tasks of the ground station are created with priority 1 each, or are the
  USB library's: weak fairness for the calls and the loops in `TestingMode`.
* `GsStorage` asks for less than that: that `Utils::update` goes on, that a USB
  callback that began ends, and that the recorder, which holds the mutex to
  share the drive, gives it back.
* `SerialLink`: weak fairness for the task. An interrupt that is enabled while a byte
  waits is taken again and again (strong fairness for `Receive`), since the task switches
  it off for moments only; a byte that comes while reception is off is lost by the
  hardware (weak fairness). Strong fairness of sending only for the frames in
  `Periodic`: the MCU of the rocket, which transmits in one direction, never has link
  information to report (`Transmission.cpp:192`, `:256`), and without a fix only the
  temperature keeps coming, every 2 s. `Resyncs` therefore assumes no more than one
  periodic frame, but one whose bytes do not look like a frame. That is what the measured
  payload decides. Repeated for ever, a temperature between 8 and 32 °C (its last byte is
  then 0x41, the op code of the time) whose CRC is 4 or 11, and so taken for a
  length, can keep the parser out of step. The frames that are not periodic may come or
  not, and may look like anything.
* `GsSessions`: a rocket that is switched on is heard again and again (strong
  fairness for the packets of each link), because a single packet may be dropped.
* `RadioLink`: time passes and interrupts are served. Nothing is assumed about
  losses, except by the property, which speaks of a radio that stops losing packets.

`PhaseNotice`, `LinkQuality` and `FlashStore` check safety only and need no fairness.

### Deadlock

TLC checks for deadlock except where the system of the model really ends:
`EventPipeline` (after touchdown, with all timers expired, nothing happens) and
`Recorder` (the calls and records are bounded).

## 4. The proofs

| module | theorem | argument |
| --- | --- | --- |
| `FlightPhases_proofs` | `TypeCorrect`, `DebouncedHolds`, `ApogeeGateHolds`, `Refinement` | the counter is tied to the length of the streak of evidence (`CounterIsStreak`), the wrapped difference of ticks to the age of the coast (`CoastClock`); a step that leaves a phase finds the counter above its threshold |
| `EventPipeline_proofs` | `TypeCorrect`, `PadSafety`, `NothingForgotten` | before liftoff, and until a packet throws another, only events of the set closed under the timers' chains are anywhere in the pipeline; an announced event is marked, and a marked event is in a thread's hands, in the queue, executed or lost |
| | `ArmingLasts` | unless a packet throws it, EV_CALIBRATE is put once, into the empty queue, before anything but a packet has armed the channels; its mark survives every stale word the timer daemon stores (`CalibratedOnce`) |
| `PhaseNotice_proofs` | `TypeCorrect`, `NoTaskMissesAPhase`, `BoostedUnlessLate` | `Due`: for a task that has not seen the phase, the time since the phase was entered plus the time to the task's next look is at most its period and what the state machine was late; a telemetry task that looked just before has only its own next look ahead (`LookedBefore`) |
| `RadioLink_proofs`, about `TestingMode` | `EventsFireOnce` | the events in the air, in the MCU's buffer and in the message, in this order, never decrease, none of them fires again that fired before a 0, and all are ahead of those fired once the 0 has arrived (`WayInv`); a loss, a repetition, a copy or a reboot reads the same sequence again from front to back (`Samples`), which keeps all of that |
| | `UplinkClosesAgain` | outside a session, with the HMI at rest, the mode is unidirectional or the link's task is on its way to make it so (`ExitFollows`), and a mode that is set reaches the MCU (`ModeFollows`) |
| `RadioLink_proofs`, about `RadioLink` | `TypeCorrect`, `StaysInStep`, `AnswersAreHeard`, `NotGivenUpEarly` | the difference of the two timers is the drift accumulated by the misses so far, in each of four phases of a period, until it reaches into a packet; the answer follows the end of the packet and depends on no clock |
| | `CloseClocksStayInStep` | a drift of at most `Most` in each period is at most (LostAfter + 1) * Most when the connection is given up, and never reaches a packet if that is less than the pause between two |
| `Recorder_proofs`, about `Recorder` | `OneCallerDiscipline` | with one caller the commands still in the queue, applied to the file, lead to what the status says (`CommandsInv`) |
| | `OneCallerPreRecorded`, `OneCallerLog` | the log without its stale slots, the buffer and the queue each hold a run of records up to the one that comes to them next, with no gap but the refused ones, wherever the task waited in vain and wrote a block that was not full (`RecordsInv`) |
| `Recorder_proofs`, about `FlashStore` | `TailOnly`, `ArchiveIsKept` | the stored flight counter is never below the number of a log, the one in RAM is above both from the start of a flight on; the blocks not committed are as many as the counter of the sync says (`ArchiveInv`) |
| | `SettingsFound` | the file holds what the user saved last as long as that is valid, and else nothing or the defaults (`SettingsInv`) |
| `GsStorage_proofs` | `TypeCorrect`, `FlashHasOneOwner`, `RecorderKeepsFileSystem` | the owner's state restricts where each task can be; the recorder works on files only between a claim and the next share |
| | `HmiKeepsFileSystem` | the HMI waits for one request at a time (`RequestsInv`); a request to share that is carried out is the one it waits for, and then it does not work on files and claims nothing, or one it has given up on (`late`) |
| `GsSessions_proofs` | `NeverStuck` | the property is inductive: whoever ends a session has a packet in it |
| | `FlightsStayTogether`, `NoFlightIsCutOff` | packets of a rocket come in order (`WorldInv`), so the first ready packet after a session is behind all of the flight logged in it; the recorder waits for one from each participant and drops those before it (`SessionInv`) |
| `LinkQuality_proofs`, about `LinkQuality` | `TotalIsRight` | the running total is the cardinality of the set bits, and the bit that is overwritten is the one that was taken off |
| | `QualityIsRatio`, `QualityFades` | the cursor walks over every bit and wraps (`FollowingBit`); from it backwards the bits are the last periods, and clear for as long as packets have been missing (`BitsInv`) |
| `LinkQuality_proofs`, about `SerialLink` | `FifoServes` | the count, less the byte being taken, is the distance of the two ends; while the task is between load and store the flag keeps the count from changing (`SerialInv`) |
| | `FramesArrive` | `Ends` takes concatenation to concatenation (`EndsConcat`): a byte that moves from the wire to the FIFO to the task leaves the frames underway as they are, a byte that is lost takes its frame or none (`LinkLoses`), and a CRC that matches gives the frame in front |

The theorems about the properties of the runs say of the specification of the module what
the run checks of an instance (`Spec => []Inv`, `Spec => [][A]_vars` or
`Spec => AbstractSpec`), each from an inductive invariant, which the third column names
where the property itself is not inductive. They hold for all values of the constants that satisfy the
named assumptions of the modules (`TaskAssumption`, `PadAssumption` and so on); the
instances satisfy them, since TLC evaluates them. None of them says how late a task may
be, or ties one oscillator to the other. What the code does when a task is late, or when
the two clocks of the link differ, is in the models, and the properties name it:
`TooLate`, `behind` and `unsent` in `PhaseNotice`, `slipped` in `RadioLink`.

How much that takes is worth a remark.

* The telemetry task, with 100 ms between its looks and phases of 110 ms, may be late by
  10 ms before it misses one, less what the state machine was late. Nothing in the code
  guarantees that: some ten tasks share the processor in slices of 1 ms.
* `CloseClocksStayInStep` in the code's counts: the receiver's 1005 counts last longer
  than the transmitter's 1000 only if its clock is at most 0.5 % fast, and 51 misses add
  up to less than the 671 counts between packets if it is at most about 0.8 % slow
  (51 * (5 + 10.06 for each percent) < 671). Both timers run off an HSI oscillator
  (`telemetry/src/Main.cpp:231-241`) of about 1 %, so nothing in the code guarantees that
  either. A receiver that is faster expires within the packet, and is disconnected by the
  expiry without a hop; it is then never connected for long, but still hears each
  packet. A slower one has drifted into the packets before it gives up.

Four theorems have a hypothesis of their own. The code does not keep to it in every
configuration or load, and what it then does is not what the property says:

* `ArmingLasts` assumes `NoTimerCalibrates`: either every timer's callback passes
  `event_unique`, or no timer is configured to trigger EV_CALIBRATE. A timer whose
  callback's second argument is false (it is undefined, see the findings) and that is
  configured with that event would disarm the channels in flight.
* The three theorems about `Recorder` assume one caller of `set_recorder_state` and a
  command queue that has room (`CommandsFit`): a command whose put times out is dropped
  and only logged (`actions.cpp:142-144`), so after a lost WRITE_STOP the next WRITE meets
  an open log. Section 5 says what two callers do. The theorems about `FlashStore` in the same
  module assume neither.

The abstract specifications and their implementations:

| detailed | abstract | mapping | shown by |
| --- | --- | --- | --- |
| `FlightPhases` | `PhaseOrder` | the state | run and theorem `Refinement` |
| `SerialLink` | `ByteQueue` | the bytes of the ring from tail on, without the one the task is taking | run (`FifoIsQueue`) and theorem `FifoServes` |
| `SerialLink` | `LossyLink` | the frames whose last byte is in the parser's hand, in the FIFO or on the wire | run (`FramesInOrder`) and theorem `FramesArrive` |
| `FlashStore` | `LogArchive` | the logs that are committed | run (`LogsAreKept`) and theorem `ArchiveIsKept` |

Only model-checked is liveness: what must happen in the end depends on fairness and on
ENABLED, which are out of the prover's reach. That is `PersistentConditionLeaves`,
`ApogeeIsExecuted`, `LeavingDisarms`, `SettlesToStatus`, `FlashComesBack`, `LogCloses`,
`Rearms`, `Reconnects`, `ReceptionResumes` and `Resyncs`. Every safety property of a
passing run is a theorem. The type invariants are the other way round: they are proved,
for every value of the constants, and not among the properties of the runs.

## 5. What the models say beside the properties

Behaviours of the code that the models have and no run asks about.

* Coasting. `check_coasting_phase` does not clear its counter when the velocity is
  not negative (`flight_phases.cpp:111`), so all negative samples of the coast add up;
  the comment at `flight_phases.hpp:33` speaks of "at least 0.3 s". In
  `CounterIsStreak`, COASTING is the exception.
* `EventPipeline`: the store of `event_tracking` (`task_peripherals.cpp:87`) by the
  timer daemon can be that of a word loaded before touchdown set all bits, which
  undoes the lock the comment at line 90 describes.
* `TestingMode`: the ground station takes state 1, which is CALIBRATING outside
  testing mode, for "testing started". Peripherals enables the pyro channels for
  every queued event (`task_peripherals.cpp:40`), also for one that was
  queued before the timeout of `task_telemetry.cpp:302` disarmed the computer.
* `TestingMode` with `InTestingMode = FALSE`: `ParseRxMessage` (`task_telemetry.cpp:118`)
  arms and triggers without asking `m_testing_enabled`, and the MCU of the flight
  computer listens after each transmission in unidirectional mode too. A computer that
  was not booted into testing mode can be armed through telemetry by a ground station
  whose test phrase is configured, and then nothing times it out. The manual
  (`6_Testing.typ:34`) says "If the flight computer is not restarted, the testing mode
  is not activated." `EventPipeline` has the same packets beside a flight: they may arm,
  throw or disarm in any phase, which is why its properties name them.
* `SerialLink`: `HAL_UART_Receive_IT` in the callback fails when the telemetry task
  holds the lock of the handle; all bytes of the next 60 s are lost then, and only
  the time-out of `task_telemetry.cpp:219` brings reception back. So it does after a
  transmit of the task that timed out, which turns reception off
  (`stm32f4xx_hal_uart.c:2696`). The loop at line 225
  leaves the last byte unread, so a frame waits for the next one.
* `FlashStore`: `CATS_ERR_LOG_FULL` is never raised: `lfs_file_write` returns a
  negative error for want of room and never a short count (`lfs.c:3182`), and
  `task_recorder.cpp:138` tests for a short one. The manual (`3_Vega.typ:747`) describes
  the error as "The flash chip is full." After the failed write neither a sync nor the
  close commits anything (`lfs.c:2950`), so up to 31 blocks that were written before it
  are missing from the log although it is closed in order. The
  defaults that a new firmware saves overwrite what the user had, also when the old
  firmware is flashed again. Removing `flight_counter`
  with `rm` makes the numbers start again at the next boot, and a log is then written
  over an old one, which is not truncated. `lfs_t` has no lock: a command of the
  console that touches the flash while the recorder writes is undefined, and the model
  leaves it out.
* `Recorder`: the task waits 100 ticks for a record (`task_recorder.cpp:122-131`). When the
  mask or the speed of recording makes records rarer than that, it writes the block it
  has with a stale tail, in the middle of a log too. Who reads the log finds old records
  there. `set_recorder_state` is called by the actions and by the command line.
  With two members in `Callers`, both read the same status and both send WRITE, and
  the log is opened while it is open; `FileDiscipline` fails. The source has a
  "TODO check if mutex should be used here" at this place (`actions.cpp:114`).
* `GsStorage`: the callbacks that read and write sectors test the owner before they
  wait for the mutex and not after it (`utils.cpp:489`), so a sector can be written
  for the computer after the firmware has mounted the file system again. The DATA
  screen clears `automaticUsbSharePending` when it is entered (`hmi.cpp:1023`) and sets it
  to whether a computer is connected when it is left (`hmi.cpp:627`). The HMI gives up
  waiting for the recorder after three seconds (`recorder.cpp:226`), its command stays
  queued, and a share that is carried out later unmounts the file system under the HMI.
  `HmiWorksMounted` allows that case (`late`) and no other. It needs a file operation
  that takes longer than three seconds.
* `PhaseNotice`: the telemetry task ignores the results of the two transmits that switch
  the power (`task_telemetry.cpp:284-299`) and never repeats them. If the one of the level
  is lost, the power stays what it was; if only the one of the gain is lost, the level is
  kept by the MCU and takes effect at the next gain. At touchdown a lost transmit leaves
  the power at its maximum.
* `TestingMode`: an exit that the link's task carries out a second later
  (`telemetry.cpp:129`) can close the next session, entered in the meantime. No property
  forbids it; the rocket of that session then disarms by its timeout.
* `GsSessions`: in DUAL mode a rocket that lifts off after the touchdown of the first
  one has closed the log finds the recorder disarmed, and its flight is not logged
  unless the first rocket is switched on again. When the sync in `finalizeFile`
  fails, `fileCreated` stays set and nothing is logged until a restart.
* `LinkQuality`: a packet that fails the check starts a period and leaves the timer
  running, which starts another, so it counts as two missed ones. The first packet
  of a connection gives 50 %, the second 66 %, because the counter of periods starts
  at 1; the comment at `LqCalculator.hpp:77` says 100 %.

Read in the source, not modelled yet: `battery_level` moves the level in each of two
calls of an iteration, and a level reached in the second is never reported
(`task_health_monitor.cpp:95`); the counter of equal readings is 16 bits wide and wraps,
after which a stuck sensor counts as healthy (`task_preprocessing.cpp:257`).

## 6. What is not modelled, and the plan

Not modelled: the numerical parts (Kalman filter, orientation, navigation, flight
statistics), whose outputs the models take as arbitrary; drawing and formatting;
register-level drivers; third-party code. PROJECT.json lists every component with
its status and reason.

The order so far was: the path from the sensors' verdict to the pyro channel first
(`FlightPhases`, `EventPipeline`, `PhaseNotice`), then the remote way to the same
channels (`TestingMode`), then what keeps the data of a flight (`Recorder`,
`GsSessions`, `GsStorage`), then the link (`RadioLink`, `LinkQuality`), then what lies
below the first ones: the serial line (`SerialLink`) and what survives a loss of power
(`FlashStore`).

Plan for the next steps, in this order:

1. The health of the sensors: the fault checks and the hold of the last value
   (`task_preprocessing.cpp`), `add_error` and `clear_error` with their loads and
   stores, the battery level, the median filter against the definition of a median.
2. The other two byte parsers of the repository (`telemetry/src/SerialComm/Parser.cpp`,
   `ground_station/src/telemetry/parser.cpp`), which are the automaton of `SerialLink`
   behind a DMA ring and a UART queue, and the data of a link in the ground station,
   which two tasks copy without a lock.
3. The console beside the recorder: commands while a log is open, and
   `create_stats_and_cfg_log` at the end of a flight.
4. Flash driver and `reader.cpp`: commands, busy states, the read-only FAT image
   over log files.
5. Screens of the ground station: the settings menu with its limits, the order of
   configuration and radio commands.
6. Command line: line editing at the limits of the buffer.

Theorems to add: the parts of the liveness properties that are safety, that is, the steps
that bring each of them nearer and that none takes back (the command on its way that will
settle the recorder, the request that will bring back the flash), and refinements for the
components of this plan as they are modelled.
