----------------------------- MODULE RadioLink -----------------------------
(***************************************************************************)
(* The radio link between two telemetry MCUs: Transmission with direction  *)
(* TX in the rocket and with direction RX in the ground station.           *)
(*                                                                         *)
(* Both ends hop through the same sequence of channels.  The transmitter   *)
(* hops and sends every TxPeriod ticks of its timer.  The receiver hops    *)
(* when it received a packet (in bidirectional mode after it has answered  *)
(* on the same channel) and otherwise when its own timer, restarted by     *)
(* every packet, runs out.                                                 *)
(*                                                                         *)
(* Time is counted in ticks of the transmitter's TIM2; Wait lets it pass   *)
(* to the next event.  The timers run off two RC oscillators, and nothing  *)
(* ties one to the other: how many of the transmitter's ticks the          *)
(* receiver's period lasts is drawn from Spans each time it starts.        *)
(*                                                                         *)
(* A packet is Airtime long, and the receiver hears it if it was on its    *)
(* channel from beginning to end and the radio did not lose it.  Packets   *)
(* of other links fail the check against linkXOR and change nothing here.  *)
(***************************************************************************)
EXTENDS Integers

CONSTANTS
  TxPeriod,       (* Ticks between two packets of the transmitter.           *)
  Spans,          (* How long the receiver's period may last.                *)
  Airtime,        (* Ticks a packet takes.                                   *)
  Hops,           (* FHSS_SEQUENCE_CNT.                                      *)
  LostAfter,      (* Expiries after which a connection is given up.          *)
  ScanAfter,      (* Expiries after which a searching receiver hops.         *)
  Bidirectional   (* transmissionMode = BIDIRECTIONAL.                       *)

ASSUME PeriodAssumption ==
  /\ TxPeriod \in Nat /\ Airtime \in Nat \ {0}
  /\ 2 * Airtime < TxPeriod
  /\ Spans \subseteq Nat
  /\ \A span \in Spans : Airtime < span

ASSUME CountAssumption ==
  /\ Hops \in Nat \ {0, 1}
  /\ LostAfter \in Nat /\ ScanAfter \in Nat
  /\ ScanAfter < LostAfter
  /\ Bidirectional \in BOOLEAN

VARIABLES
  txPtr,           (* FHSSptr of the transmitter.                            *)
  txLeft,          (* Ticks until the transmitter's timer runs out.          *)
  onAir,           (* A packet of the transmitter is in the air.             *)
  rxPtr,           (* FHSSptr of the receiver.                               *)
  rxChannel,       (* Position in the sequence of the receiver's frequency.  *)
  rxLeft,          (* Ticks until the receiver's timer runs out.             *)
  connectionState, (* Of the receiver.                                       *)
  timeout,         (* Of the receiver: expiries of its timer.                *)
  answering,       (* The receiver is sending its answer.                    *)
  answerLeft,      (* Ticks until the answer is out.                         *)
  locked,          (* The receiver hears the packet in the air.              *)
  clear,           (* From now on nothing is lost, nobody restarts.          *)
  disturbed,       (* History: the transmitter restarted since a packet was  *)
                   (* received.                                              *)
  missed,          (* History: packets missed since one was received, while  *)
                   (* connected; counted up to LostAfter + 1.                *)
  drift,           (* History: by how much the receiver's timer runs out     *)
                   (* after the end of the packet it stands for.             *)
  slipped          (* History: since a packet was received, it has run out   *)
                   (* before that packet's end or in the next packet.        *)

txVars    == << txPtr, txLeft, onAir >>
rxChosen  == << rxPtr, rxChannel, answering >>
clocks    == << drift, slipped >>
rxVars    == << rxPtr, rxChannel, answering, answerLeft, rxLeft,
                connectionState, timeout, clocks >>
history   == << disturbed, missed >>
vars      == << txVars, rxVars, locked, clear, history >>

connectionStates == {"connected", "tentative", "disconnected"}

NextHop(p) == (p + 1) % Hops

(* The receiver tunes to the next channel of the sequence.                  *)
Hop == /\ rxPtr'     = NextHop(rxPtr)
       /\ rxChannel' = rxPtr'

Stay == UNCHANGED << rxPtr, rxChannel >>

(***************************************************************************)
(* While the receiver follows the transmitter, the n-th expiry in a row    *)
(* stands for the n-th packet that did not come.  With the clocks alike    *)
(* enough it falls between that packet and the next one.                   *)
(***************************************************************************)
InWindow == 0 < drift /\ drift < TxPeriod - Airtime

(***************************************************************************)
(* enableTransmission tunes to the first channel of the sequence and leaves*)
(* FHSSptr and timeout as they are; after a reset of the MCU both are 0.   *)
(***************************************************************************)
Init ==
  /\ txPtr = 0 /\ txLeft = TxPeriod /\ onAir = FALSE
  /\ rxPtr = 0 /\ rxChannel = 0 /\ rxLeft \in Spans
  /\ connectionState = "disconnected" /\ timeout = 0
  /\ answering = FALSE /\ answerLeft = 0
  /\ locked = FALSE /\ clear = FALSE /\ disturbed = FALSE /\ missed = 0
  /\ drift = 0 /\ slipped = FALSE

-----------------------------------------------------------------------------
(* Time.                                                                    *)

PacketEndDue == onAir /\ txLeft = TxPeriod - Airtime
AnswerEndDue == answering /\ answerLeft = 0

EventDue == txLeft = 0 \/ rxLeft = 0 \/ PacketEndDue \/ AnswerEndDue

(* What the next event may be, by the time left until then.                 *)
Waits == { IF onAir THEN txLeft - (TxPeriod - Airtime) ELSE txLeft,
           IF answering THEN answerLeft ELSE rxLeft }

Wait ==
  /\ ~ EventDue
  /\ \E d \in Waits :
       /\ \A other \in Waits : d <= other
       /\ txLeft' = txLeft - d /\ rxLeft' = rxLeft - d
       /\ answerLeft' = IF answering THEN answerLeft - d ELSE answerLeft
  /\ UNCHANGED << txPtr, onAir, rxChosen, connectionState, timeout, locked,
                  clear, history, clocks >>

-----------------------------------------------------------------------------
(* The transmitter.                                                         *)

(* The timer runs out: txTransmit hops and sends.                           *)
TxTimer ==
  /\ txLeft = 0
  /\ txPtr'  = NextHop(txPtr)
  /\ txLeft' = TxPeriod
  /\ onAir'  = TRUE
  /\ locked' = (rxChannel = txPtr' /\ ~ answering)
  /\ UNCHANGED << rxVars, clear, history >>

(***************************************************************************)
(* The transmitter's host changes a setting, and the MCU restarts the      *)
(* transmission, or the transmitter is reset altogether.                   *)
(***************************************************************************)
TxRestart ==
  /\ ~ clear
  /\ txPtr' \in {txPtr, 0}
  /\ txLeft' = TxPeriod
  /\ onAir'  = FALSE
  /\ locked' = FALSE
  /\ disturbed' = TRUE
  /\ UNCHANGED << rxVars, clear, missed >>

-----------------------------------------------------------------------------
(* The receiver.                                                            *)

Upgraded ==
  IF connectionState = "disconnected" THEN "tentative" ELSE "connected"

TimeoutAfterPacket_Kept == timeout

TimeoutAfterPacket == 0

AfterPacket_HopFirst ==
  /\ answering'  = Bidirectional
  /\ answerLeft' = IF Bidirectional THEN Airtime ELSE 0
  /\ Hop

(* What follows a packet: the answer on the same channel, or a hop.         *)
AfterPacket ==
  /\ answering'  = Bidirectional
  /\ answerLeft' = IF Bidirectional THEN Airtime ELSE 0
  /\ IF Bidirectional THEN Stay ELSE Hop

(* rxDoneISR with a packet of the link.                                     *)
Receive ==
  /\ connectionState' = Upgraded
  /\ timeout' = TimeoutAfterPacket
  /\ rxLeft'  \in Spans
  /\ AfterPacket
  /\ drift'     = rxLeft' - TxPeriod
  /\ slipped'   = FALSE
  /\ disturbed' = FALSE
  /\ missed'    = 0

(* The packet passes unheard: lost by the radio, or on another channel.     *)
Miss ==
  /\ missed' = IF connectionState # "connected" \/ disturbed THEN 0
               ELSE IF missed <= LostAfter THEN missed + 1 ELSE missed
  /\ UNCHANGED << rxVars, disturbed >>

PacketEnd ==
  /\ PacketEndDue
  /\ onAir'  = FALSE
  /\ locked' = FALSE
  /\ \/ locked /\ Receive
     \/ (~ locked \/ ~ clear) /\ Miss
  /\ UNCHANGED << txPtr, txLeft, clear >>

(* txDoneISR: the answer is out, the receiver goes on to the next channel.  *)
AnswerEnd ==
  /\ AnswerEndDue
  /\ answering' = FALSE
  /\ Hop
  /\ locked' = FALSE
  /\ UNCHANGED << txVars, answerLeft, rxLeft, connectionState, timeout, clear,
                  history, clocks >>

(* rxTimeout with a connection: the packet of this hop is missing.          *)
TimeoutConnected_Stays ==
  /\ connectionState = "connected" /\ timeout # LostAfter
  /\ Stay
  /\ timeout' = timeout + 1
  /\ UNCHANGED << connectionState, locked >>

TimeoutConnected ==
  /\ connectionState = "connected" /\ timeout # LostAfter
  /\ Hop
  /\ timeout' = timeout + 1
  /\ locked'  = FALSE
  /\ UNCHANGED connectionState

(***************************************************************************)
(* rxTimeout that gives the connection up: FHSSptr starts over, the first  *)
(* channel is tuned and, as timeout exceeds ScanAfter too, left at once.   *)
(***************************************************************************)
TimeoutLost ==
  /\ timeout = LostAfter
  /\ connectionState' = "disconnected"
  /\ rxPtr' = NextHop(0) /\ rxChannel' = rxPtr'
  /\ timeout' = 1
  /\ locked'  = FALSE

TimeoutSearching_EachTime ==
  /\ connectionState # "connected" /\ timeout # LostAfter
  /\ connectionState' = "disconnected"
  /\ timeout' = 1 /\ Hop /\ locked' = FALSE

(* rxTimeout without a connection: a hop after more than ScanAfter periods. *)
TimeoutSearching ==
  /\ connectionState # "connected" /\ timeout # LostAfter
  /\ connectionState' = "disconnected"
  /\ \/ timeout > ScanAfter  /\ timeout' = 1           /\ Hop  /\ locked' = FALSE
     \/ timeout <= ScanAfter /\ timeout' = timeout + 1 /\ Stay /\ UNCHANGED locked

RxTimer ==
  /\ rxLeft = 0
  /\ rxLeft' \in Spans
  /\ TimeoutConnected \/ TimeoutLost \/ TimeoutSearching
  /\ slipped' = (slipped \/ (connectionState # "disconnected" /\ ~ InWindow))
  /\ drift'   = IF connectionState' = "connected" /\ ~ slipped'
                THEN drift + (rxLeft' - TxPeriod) ELSE 0
  /\ missed' = IF connectionState' = "connected" THEN missed ELSE 0
  /\ UNCHANGED << txVars, answering, answerLeft, clear, disturbed >>

(***************************************************************************)
(* A setting of the ground station changes (disableTransmission and        *)
(* enableTransmission in resetTransmission), or its MCU is reset.          *)
(***************************************************************************)
RxRestart ==
  /\ ~ clear
  /\ \/ UNCHANGED << rxPtr, timeout >>
     \/ rxPtr' = 0 /\ timeout' = 0
  /\ rxChannel' = 0
  /\ rxLeft'    \in Spans
  /\ connectionState' = "disconnected"
  /\ answering' = FALSE /\ answerLeft' = 0
  /\ drift' = 0 /\ slipped' = FALSE
  /\ locked'    = FALSE
  /\ missed'    = 0
  /\ UNCHANGED << txVars, clear, disturbed >>

-----------------------------------------------------------------------------
(* From some moment on the radio loses nothing and nobody restarts.         *)
Clears ==
  /\ ~ clear
  /\ clear' = TRUE
  /\ UNCHANGED << txVars, rxVars, locked, history >>

Next == \/ Wait   \/ TxTimer   \/ TxRestart
        \/ PacketEnd \/ AnswerEnd \/ RxTimer \/ RxRestart
        \/ Clears

Spec == Init /\ [][Next]_vars

(* Time passes and interrupts are served; only Clears need not happen.      *)
Fairness == WF_vars(Wait \/ TxTimer \/ PacketEnd \/ AnswerEnd \/ RxTimer)

FairSpec == Spec /\ Fairness

-----------------------------------------------------------------------------
TypeNumbers ==
  /\ txPtr \in 0 .. (Hops - 1) /\ txLeft \in 0 .. TxPeriod
  /\ rxPtr \in 0 .. (Hops - 1) /\ rxLeft \in Nat /\ answerLeft \in 0 .. Airtime
  /\ rxChannel \in 0 .. (Hops - 1)
  /\ timeout \in 0 .. LostAfter /\ missed \in 0 .. (LostAfter + 1)
  /\ drift \in Int

TypeFlags ==
  /\ connectionState \in connectionStates
  /\ onAir \in BOOLEAN /\ answering \in BOOLEAN /\ locked \in BOOLEAN
  /\ clear \in BOOLEAN /\ disturbed \in BOOLEAN /\ slipped \in BOOLEAN

(***************************************************************************)
(* Types; in particular timeout never passes the value at which rxTimeout  *)
(* gives up, and FHSSptr stays within the sequence.                        *)
(***************************************************************************)
TypeOK == TypeNumbers /\ TypeFlags

(***************************************************************************)
(* The inductive invariant.  After a packet the timers of both ends are    *)
(* tied to each other by the drift of the receiver's since: before a       *)
(* packet the receiver is one hop ahead, from its first symbol on both are *)
(* on the same hop.                                                        *)
(***************************************************************************)
Connected == connectionState = "connected"

WhileAnswering ==
  /\ answering /\ ~ onAir
  /\ timeout = 0
  /\ rxLeft - txLeft = drift + Airtime
  /\ Connected => rxPtr = txPtr /\ missed = 0

BeforePacket ==
  /\ ~ answering /\ ~ onAir
  /\ rxLeft - txLeft = drift + Airtime
  /\ Connected => rxPtr = NextHop(txPtr) /\ missed = timeout

InPacket ==
  /\ ~ answering /\ onAir
  /\ rxLeft - txLeft = drift + Airtime - TxPeriod
  /\ Connected => rxPtr = txPtr /\ locked /\ missed = timeout

AfterMiss ==
  /\ ~ answering /\ ~ onAir
  /\ txLeft <= TxPeriod - Airtime
  /\ rxLeft - txLeft = drift + Airtime - TxPeriod
  /\ Connected => rxPtr = txPtr /\ missed = timeout + 1

(* The receiver follows: nothing came between it and the transmitter, and its
   timer has run out once for each packet and will before the next begins.  *)
Follows ==
  /\ ~ disturbed /\ ~ slipped
  /\ drift < TxPeriod - Airtime

Tracking ==
  connectionState # "disconnected" /\ Follows =>
     WhileAnswering \/ BeforePacket \/ InPacket \/ AfterMiss

Answering ==
  answering => /\ ~ onAir
               /\ answerLeft < rxLeft
               /\ answerLeft < txLeft
               /\ ~ disturbed => rxChannel = txPtr

Hearing ==
  /\ locked => onAir /\ ~ answering /\ rxChannel = txPtr
  /\ onAir => txLeft >= TxPeriod - Airtime
  /\ connectionState # "disconnected" /\ ~ answering => rxChannel = rxPtr

IInv == TypeOK /\ Tracking /\ Answering /\ Hearing

(***************************************************************************)
(* A connected receiver is in step: however many packets it missed since   *)
(* the last one, it is on the channel of every packet from its first       *)
(* symbol to its last, until its timer has drifted into one of them.       *)
(* (rxTimeout hops by a timer of its own, rxDoneISR restarts it.)          *)
(***************************************************************************)
InStep == connectionState = "connected" /\ Follows /\ onAir => locked

(***************************************************************************)
(* The receiver answers only while the transmitter does not send, and on   *)
(* the channel on which the transmitter listens, whatever the clocks.      *)
(***************************************************************************)
AnswerIsHeard ==
  answering => ~ onAir /\ (~ disturbed => rxChannel = txPtr)

(***************************************************************************)
(* A connection to a transmitter that keeps sending is given up only after *)
(* more than LostAfter packets in a row were missed, or when the           *)
(* receiver's timer has drifted into a packet.                             *)
(***************************************************************************)
GivesUpLate ==
  [][ RxTimer /\ connectionState = "connected" /\ connectionState' # "connected"
      /\ Follows /\ InWindow => missed > LostAfter ]_vars

(***************************************************************************)
(* When the radio is clear the receiver hears packets again and again,     *)
(* whatever happened before, also when it still believes in a connection   *)
(* it has lost, and however its clock compares with the transmitter's.  It *)
(* also connects and stays connected, unless its timer runs into packets   *)
(* again and again.                                                        *)
(***************************************************************************)
Reconnects ==
  <>clear => /\ []<><< PacketEnd /\ locked >>_vars
             /\ \/ <>[](connectionState = "connected" /\ ~ disturbed)
                \/ []<>slipped
=============================================================================
