----------------------------- MODULE SerialLink -----------------------------
(***************************************************************************)
(* The serial line from the telemetry MCU to the flight computer: frames   *)
(* of the MCU's main loop, the receive interrupt of the flight computer,   *)
(* which puts each byte into a FIFO, and the telemetry task, which empties *)
(* it ten times a second and parses what it finds.                         *)
(*                                                                         *)
(* The interrupt may come between any two accesses of the task, and is     *)
(* over before the task goes on.  The FIFO is guarded by a flag: a byte    *)
(* that arrives while the task is inside fifo_read_byte is dropped, as is  *)
(* one that finds the FIFO full.  The HAL's handle is guarded by another:  *)
(* when the interrupt finds it locked by HAL_UART_Transmit of the task,    *)
(* reception is not started again.  A transmit that times out turns it off *)
(* too.  The task starts it after a minute of silence; by then the data    *)
(* register holds the first byte that came, and the others are gone.       *)
(*                                                                         *)
(* A byte is its value and, if it is the last one of a frame, that frame:  *)
(* crc8 is taken as free of collisions.  The parser is the same one, state *)
(* by state, as in the MCU and in the ground station.                      *)
(***************************************************************************)
EXTENDS Naturals, Sequences, FiniteSets

CONSTANTS
  Frames,      (* The frames of the MCU: op, data, and the value of the CRC. *)
  Periodic,    (* Those of them that are sent again and again.               *)
  Ops,         (* The op codes that CheckValidOpCode knows.                  *)
  MaxLength,   (* The longest data the parser accepts, 16.                   *)
  FifoSize,    (* UART_FIFO_SIZE.                                            *)
  MaxSilence,  (* Iterations without a byte after which reception is started *)
               (* anew: 60000 ticks.                                         *)
  NoFrame

FrameType == [op : Nat, data : Seq(Nat), crc : Nat]

ASSUME FrameAssumption ==
  /\ Frames \subseteq FrameType
  /\ NoFrame \notin Frames /\ Periodic \subseteq Frames
  /\ \A f \in Frames : f.op \in Ops /\ Len(f.data) \in 1 .. MaxLength

ASSUME FifoAssumption == FifoSize \in Nat \ {0} /\ MaxSilence \in Nat

VARIABLES
  wire,        (* Bytes of the current frame that have not arrived.          *)
  armed,       (* RxState of the handle: a byte that arrives interrupts.     *)
  buf, head, tail, used, mutex,        (* uart_fifo.                         *)
  pc,          (* Where the telemetry task is.                               *)
  ch,          (* The byte it has read.                                      *)
  loaded,      (* The value of used it has loaded to decrement.              *)
  silence,     (* tick_count - uart_timeout, in iterations.                  *)
  state, op, length, data,             (* The parser: state, uart_buffer.    *)
  given        (* The frame that has just been given to Parse.               *)

fifo   == << buf, head, tail, used, mutex >>
reader == << pc, ch, loaded, silence >>
parser == << state, op, length, data, given >>
serialVars == << wire, armed, fifo, reader, parser >>

Plain(v)  == [val |-> v, ends |-> NoFrame]

BytesOf(f) ==
  << Plain(f.op), Plain(Len(f.data)) >>
     \o [i \in 1 .. Len(f.data) |-> Plain(f.data[i])]
     \o << [val |-> f.crc, ends |-> f] >>

Byte == UNION {{BytesOf(f)[i] : i \in 1 .. Len(BytesOf(f))} : f \in Frames}

NoByte == Plain(0)

SerialInit ==
  /\ wire = << >> /\ armed = TRUE
  /\ buf = [i \in 0 .. FifoSize - 1 |-> NoByte]
  /\ head = 0 /\ tail = 0 /\ used = 0 /\ mutex = FALSE
  /\ pc = "sleep" /\ ch = NoByte /\ loaded = 0 /\ silence = 0
  /\ state = "OP" /\ op = 0 /\ length = 0 /\ data = << >> /\ given = NoFrame

-----------------------------------------------------------------------------
(* The MCU: HAL_UART_Transmit of a frame blocks until it is out.  While
   reception is off, the last byte of the frame before may still be in the
   data register. *)
Send(f) ==
  /\ wire = << >> \/ (~ armed /\ Len(wire) = 1)
  /\ wire' = wire \o BytesOf(f)
  /\ UNCHANGED << armed, fifo, reader, parser >>

-----------------------------------------------------------------------------
(* The interrupt.                                                           *)

NextSlot(i) == (i + 1) % FifoSize

MayWrite_Unguarded == used < FifoSize

(* fifo_write_byte takes the byte.  (stream_write_byte tries once.)         *)
MayWrite == ~ mutex /\ used < FifoSize

Write(b) ==
  /\ buf'  = [buf EXCEPT ![head] = b]
  /\ head' = NextSlot(head)
  /\ used' = used + 1
  /\ UNCHANGED << tail, mutex >>

(* HAL_UART_RxCpltCallback: reception is started again, which fails if the
   task has locked the handle, and the byte is written. *)
Receive ==
  /\ wire # << >> /\ armed
  /\ wire'  = Tail(wire)
  /\ armed' = (pc \notin {"transmit", "request"})
  /\ IF MayWrite THEN Write(Head(wire)) ELSE UNCHANGED fifo
  /\ UNCHANGED << reader, parser >>

(* A byte that is in before the one ahead of it was read is lost.  While
   reception is on, that one is read in the end, here before the loss.  (The
   error is cleared when reception is started again.) *)
Overrun ==
  /\ \/ armed /\ wire # << >> /\ wire' = Tail(wire)
     \/ ~ armed /\ Len(wire) > 1
        /\ wire' = << Head(wire) >> \o Tail(Tail(wire))
  /\ UNCHANGED << armed, fifo, reader, parser >>

-----------------------------------------------------------------------------
(* The telemetry task.                                                      *)

(* An iteration begins; SendTxPayload locks the handle for a moment.        *)
Wake ==
  /\ pc = "sleep"
  /\ pc' = "transmit"
  /\ silence' = IF silence <= MaxSilence THEN silence + 1 ELSE silence
  /\ UNCHANGED << wire, armed, fifo, ch, loaded, parser >>

SilentTooLong_Never == FALSE

SilentTooLong == silence > MaxSilence

(* A transmit is over.  If it has timed out (UART_WaitOnFlagUntilTimeout),
   it has turned the receive interrupt off and the state of reception to
   ready. *)
EndTransmit == armed' \in {armed, FALSE}

(* The handle is unlocked.  After too long a silence reception is started,
   which does nothing if it is on. *)
Transmitted ==
  /\ pc = "transmit"
  /\ pc' = "read"
  /\ \/ SilentTooLong /\ armed' = TRUE /\ silence' = 0
     \/ ~ SilentTooLong /\ EndTransmit /\ UNCHANGED silence
  /\ UNCHANGED << wire, fifo, ch, loaded, parser >>

(* while (stream_length(&uart_stream) > 1): the last byte is left.  More may
   have to be sent, settings or the request for the version of the MCU. *)
Finish ==
  /\ pc = "read" /\ used <= 1
  /\ pc' \in {"sleep", "request"}
  /\ given' = NoFrame
  /\ UNCHANGED << wire, armed, fifo, ch, loaded, silence, state, op, length,
                  data >>

Requested ==
  /\ pc = "request"
  /\ pc' = "sleep"
  /\ EndTransmit
  /\ UNCHANGED << wire, fifo, ch, loaded, silence, parser >>

(* fifo_read_byte finds the flag free and sets it, copies the byte and loads
   used, to store it less one.  (The code leaves the byte in the buffer.)  *)
Take ==
  /\ pc = "read" /\ used > 1
  /\ mutex' = TRUE
  /\ ch'   = buf[tail]
  /\ buf'  = [buf EXCEPT ![tail] = NoByte]
  /\ tail' = NextSlot(tail)
  /\ loaded' = used
  /\ given' = NoFrame
  /\ pc' = "store"
  /\ UNCHANGED << wire, armed, head, used, silence, state, op, length, data >>

-----------------------------------------------------------------------------
(* The parser looks at the byte.                                            *)

ReadOp ==
  /\ state = "OP"
  /\ IF ch.val \in Ops THEN state' = "LEN" /\ op' = ch.val
                       ELSE UNCHANGED << state, op >>
  /\ UNCHANGED << length, data, given >>

(* A length that is too big is skipped, and the next byte is tried.         *)
ReadLength ==
  /\ state = "LEN"
  /\ IF ch.val <= MaxLength
     THEN /\ length' = ch.val
          /\ state' = IF ch.val > 0 THEN "DATA" ELSE "CRC"
     ELSE UNCHANGED << length, state >>
  /\ UNCHANGED << op, data, given >>

ReadData ==
  /\ state = "DATA"
  /\ data' = Append(data, ch.val)
  /\ state' = IF Len(data') = length THEN "CRC" ELSE "DATA"
  /\ UNCHANGED << op, length, given >>

CrcMatches_Any == ch.ends # NoFrame

CrcMatches ==
  /\ ch.ends # NoFrame
  /\ ch.ends.op = op /\ ch.ends.data = data /\ Len(data) = length

AfterCrc_Waits == IF CrcMatches THEN "OP" ELSE "CRC"

AfterCrc == "OP"

(* Whatever the CRC, the parser starts again with the next byte.            *)
ReadCrc ==
  /\ state = "CRC"
  /\ given' = IF CrcMatches THEN [op |-> op, data |-> data, crc |-> ch.val]
                             ELSE given
  /\ state' = AfterCrc
  /\ data' = << >> /\ op' = 0 /\ length' = 0

(* used is stored, the flag cleared, and the byte goes to the parser.       *)
Parse ==
  /\ pc = "store"
  /\ used' = loaded - 1 /\ loaded' = 0
  /\ mutex' = FALSE
  /\ silence' = 0
  /\ ReadOp \/ ReadLength \/ ReadData \/ ReadCrc
  /\ ch' = NoByte
  /\ pc' = "read"
  /\ UNCHANGED << wire, armed, buf, head, tail >>

-----------------------------------------------------------------------------
Task == Wake \/ Transmitted \/ Finish \/ Requested \/ Take \/ Parse

SerialNext == (\E f \in Frames : Send(f)) \/ Receive \/ Overrun \/ Task

SerialSpec == SerialInit /\ [][SerialNext]_serialVars

(* The task runs.  The MCU keeps sending some of its frames.  A byte that is in
   the data register interrupts when it may, and those that come while
   reception is off are lost. *)
SerialFairness ==
  /\ WF_serialVars(Task)
  /\ \A f \in Periodic : SF_serialVars(Send(f))
  /\ SF_serialVars(Receive) /\ WF_serialVars(Overrun /\ ~ armed)

SerialFairSpec == SerialSpec /\ SerialFairness

-----------------------------------------------------------------------------
(* The bytes that are still to be taken.                                    *)
Occupied == IF pc = "store" THEN used - 1 ELSE used

Contents == [i \in 1 .. Occupied |-> buf[(tail + i - 1) % FifoSize]]

(* The frames whose last byte is among some bytes, in the order in which
   they end. *)
Rank(S, i) == Cardinality({j \in S : j <= i})

Ends(bytes) ==
  LET last   == {i \in 1 .. Len(bytes) : bytes[i].ends # NoFrame}
      Nth(k) == CHOOSE i \in last : Rank(last, i) = k
  IN  [k \in 1 .. Cardinality(last) |-> bytes[Nth(k)].ends]

InHand == IF pc = "store" THEN << ch >> ELSE << >>

Queue == INSTANCE ByteQueue WITH
  Byte <- Byte, Capacity <- FifoSize, queued <- Contents

Link == INSTANCE LossyLink WITH
  Frames <- Frames, NoFrame <- NoFrame,
  underway <- Ends(InHand) \o Ends(Contents) \o Ends(wire), given <- given

(* The FIFO is a queue although its two ends, and the count they share, are
   moved by the interrupt and by the task without a lock that makes one wait
   for the other: no byte is taken twice, overwritten, or lost once it was
   accepted (fifo_read_byte, fifo_write_byte). *)
FifoIsQueue == Queue!Spec

(* Parse is given frames that were sent, whole, in their order and each at
   most once, whatever bytes are lost on the way, by the FIFO or before it,
   and wherever that leaves the parser. *)
FramesInOrder == Link!Spec

(* When HAL_UART_RxCpltCallback could not start reception again, because the
   task held the handle, or a transmit that timed out has turned it off, it is
   started later all the same: the link is not deaf for the rest of the
   flight. *)
ReceptionResumes == [](~ armed => <>armed)

(* The interrupt meets a locked flag or a full FIFO, or it comes too late, or
   reception is off from now on. *)
Hurts ==
  \/ Receive /\ UNCHANGED fifo
  \/ Overrun /\ armed
  \/ armed /\ ~ armed'

Delivers == Parse /\ state = "CRC" /\ CrcMatches

(* Once bytes are no longer lost, frames get through again: the parser is not
   out of step for ever, whatever the bytes that it lost made of its state.
   (The bytes of a frame may look like another frame to a parser out of step,
   and when they repeat keep it there; a frame of other bytes now and then, a
   measured value for one, brings it back.) *)
Resyncs == <>[][~ Hurts]_serialVars => []<><< Delivers >>_serialVars
=============================================================================
