------------------------------ MODULE Recorder ------------------------------
(***************************************************************************)
(* The flight log of the flight computer: set_recorder_state, called by    *)
(* actions and by the command line; record, called by every task that has  *)
(* something to log; and the Recorder task, which obeys the commands of    *)
(* the first and empties the queue of the second into a LittleFS file.     *)
(*                                                                         *)
(* All tasks have one priority and are time-sliced, so each step below may *)
(* be followed by a step of any other task.                                *)
(*                                                                         *)
(* The element queue carries record numbers.  One recording task stands    *)
(* for all of them.  A log file is a sequence of slots: a slot holds the   *)
(* number of a record, or Stale where a block was written before it was    *)
(* full and carries what an earlier block had left in the buffer.  Records *)
(* fit into a block exactly (the code splits one across two blocks).       *)
(***************************************************************************)
EXTENDS Naturals, Sequences, FiniteSets, Functions

CONSTANTS
  Callers,       (* The tasks that call set_recorder_state.                 *)
  MaxRequests,   (* Bound: calls of set_recorder_state per caller.          *)
  MaxRecords,    (* Bound: records that find the recorder on.               *)
  CmdQueueSize,  (* REC_CMD_QUEUE_SIZE.                                     *)
  QueueSize,     (* REC_QUEUE_SIZE.                                         *)
  PreLimit,      (* REC_QUEUE_PRE_THRUSTING_LIMIT.                          *)
  BlockSize      (* Records in a buffer of REC_BUFFER_LEN bytes.            *)

ASSUME RecorderAssumption ==
  /\ IsFiniteSet(Callers)
  /\ {MaxRequests, MaxRecords} \subseteq Nat
  /\ {CmdQueueSize, QueueSize, BlockSize} \subseteq Nat \ {0}
  /\ PreLimit \in 0 .. QueueSize

Status  == {"OFF", "FILL_QUEUE", "WRITE_TO_FLASH"}
Stale   == 0

VARIABLES
  status,     (* global_recorder_status.                                    *)
  rec_cmds,   (* rec_cmd_queue.                                             *)
  rec_queue,  (* rec_queue.                                                 *)
  caller,     (* Per caller: where it is in set_recorder_state, the state   *)
              (* asked for, the command it will send last, calls made.      *)
  checked,    (* The record between its check of the status and its put.    *)
  task,       (* Where the Recorder task is.                                *)
  rec_buffer, (* The records in the buffer.                                 *)
  file_open,  (* Is the flight log open?                                    *)
  log,        (* History: what was written to the latest flight log.        *)
  next,       (* History: number of the next record.                        *)
  lost,       (* History: records refused by a full queue.                  *)
  since_reset (* History: records queued since the queue was last reset.    *)

calls   == << status, rec_cmds, caller >>
records == << rec_queue, checked, next, lost, since_reset >>
flash   == << task, rec_buffer, file_open, log >>
vars    == << calls, records, flash >>

None == "none"

-----------------------------------------------------------------------------
(* set_recorder_state. *)

LastCommand_NoFillStop(old, new) ==
  CASE old = "OFF"            /\ new = "FILL_QUEUE"     -> "FILL_Q"
    [] old # "WRITE_TO_FLASH" /\ new = "WRITE_TO_FLASH" -> "WRITE"
    [] old = "WRITE_TO_FLASH" /\ new = "FILL_QUEUE"     -> "FILL_Q"
    [] OTHER                                            -> None

(* The last command of a call, by the status found. *)
LastCommand(old, new) ==
  CASE old = "OFF"            /\ new = "FILL_QUEUE"     -> "FILL_Q"
    [] old # "WRITE_TO_FLASH" /\ new = "WRITE_TO_FLASH" -> "WRITE"
    [] old = "FILL_QUEUE"     /\ new = "OFF"            -> "FILL_Q_STOP"
    [] old = "WRITE_TO_FLASH" /\ new = "FILL_QUEUE"     -> "FILL_Q"
    [] OTHER                                            -> None

MustStop_OnlyOff(old, new) == old = "WRITE_TO_FLASH" /\ new = "OFF"

(* A log that is being written is stopped first. *)
MustStop(old, new) == old = "WRITE_TO_FLASH" /\ new # "WRITE_TO_FLASH"

(* The call reads the status once, to choose its commands. *)
Call(c, new) ==
  /\ caller[c].pc = "idle" /\ caller[c].made < MaxRequests
  /\ caller' = [caller EXCEPT ![c] =
                  [pc   |-> IF MustStop(status, new) THEN "stop" ELSE "set",
                   new  |-> new,
                   last |-> LastCommand(status, new),
                   made |-> caller[c].made + 1]]
  /\ UNCHANGED << status, rec_cmds, records, flash >>

(* osMessageQueuePut on the command queue, which fails after 10 ticks. *)
Sent(cmd) ==
  IF Len(rec_cmds) < CmdQueueSize THEN Append(rec_cmds, cmd) ELSE rec_cmds

SendStop(c) ==
  /\ caller[c].pc = "stop"
  /\ rec_cmds' = Sent("WRITE_STOP")
  /\ caller' = [caller EXCEPT ![c].pc = "set"]
  /\ UNCHANGED << status, records, flash >>

SetStatus(c) ==
  /\ caller[c].pc = "set"
  /\ status' = caller[c].new
  /\ caller' = [caller EXCEPT ![c].pc =
                  IF caller[c].last = None THEN "idle" ELSE "send"]
  /\ UNCHANGED << rec_cmds, records, flash >>

SendLast(c) ==
  /\ caller[c].pc = "send"
  /\ rec_cmds' = Sent(caller[c].last)
  /\ caller' = [caller EXCEPT ![c].pc = "idle"]
  /\ UNCHANGED << status, records, flash >>

-----------------------------------------------------------------------------
(* record. *)

(* Is a record taken, and put into the queue? *)
Check ==
  /\ checked = 0 /\ next <= MaxRecords
  /\ status # "OFF"
  /\ checked' = next
  /\ next' = next + 1
  /\ UNCHANGED << calls, rec_queue, lost, since_reset, flash >>

(* The put does not wait: a full queue loses the record. *)
Put ==
  /\ checked # 0
  /\ IF Len(rec_queue) < QueueSize
     THEN /\ rec_queue' = Append(rec_queue, checked)
          /\ since_reset' = since_reset + 1
          /\ UNCHANGED lost
     ELSE /\ lost' = lost \union {checked}
          /\ UNCHANGED << rec_queue, since_reset >>
  /\ checked' = 0
  /\ UNCHANGED << calls, next, flash >>

-----------------------------------------------------------------------------
(* The Recorder task. *)

(* Where the task goes with a command. *)
Obeys(cmd) ==
  CASE cmd = "FILL_Q"      -> "fill"
    [] cmd = "FILL_Q_STOP" -> "reset"
    [] cmd = "WRITE"       -> "open"
    [] cmd = "WRITE_STOP"  -> "close"

GetCommand ==
  /\ task = "wait" /\ rec_cmds # << >>
  /\ task' = Obeys(Head(rec_cmds))
  /\ rec_cmds' = Tail(rec_cmds)
  /\ UNCHANGED << status, caller, records, rec_buffer, file_open, log >>

OverLimit_OffByOne == Len(rec_queue) >= PreLimit

OverLimit == Len(rec_queue) > PreLimit

(* Before liftoff the oldest records go, down to the limit... *)
DropOldest ==
  /\ task = "fill" /\ OverLimit
  /\ rec_queue' = Tail(rec_queue)
  /\ UNCHANGED << calls, checked, next, lost, since_reset, flash >>

(* ... until a command arrives; above the limit the task looks for one in
   every 16th iteration. *)
LeaveFill ==
  /\ task = "fill" /\ rec_cmds # << >>
  /\ task' = "wait"
  /\ UNCHANGED << calls, records, rec_buffer, file_open, log >>

(* REC_CMD_FILL_Q_STOP. *)
ResetQueue ==
  /\ task = "reset"
  /\ rec_queue' = << >> /\ since_reset' = 0
  /\ task' = "wait"
  /\ UNCHANGED << calls, checked, next, lost, rec_buffer, file_open, log >>

(* REC_CMD_WRITE up to its loop: a new file. *)
OpenFile ==
  /\ task = "open"
  /\ file_open' = TRUE /\ log' = << >>
  /\ task' = "write"
  /\ UNCHANGED << calls, records, rec_buffer >>

(* A record goes from the queue into the buffer. *)
Buffer ==
  /\ task = "write" /\ rec_queue # << >>
  /\ rec_buffer' = Append(rec_buffer, Head(rec_queue))
  /\ rec_queue' = Tail(rec_queue)
  /\ task' = IF Len(rec_buffer') = BlockSize THEN "flush" ELSE "write"
  /\ UNCHANGED << calls, checked, next, lost, since_reset, file_open, log >>

(* No record for 100 ticks: the recorder is off, or the configuration records
   little (rec_mask), or the recording tasks are late. *)
NoRecord ==
  /\ task = "write" /\ rec_queue = << >>
  /\ task' = "flush"
  /\ UNCHANGED << calls, records, rec_buffer, file_open, log >>

(* The whole buffer is written, also when it is not full.  Stale slots with
   no record between them are counted once, which bounds the log. *)
Flushed ==
  IF Len(rec_buffer) = BlockSize           THEN log \o rec_buffer
  ELSE IF rec_buffer = << >> /\ log # << >> /\ log[Len(log)] = Stale THEN log
  ELSE log \o Append(rec_buffer, Stale)

NextBuffer_Kept == rec_buffer

NextBuffer == << >>

(* After every block the task looks for a command. *)
Flush ==
  /\ task = "flush"
  /\ log' = Flushed
  /\ rec_buffer' = NextBuffer
  /\ task' = IF rec_cmds # << >> THEN "wait" ELSE "write"
  /\ UNCHANGED << calls, records, file_open >>

(* REC_CMD_WRITE_STOP: the file is closed; what the queue still holds is
   dropped. *)
CloseFile ==
  /\ task = "close"
  /\ file_open' = FALSE
  /\ rec_buffer' = << >>
  /\ rec_queue' = << >> /\ since_reset' = 0
  /\ task' = "wait"
  /\ UNCHANGED << calls, checked, next, lost, log >>

-----------------------------------------------------------------------------
Init ==
  /\ status = "OFF" /\ rec_cmds = << >> /\ rec_queue = << >>
  /\ caller = [c \in Callers |->
                 [pc |-> "idle", new |-> "OFF", last |-> None, made |-> 0]]
  /\ checked = 0 /\ next = 1 /\ lost = {} /\ since_reset = 0
  /\ task = "wait" /\ rec_buffer = << >> /\ file_open = FALSE /\ log = << >>

CallerStep(c) == SendStop(c) \/ SetStatus(c) \/ SendLast(c)

TaskStep ==
  \/ GetCommand \/ DropOldest \/ LeaveFill \/ ResetQueue
  \/ OpenFile \/ Buffer \/ NoRecord \/ Flush \/ CloseFile

Next ==
  \/ \E c \in Callers : CallerStep(c) \/ \E new \in Status : Call(c, new)
  \/ Check \/ Put
  \/ TaskStep

Spec == Init /\ [][Next]_vars

(* The scheduler runs every task that is ready, a log call in progress
   returns, and the sensor tasks keep recording.  LeaveFill alone needs an
   assumption of its own: the 16-iteration check makes it come true even
   when records keep the queue above the limit. *)
Fairness ==
  /\ \A c \in Callers : WF_vars(CallerStep(c))
  /\ WF_vars(Check) /\ WF_vars(Put)
  /\ WF_vars(TaskStep) /\ WF_vars(LeaveFill)

FairSpec == Spec /\ Fairness

-----------------------------------------------------------------------------
(* LittleFS is never asked to open the flight log while it is open, nor to
   write or close it while it is closed: the commands reach the task in an
   order that makes sense whatever the actions ask for. *)
FileDiscipline ==
  /\ task = "open" => ~file_open
  /\ task \in {"write", "flush", "close"} => file_open

(* When a log is opened the queue holds the records before it, the last
   PreLimit of them at least: "When thrusting is detected we will have
   around REC_QUEUE_PRE_THRUSTING_LIMIT elements in the queue". *)
PreRecorded ==
  task = "open" =>
    Len(rec_queue) >= IF since_reset < PreLimit THEN since_reset ELSE PreLimit

(* Without its stale slots, which stand wherever a block was written before
   it was full, a log is one run of records in the order they were taken:
   none comes twice, none out of order, and one is missing between two
   others only when the queue was full at its put (Recorder::Run). *)
LogIsOneRun ==
  \A i, j \in 1 .. Len(log) :
    i < j /\ log[i] # Stale /\ log[j] # Stale =>
      /\ log[i] < log[j]
      /\ (log[i] + 1) .. (log[j] - 1) \subseteq lost \union Range(log)

(* When the last call has been made the task comes to do what the status
   says: a log is open exactly when the status is WRITE_TO_FLASH, and the
   queue is being filled exactly when it is FILL_QUEUE. *)
SettlesToStatus ==
  <>[](/\ file_open <=> status = "WRITE_TO_FLASH"
       /\ task = "fill" <=> status = "FILL_QUEUE")
=============================================================================
