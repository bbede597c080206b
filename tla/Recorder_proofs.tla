--------------------------- MODULE Recorder_proofs ---------------------------
(***************************************************************************)
(* Proofs about the flight log: how the Recorder task makes it, and what   *)
(* the flash keeps of it and of the settings (FlashStore).                 *)
(*                                                                         *)
(* With one task that asks for recorder states and a command queue that is *)
(* never full -- for any number of calls and records, any sizes of the     *)
(* queues and blocks, and any interleaving:                                *)
(*   - LittleFS is never asked to open an open log or to write or close a  *)
(*     closed one (OneCallerDiscipline);                                   *)
(*   - a log that is opened finds the last PreLimit records in the queue   *)
(*     (OneCallerPreRecorded);                                             *)
(*   - a log is one run of records, with gaps only where the queue was     *)
(*     full (OneCallerLog).                                                *)
(*                                                                         *)
(* The commands in the queue make sense because each of them fits the one  *)
(* before: a WRITE_STOP follows exactly where a log is open.  What the     *)
(* last of them leaves behind is what the caller believes (CommandsInv).   *)
(* The log, the buffer and the queue each hold a run of records up to the  *)
(* one that comes to them next, with no gap but refused records            *)
(* (RecordsInv).                                                           *)
(*                                                                         *)
(* With no hypothesis, for any capacity of the flash, any period of the    *)
(* sync and any cuts of the power:                                         *)
(*   - a log on the flash lacks at most the blocks of one period at its    *)
(*     end, and none once it was closed with room left (TailOnly);         *)
(*   - the logs are an archive (ArchiveIsKept, a refinement);              *)
(*   - a boot ends with the settings saved last or with the defaults and   *)
(*     an error (SettingsFound).                                           *)
(*                                                                         *)
(* The stored flight counter is never below the number of a log, the one   *)
(* in RAM is above both from the start of a flight on, and the blocks of   *)
(* the open log that are not committed are no more than sync_counter says  *)
(* (ArchiveInv).                                                           *)
(***************************************************************************)
EXTENDS Recorder, FlashStore, TLAPS

Command == {"FILL_Q", "FILL_Q_STOP", "WRITE", "WRITE_STOP"}
Tasks   == {"wait", "fill", "reset", "open", "write", "flush", "close"}

(* No put on the command queue fails. *)
CommandsFit == Len(rec_cmds) < CmdQueueSize

(* Will the log be open once the task has obeyed what it took? *)
OpenNow == task = "open" \/ (file_open /\ task # "close")

(* ... and the first i commands of the queue? *)
OpenAfter(i) == IF i = 0 THEN OpenNow ELSE rec_cmds[i] = "WRITE"

(* A command to stop stands exactly where a log is open. *)
StopsFit ==
  \A i \in 1 .. Len(rec_cmds) : rec_cmds[i] = "WRITE_STOP" <=> OpenAfter(i - 1)

(* What caller c believes of the log after all commands in the queue. *)
Believed(c) ==
  \/ caller[c].pc = "idle" /\ status = "WRITE_TO_FLASH"
  \/ caller[c].pc = "stop"
  \/ caller[c].pc = "set" /\ status = "WRITE_TO_FLASH"
                          /\ caller[c].new = "WRITE_TO_FLASH"

(* The command that caller c still has to send fits its choice. *)
Consistent(c) ==
  /\ caller[c].pc = "stop" =>
       status = "WRITE_TO_FLASH" /\ caller[c].new # "WRITE_TO_FLASH"
  /\ caller[c].pc \in {"stop", "set"} =>
       caller[c].last = LastCommand(status, caller[c].new)
  /\ caller[c].pc = "send" =>
       /\ caller[c].last \in Command \ {"WRITE_STOP"}
       /\ caller[c].last = "WRITE" <=> caller[c].new = "WRITE_TO_FLASH"
       /\ status = caller[c].new

CallerType ==
  [Callers -> [pc : {"idle", "stop", "set", "send"}, new : Status,
               last : Command \union {None}, made : Nat]]

(* The types the argument uses. *)
Types ==
  /\ status \in Status
  /\ rec_cmds \in Seq(Command)
  /\ caller \in CallerType
  /\ task \in Tasks
  /\ file_open \in BOOLEAN

(* The inductive invariant. *)
CommandsInv(c) ==
  /\ Types
  /\ FileDiscipline
  /\ StopsFit
  /\ OpenAfter(Len(rec_cmds)) <=> Believed(c)
  /\ Consistent(c)

-----------------------------------------------------------------------------
(* What LastCommand answers. *)
LEMMA LastCommandFacts ==
  ASSUME NEW old \in Status, NEW new \in Status
  PROVE  /\ LastCommand(old, new) \in (Command \ {"WRITE_STOP"}) \union {None}
         /\ LastCommand(old, new) = "WRITE"
              <=> old # "WRITE_TO_FLASH" /\ new = "WRITE_TO_FLASH"
         /\ new = "WRITE_TO_FLASH" =>
              (LastCommand(old, new) = None <=> old = "WRITE_TO_FLASH")
  BY DEF Status, Command, None, LastCommand

(* A command put on the queue that fits its end. *)
LEMMA Fits ==
  ASSUME NEW cmd \in Command, rec_cmds \in Seq(Command), StopsFit,
         rec_cmds' = Append(rec_cmds, cmd), OpenNow' = OpenNow,
         cmd = "WRITE_STOP" <=> OpenAfter(Len(rec_cmds))
  PROVE  /\ StopsFit'
         /\ OpenAfter(Len(rec_cmds))' <=> cmd = "WRITE"
<1>1. Len(rec_cmds') = Len(rec_cmds) + 1 /\ Len(rec_cmds) \in Nat
  OBVIOUS
<1>2. /\ rec_cmds'[Len(rec_cmds) + 1] = cmd
      /\ \A i \in 1 .. Len(rec_cmds) : rec_cmds'[i] = rec_cmds[i]
  OBVIOUS
<1>3. \A i \in 0 .. Len(rec_cmds) : OpenAfter(i)' = OpenAfter(i)
  BY <1>2 DEF OpenAfter
<1>4. StopsFit'
  <2> SUFFICES ASSUME NEW i \in 1 .. Len(rec_cmds')
               PROVE  rec_cmds'[i] = "WRITE_STOP" <=> OpenAfter(i - 1)'
    BY DEF StopsFit
  <2>1. i - 1 \in 0 .. Len(rec_cmds)
    BY <1>1
  <2>2. OpenAfter(i - 1)' = OpenAfter(i - 1)
    BY <1>3, <2>1
  <2>3. CASE i = Len(rec_cmds) + 1
    BY <1>1, <1>2, <2>2, <2>3
  <2>4. CASE i \in 1 .. Len(rec_cmds)
    BY <1>2, <2>2, <2>4 DEF StopsFit
  <2> QED
    BY <1>1, <2>3, <2>4
<1>5. OpenAfter(Len(rec_cmds))' <=> cmd = "WRITE"
  BY <1>1, <1>2 DEF OpenAfter
<1> QED
  BY <1>4, <1>5

(* The task takes the first command: it fits, and so does the rest. *)
LEMMA Taken ==
  ASSUME rec_cmds \in Seq(Command), rec_cmds # << >>, StopsFit,
         task = "wait", file_open \in BOOLEAN,
         rec_cmds' = Tail(rec_cmds), task' = Obeys(Head(rec_cmds)),
         file_open' = file_open
  PROVE  /\ StopsFit'
         /\ OpenAfter(Len(rec_cmds))' <=> OpenAfter(Len(rec_cmds))
         /\ FileDiscipline'
<1> DEFINE n == Len(rec_cmds)
<1>1. /\ n \in Nat \ {0}
      /\ Len(rec_cmds') = n - 1
      /\ Head(rec_cmds) = rec_cmds[1] /\ rec_cmds[1] \in Command
      /\ \A i \in 1 .. n - 1 : rec_cmds'[i] = rec_cmds[i + 1]
  OBVIOUS
<1>2. rec_cmds[1] = "WRITE_STOP" <=> file_open
  <2>1. OpenAfter(0) <=> file_open
    BY DEF OpenAfter, OpenNow
  <2>2. rec_cmds[1] = "WRITE_STOP" <=> OpenAfter(1 - 1)
    BY <1>1 DEF StopsFit
  <2> QED
    BY <2>1, <2>2
<1>3. FileDiscipline'
  BY <1>1, <1>2 DEF FileDiscipline, Obeys, Command
<1>4. OpenNow' <=> rec_cmds[1] = "WRITE"
  BY <1>1, <1>2 DEF OpenNow, Obeys, Command
<1>5. \A i \in 0 .. n - 1 : OpenAfter(i)' <=> OpenAfter(i + 1)
  BY <1>1, <1>4 DEF OpenAfter
<1>6. StopsFit'
  <2> SUFFICES ASSUME NEW i \in 1 .. n - 1
               PROVE  rec_cmds'[i] = "WRITE_STOP" <=> OpenAfter(i - 1)'
    BY <1>1 DEF StopsFit
  <2>1. rec_cmds[i + 1] = "WRITE_STOP" <=> OpenAfter((i + 1) - 1)
    BY <1>1 DEF StopsFit
  <2>2. OpenAfter(i - 1)' <=> OpenAfter((i - 1) + 1)
    BY <1>1, <1>5
  <2>3. (i + 1) - 1 = i /\ (i - 1) + 1 = i
    BY <1>1
  <2> QED
    BY <1>1, <2>1, <2>2, <2>3
<1>7. OpenAfter(Len(rec_cmds))' <=> OpenAfter(Len(rec_cmds))
  <2>1. PICK k \in Nat \ {0} : k = n
    BY <1>1
  <2>2. OpenAfter(k - 1)' <=> OpenAfter((k - 1) + 1)
    BY <1>1, <1>5, <2>1
  <2>3. (k - 1) + 1 = k /\ Len(rec_cmds') = k - 1
    BY <1>1, <2>1
  <2>4. OpenAfter(Len(rec_cmds))' <=> OpenAfter(k - 1)'
    BY <2>3 DEF OpenAfter
  <2>5. Len(rec_cmds) = k
    BY <1>1, <2>1
  <2> QED
    BY <2>2, <2>3, <2>4, <2>5, Zenon
<1> QED
  BY <1>3, <1>6, <1>7

(* A step that leaves the command queue alone, and of the rest only moves
   the task without opening or closing. *)
LEMMA Unmoved ==
  ASSUME StopsFit, rec_cmds' = rec_cmds, OpenNow' <=> OpenNow
  PROVE  /\ StopsFit'
         /\ OpenAfter(Len(rec_cmds))' <=> OpenAfter(Len(rec_cmds))
  BY DEF StopsFit, OpenAfter

-----------------------------------------------------------------------------
(* The invariant holds initially. *)
THEOREM InitCommands == ASSUME NEW c \in Callers, Init PROVE CommandsInv(c)
<1>1. Types
  <2>1. caller \in CallerType
    BY DEF Init, CallerType, Status, None
  <2> QED
    <3>1. status \in Status /\ task \in Tasks /\ file_open \in BOOLEAN
      BY DEF Init, Status, Tasks
    <3>2. rec_cmds \in Seq(Command)
      BY DEF Init
    <3> QED
      BY <2>1, <3>1, <3>2 DEF Types
<1>2. FileDiscipline /\ StopsFit
  BY DEF Init, FileDiscipline, StopsFit
<1>3. OpenAfter(Len(rec_cmds)) <=> Believed(c)
  BY DEF Init, OpenAfter, OpenNow, Believed
<1>4. Consistent(c)
  BY DEF Init, Consistent
<1> QED
  BY <1>1, <1>2, <1>3, <1>4 DEF CommandsInv

(* ... and every step of the one caller, of the recording task and of the
   Recorder task keeps it, as long as commands fit. *)
THEOREM NextCommands ==
  ASSUME NEW c, Callers = {c}, CommandsInv(c), CommandsFit, [Next]_vars
  PROVE  CommandsInv(c)'
<1> USE DEF CommandsInv, Types
<1> c \in Callers
  OBVIOUS
<1>t. caller[c] \in [pc : {"idle", "stop", "set", "send"}, new : Status,
                    last : Command \union {None}, made : Nat]
  BY DEF CallerType
<1>1. ASSUME NEW new \in Status, Call(c, new) PROVE CommandsInv(c)'
  <2> DEFINE last == LastCommand(status, new)
             pc   == IF MustStop(status, new) THEN "stop" ELSE "set"
             call == [pc |-> pc, new |-> new, last |-> last,
                      made |-> caller[c].made + 1]
  <2>a. last \in Command \union {None}
    BY LastCommandFacts
  <2>b. /\ caller[c].pc = "idle"
        /\ caller' = [caller EXCEPT ![c] = call]
        /\ UNCHANGED << status, rec_cmds, task, file_open >>
    BY <1>1 DEF Call, flash
  <2>c. caller'[c].pc = pc /\ caller'[c].new = new /\ caller'[c].last = last
    BY <2>b DEF CallerType
  <2>d. call \in [pc : {"idle", "stop", "set", "send"}, new : Status,
                 last : Command \union {None}, made : Nat]
    BY <1>t, <2>a
  <2>1. Types'
    BY <2>b, <2>d DEF CallerType
  <2>2. OpenNow' = OpenNow /\ FileDiscipline'
    BY <1>1 DEF Call, flash, OpenNow, FileDiscipline
  <2>3. StopsFit' /\ (OpenAfter(Len(rec_cmds))' <=> OpenAfter(Len(rec_cmds)))
    BY <1>1, <2>2, Unmoved DEF Call
  <2>4. Believed(c)' <=> Believed(c)
    BY <2>b, <2>c DEF Believed, MustStop
  <2>5. Consistent(c)'
    BY <2>b, <2>c DEF Consistent, MustStop
  <2> QED
    BY <2>1, <2>2, <2>3, <2>4, <2>5
<1>2. ASSUME SendStop(c) PROVE CommandsInv(c)'
  <2>1. rec_cmds' = Append(rec_cmds, "WRITE_STOP")
    BY <1>2 DEF SendStop, Sent, CommandsFit
  <2>2. Types'
    <3>1. caller' \in CallerType
      BY <1>2, <1>t DEF SendStop, CallerType
    <3>2. rec_cmds' \in Seq(Command)
      BY <2>1 DEF Command
    <3> QED
      BY <1>2, <3>1, <3>2 DEF SendStop, flash
  <2>3. OpenNow' = OpenNow /\ FileDiscipline'
    BY <1>2 DEF SendStop, flash, OpenNow, FileDiscipline
  <2>4. StopsFit' /\ ~OpenAfter(Len(rec_cmds))'
    <3>1. OpenAfter(Len(rec_cmds))
      BY <1>2 DEF SendStop, Believed
    <3> QED
      BY <2>1, <2>3, <3>1, Fits DEF Command
  <2>5. ~Believed(c)' /\ Consistent(c)'
    BY <1>2, <1>t DEF SendStop, Believed, Consistent, CallerType
  <2> QED
    BY <2>2, <2>3, <2>4, <2>5
<1>3. ASSUME SetStatus(c) PROVE CommandsInv(c)'
  <2> DEFINE pc == IF caller[c].last = None THEN "idle" ELSE "send"
  <2>a. /\ caller[c].pc = "set" /\ status' = caller[c].new
        /\ caller' = [caller EXCEPT ![c].pc = pc]
        /\ UNCHANGED << rec_cmds, task, file_open >>
    BY <1>3 DEF SetStatus, flash
  <2>b. /\ caller'[c].pc = pc
        /\ caller'[c].new = caller[c].new /\ caller'[c].last = caller[c].last
    BY <1>t, <2>a DEF CallerType
  <2>1. Types'
    BY <1>3, <1>t DEF SetStatus, CallerType, flash
  <2>2. OpenNow' = OpenNow /\ FileDiscipline'
    BY <1>3 DEF SetStatus, flash, OpenNow, FileDiscipline
  <2>3. StopsFit' /\ (OpenAfter(Len(rec_cmds))' <=> OpenAfter(Len(rec_cmds)))
    BY <1>3, <2>2, Unmoved DEF SetStatus
  <2>4. caller[c].last = LastCommand(status, caller[c].new)
    BY <1>3 DEF SetStatus, Consistent
  <2>5. LET last == caller[c].last
            new  == caller[c].new
        IN  /\ last \in (Command \ {"WRITE_STOP"}) \union {None}
            /\ last = "WRITE" <=> status # "WRITE_TO_FLASH" /\ new = "WRITE_TO_FLASH"
            /\ new = "WRITE_TO_FLASH" => (last = None <=> status = "WRITE_TO_FLASH")
    BY <1>t, <2>4, LastCommandFacts
  <2>6. Believed(c)' <=> Believed(c)
    BY <2>a, <2>b, <2>5 DEF Believed
  <2>7. Consistent(c)'
    BY <2>a, <2>b, <2>5 DEF Consistent
  <2> QED
    BY <2>1, <2>2, <2>3, <2>6, <2>7
<1>4. ASSUME SendLast(c) PROVE CommandsInv(c)'
  <2>1. /\ caller[c].last \in Command \ {"WRITE_STOP"}
        /\ caller[c].last = "WRITE" <=> caller[c].new = "WRITE_TO_FLASH"
        /\ status = caller[c].new
    BY <1>4 DEF SendLast, Consistent
  <2>2. rec_cmds' = Append(rec_cmds, caller[c].last)
    BY <1>4 DEF SendLast, Sent, CommandsFit
  <2>3. Types'
    <3>1. caller' \in CallerType
      BY <1>4, <1>t DEF SendLast, CallerType
    <3>2. rec_cmds' \in Seq(Command)
      BY <2>1, <2>2
    <3> QED
      BY <1>4, <3>1, <3>2 DEF SendLast, flash
  <2>4. OpenNow' = OpenNow /\ FileDiscipline'
    BY <1>4 DEF SendLast, flash, OpenNow, FileDiscipline
  <2>5. StopsFit' /\ (OpenAfter(Len(rec_cmds))' <=> caller[c].last = "WRITE")
    <3>1. ~OpenAfter(Len(rec_cmds))
      BY <1>4 DEF SendLast, Believed
    <3> QED
      BY <2>1, <2>2, <2>4, <3>1, Fits
  <2>6. (Believed(c)' <=> caller[c].last = "WRITE") /\ Consistent(c)'
    BY <1>4, <1>t, <2>1 DEF SendLast, Believed, Consistent, CallerType
  <2> QED
    BY <2>3, <2>4, <2>5, <2>6
<1>5. ASSUME UNCHANGED << status, caller >>,
             StopsFit', OpenAfter(Len(rec_cmds))' <=> OpenAfter(Len(rec_cmds)),
             rec_cmds' \in Seq(Command), task' \in Tasks,
             file_open' \in BOOLEAN, FileDiscipline'
      PROVE  CommandsInv(c)'
  BY <1>5 DEF Believed, Consistent
<1>6. ASSUME UNCHANGED << calls, task, file_open >> PROVE CommandsInv(c)'
  <2>1. OpenNow' = OpenNow /\ FileDiscipline'
    BY <1>6 DEF OpenNow, FileDiscipline
  <2> QED
    BY <1>5, <1>6, <2>1, Unmoved DEF calls
<1>7. CASE GetCommand
  <2>1. /\ StopsFit' /\ FileDiscipline'
        /\ OpenAfter(Len(rec_cmds))' <=> OpenAfter(Len(rec_cmds))
    BY <1>7, Taken DEF GetCommand
  <2>2. rec_cmds' \in Seq(Command) /\ task' \in Tasks
    <3>1. Head(rec_cmds) \in Command /\ Tail(rec_cmds) \in Seq(Command)
      BY <1>7 DEF GetCommand
    <3> QED
      BY <1>7, <3>1 DEF GetCommand, Obeys, Tasks, Command
  <2> QED
    BY <1>5, <1>7, <2>1, <2>2 DEF GetCommand
<1>8. CASE \/ LeaveFill \/ ResetQueue \/ Buffer \/ NoRecord \/ Flush
  <2>1. /\ UNCHANGED calls /\ file_open' = file_open
        /\ task' \in Tasks /\ task' \notin {"open", "close"}
        /\ task \notin {"open", "close"}
        /\ task' \in {"write", "flush"} => task \in {"write", "flush"}
    BY <1>8 DEF LeaveFill, ResetQueue, Buffer, NoRecord, Flush, Tasks
  <2>2. (OpenNow' <=> OpenNow) /\ FileDiscipline'
    BY <2>1 DEF OpenNow, FileDiscipline
  <2> QED
    BY <1>5, <2>1, <2>2, Unmoved DEF calls
<1>9. CASE OpenFile \/ CloseFile
  <2>1. /\ UNCHANGED calls
        /\ task' \in Tasks /\ file_open' \in BOOLEAN
    BY <1>9 DEF OpenFile, CloseFile, calls, Tasks
  <2>2. (OpenNow' <=> OpenNow) /\ FileDiscipline'
    BY <1>9 DEF OpenFile, CloseFile, OpenNow, FileDiscipline
  <2> QED
    BY <1>5, <2>1, <2>2, Unmoved DEF calls
<1>10. CASE DropOldest \/ Check \/ Put \/ UNCHANGED vars
  BY <1>6, <1>10 DEF DropOldest, Check, Put, vars, flash
<1> QED
  BY <1>1, <1>2, <1>3, <1>4, <1>7, <1>8, <1>9, <1>10
     DEF Next, CallerStep, TaskStep

(* With one caller, and as long as the command queue takes its commands,
   LittleFS is asked for nothing that its assertions rule out.  This is
   about set_recorder_state and Recorder::Run. *)
THEOREM OneCallerDiscipline ==
  ASSUME NEW c, Callers = {c}
  PROVE  Spec /\ []CommandsFit => []FileDiscipline
<1>1. Init => CommandsInv(c)
  BY InitCommands
<1>2. CommandsInv(c) /\ CommandsFit /\ [Next]_vars => CommandsInv(c)'
  BY NextCommands
<1>3. CommandsInv(c) => FileDiscipline
  BY DEF CommandsInv
<1> QED
  BY <1>1, <1>2, <1>3, PTL DEF Spec

-----------------------------------------------------------------------------
(* The records on their way to the log. *)

(* The records of s, which may hold stale slots, are in order and below b,
   and every record between one of them and b is in s or in gone. *)
Run(s, b, gone) ==
  \A i \in 1 .. Len(s) :
    s[i] # Stale =>
      /\ s[i] < b
      /\ \A j \in 1 .. i - 1 : s[j] # Stale => s[j] < s[i]
      /\ s[i] .. (b - 1) \subseteq gone \union Range(s)

HeadOr(s, b) == IF s = << >> THEN b ELSE s[1]

(* The record that comes to the queue next, to the buffer, and to the log. *)
ToQueue  == IF checked # 0 THEN checked ELSE next
ToBuffer == HeadOr(rec_queue, ToQueue)
ToLog    == HeadOr(rec_buffer, ToBuffer)

Record == Nat \ {0}

RecordTypes ==
  /\ rec_queue \in Seq(Record) /\ rec_buffer \in Seq(Record) /\ log \in Seq(Nat)
  /\ checked \in Nat /\ next \in Record /\ since_reset \in Nat
  /\ checked # 0 => next = checked + 1

(* The queue, the buffer and the log of one flight are one run of records,
   each up to the record that comes to it next. *)
RecordsInv ==
  /\ RecordTypes
  /\ Run(rec_queue, ToQueue, lost)
  /\ Run(rec_buffer, ToBuffer, lost)
  /\ ~file_open => rec_buffer = << >>
  /\ file_open => Run(log, ToLog, lost)
  /\ LogIsOneRun

(* The queue is only cut down below the limit while a log is written. *)
FillInv ==
  /\ task \in {"fill", "reset"} => ~file_open
  /\ file_open \/ Len(rec_queue) >= since_reset \/ Len(rec_queue) >= PreLimit

-----------------------------------------------------------------------------
(* What the invariant of the commands says of the next command: it closes
   the log if one is open. *)
LEMMA OpenLogFacts ==
  ASSUME NEW c, Callers = {c}, CommandsInv(c), task = "wait", rec_cmds # << >>
  PROVE  Obeys(Head(rec_cmds)) = "close" <=> file_open
<1> USE DEF CommandsInv, Types
<1>1. Head(rec_cmds) = rec_cmds[1] /\ rec_cmds[1] \in Command /\ 1 \in 1 .. Len(rec_cmds)
  OBVIOUS
<1>2. rec_cmds[1] = "WRITE_STOP" <=> OpenAfter(1 - 1)
  BY <1>1 DEF StopsFit
<1>3. OpenAfter(1 - 1) <=> file_open
  BY DEF OpenAfter, OpenNow
<1> QED
  BY <1>1, <1>2, <1>3 DEF Obeys, Command

(* Nothing is a run, up to any record. *)
LEMMA EmptyRun ==
  ASSUME NEW b, NEW gone PROVE Run(<< >>, b, gone) /\ HeadOr(<< >>, b) = b
  BY DEF Run, HeadOr

(* A run stays one when more records are gone. *)
LEMMA RunStays ==
  ASSUME NEW s, NEW b, NEW gone, NEW more, Run(s, b, gone), gone \subseteq more
  PROVE  Run(s, b, more)
  BY DEF Run

(* ... and goes up to the next record when the one before that is gone. *)
LEMMA RunSkips ==
  ASSUME NEW s \in Seq(Nat), NEW b \in Nat, NEW gone, Run(s, b, gone)
  PROVE  Run(s, b + 1, gone \union {b})
<1> SUFFICES ASSUME NEW i \in 1 .. Len(s), s[i] # Stale
             PROVE  /\ s[i] < b + 1
                    /\ \A j \in 1 .. i - 1 : s[j] # Stale => s[j] < s[i]
                    /\ s[i] .. ((b + 1) - 1) \subseteq (gone \union {b}) \union Range(s)
  BY DEF Run
<1>1. /\ s[i] < b /\ s[i] \in Nat
      /\ \A j \in 1 .. i - 1 : s[j] # Stale => s[j] < s[i]
      /\ s[i] .. (b - 1) \subseteq gone \union Range(s)
  BY DEF Run
<1>2. (b + 1) - 1 = b /\ s[i] .. b = (s[i] .. (b - 1)) \union {b}
  BY <1>1
<1> QED
  BY <1>1, <1>2

LEMMA RangeOfAppend ==
  ASSUME NEW s \in Seq(Nat), NEW r \in Nat
  PROVE  Range(Append(s, r)) = Range(s) \union {r}
<1> DEFINE t == Append(s, r)
<1> PICK n \in Nat : n = Len(s)
  OBVIOUS
<1>1. /\ DOMAIN t = 1 .. n + 1 /\ DOMAIN s = 1 .. n /\ t[n + 1] = r
      /\ \A i \in 1 .. n : t[i] = s[i]
  OBVIOUS
<1> HIDE DEF t
<1>2. ASSUME NEW x \in Range(t) PROVE x \in Range(s) \union {r}
  BY <1>1 DEF Range
<1>3. ASSUME NEW x \in Range(s) \union {r} PROVE x \in Range(t)
  <2>1. n + 1 \in 1 .. n + 1 /\ \A i \in 1 .. n : i \in 1 .. n + 1
    OBVIOUS
  <2> QED
    BY <1>1, <2>1 DEF Range
<1> QED
  BY <1>2, <1>3 DEF t

(* The record a run goes up to joins it behind its last. *)
LEMMA RunAppend ==
  ASSUME NEW s \in Seq(Nat), NEW r \in Record, NEW b \in Nat, NEW gone,
         Run(s, r, gone), r < b, (r + 1) .. (b - 1) \subseteq gone
  PROVE  Run(Append(s, r), b, gone)
<1> DEFINE t == Append(s, r)
<1> PICK n \in Nat : n = Len(s)
  OBVIOUS
<1>1. Len(t) = n + 1 /\ t[n + 1] = r /\ \A i \in 1 .. n : t[i] = s[i] /\ s[i] \in Nat
  OBVIOUS
<1>2. Range(t) = Range(s) \union {r} /\ r \in Nat /\ r # Stale
  BY RangeOfAppend DEF Record, Stale
<1> HIDE DEF t
<1>3. r .. (b - 1) \subseteq gone \union {r}
  BY <1>2
<1>4. ASSUME NEW i \in 1 .. n, s[i] # Stale
      PROVE  /\ s[i] < b
             /\ \A j \in 1 .. i - 1 : t[j] # Stale => t[j] < s[i]
             /\ s[i] .. (b - 1) \subseteq gone \union Range(t)
  <2>1. /\ s[i] < r
        /\ \A j \in 1 .. i - 1 : s[j] # Stale => s[j] < s[i]
        /\ s[i] .. (r - 1) \subseteq gone \union Range(s)
    BY <1>4 DEF Run
  <2>2. \A j \in 1 .. i - 1 : t[j] = s[j]
    BY <1>1
  <2>3. s[i] .. (b - 1) \subseteq (s[i] .. (r - 1)) \union (r .. (b - 1))
    BY <1>1, <1>2
  <2> QED
    BY <1>1, <1>2, <1>3, <2>1, <2>2, <2>3
<1>5. /\ r < b /\ r .. (b - 1) \subseteq gone \union Range(t)
      /\ \A j \in 1 .. n : t[j] # Stale => t[j] < r
  BY <1>1, <1>2, <1>3 DEF Run
<1>6. ASSUME NEW i \in 1 .. n + 1, t[i] # Stale
      PROVE  /\ t[i] < b
             /\ \A j \in 1 .. i - 1 : t[j] # Stale => t[j] < t[i]
             /\ t[i] .. (b - 1) \subseteq gone \union Range(t)
  <2>1. CASE i = n + 1
    BY <1>1, <1>5, <2>1
  <2>2. CASE i # n + 1
    <3>1. i \in 1 .. n
      BY <2>2
    <3>2. t[i] = s[i]
      BY <1>1, <3>1
    <3> QED
      BY <1>4, <1>6, <3>1, <3>2
  <2> QED
    BY <2>1, <2>2
<1> QED
  BY <1>1, <1>6 DEF Run, t

(* A stale slot ends no run. *)
LEMMA RunStale ==
  ASSUME NEW s \in Seq(Nat), NEW b \in Nat, NEW gone, Run(s, b, gone)
  PROVE  Run(Append(s, Stale), b, gone)
<1> DEFINE t == Append(s, Stale)
<1> PICK n \in Nat : n = Len(s)
  OBVIOUS
<1>1. Len(t) = n + 1 /\ t[n + 1] = Stale /\ \A i \in 1 .. n : t[i] = s[i]
  BY DEF Stale
<1>2. Range(s) \subseteq Range(t)
  BY RangeOfAppend DEF Stale
<1> HIDE DEF t
<1>3. ASSUME NEW i \in 1 .. n + 1, t[i] # Stale
      PROVE  /\ t[i] < b
             /\ \A j \in 1 .. i - 1 : t[j] # Stale => t[j] < t[i]
             /\ t[i] .. (b - 1) \subseteq gone \union Range(t)
  <2>1. i \in 1 .. n
    BY <1>1, <1>3
  <2>2. t[i] = s[i] /\ \A j \in 1 .. i - 1 : t[j] = s[j]
    BY <1>1, <2>1
  <2> QED
    BY <1>2, <1>3, <2>1, <2>2 DEF Run
<1> QED
  BY <1>1, <1>3 DEF Run, t

(* The first record leaves a run; what is left is one, and follows it. *)
LEMMA RunTail ==
  ASSUME NEW s \in Seq(Record), s # << >>, NEW b \in Nat, NEW gone, Run(s, b, gone)
  PROVE  /\ Run(Tail(s), b, gone)
         /\ Head(s) < HeadOr(Tail(s), b) /\ HeadOr(Tail(s), b) \in Nat
         /\ (Head(s) + 1) .. (HeadOr(Tail(s), b) - 1) \subseteq gone
<1> DEFINE t == Tail(s)
<1> PICK n \in Nat \ {0} : n = Len(s)
  OBVIOUS
<1>1. /\ Len(t) = n - 1 /\ (\A i \in 1 .. n - 1 : t[i] = s[i + 1])
      /\ Head(s) = s[1] /\ t \in Seq(Record)
      /\ DOMAIN s = 1 .. n /\ DOMAIN t = 1 .. n - 1
      /\ \A i \in 1 .. n : s[i] \in Nat /\ s[i] # Stale
  BY DEF Record, Stale
<1>2. ASSUME NEW i \in 1 .. n
      PROVE  /\ s[i] < b
             /\ \A j \in 1 .. i - 1 : s[j] < s[i]
             /\ s[i] .. (b - 1) \subseteq gone \union Range(s)
  <2>1. \A j \in 1 .. i - 1 : j \in 1 .. n
    OBVIOUS
  <2> QED
    BY <1>1, <2>1 DEF Run
<1>3. ASSUME NEW x \in Range(s) PROVE x = s[1] \/ x \in Range(t)
  <2>1. PICK k \in 1 .. n : x = s[k]
    BY <1>1, <1>3 DEF Range
  <2>2. k = 1 \/ (k - 1 \in 1 .. n - 1 /\ (k - 1) + 1 = k)
    OBVIOUS
  <2> QED
    BY <1>1, <2>1, <2>2 DEF Range
<1> HIDE DEF t
<1>4. ASSUME NEW i \in 1 .. n - 1
      PROVE  /\ t[i] < b /\ t[i] \in Nat /\ t[i] > s[1]
             /\ \A j \in 1 .. i - 1 : t[j] < t[i]
             /\ t[i] .. (b - 1) \subseteq gone \union Range(t)
  <2>1. i + 1 \in 1 .. n /\ t[i] = s[i + 1] /\ 1 \in 1 .. (i + 1) - 1
    BY <1>1
  <2>2. /\ s[i + 1] < b /\ s[i + 1] \in Nat /\ s[1] \in Nat /\ s[1] < s[i + 1]
        /\ s[i + 1] .. (b - 1) \subseteq gone \union Range(s)
    BY <1>1, <1>2, <2>1
  <2>3. \A j \in 1 .. i - 1 : j + 1 \in 1 .. (i + 1) - 1 /\ t[j] = s[j + 1]
    BY <1>1
  <2>4. \A j \in 1 .. i - 1 : t[j] < t[i]
    BY <1>2, <2>1, <2>3
  <2>5. \A x \in s[i + 1] .. (b - 1) : x # s[1]
    BY <2>2
  <2> QED
    BY <1>3, <2>1, <2>2, <2>4, <2>5
<1>5. Run(t, b, gone)
  BY <1>1, <1>4 DEF Run
<1>6. CASE t = << >>
  <2>1. n = 1
    BY <1>1, <1>6
  <2>2. /\ Head(s) < b /\ s[1] \in Nat /\ Head(s) = s[1]
        /\ s[1] .. (b - 1) \subseteq gone \union Range(s)
    BY <1>1, <1>2, <2>1
  <2>3. \A x \in (s[1] + 1) .. (b - 1) : x # s[1] /\ x \in s[1] .. (b - 1)
    BY <2>2
  <2>4. Range(t) = {}
    BY <1>6 DEF Range
  <2>5. (s[1] + 1) .. (b - 1) \subseteq gone
    BY <1>3, <2>2, <2>3, <2>4
  <2> QED
    BY <1>5, <1>6, <2>2, <2>5 DEF HeadOr, t
<1>7. CASE t # << >>
  <2>1. n > 1 /\ 1 \in 1 .. n - 1 /\ HeadOr(t, b) = t[1]
    BY <1>1, <1>7 DEF HeadOr
  <2>2. /\ t[1] < b /\ t[1] \in Nat /\ t[1] > s[1] /\ s[1] \in Nat
        /\ s[1] .. (b - 1) \subseteq gone \union Range(s)
    <3>1. 1 \in 1 .. n
      OBVIOUS
    <3> QED
      BY <1>1, <1>2, <1>4, <2>1, <3>1
  <2>3. ASSUME NEW x \in (s[1] + 1) .. (t[1] - 1) PROVE x \in gone
    <3>1. x \in Nat /\ x > s[1] /\ x < t[1] /\ x \in s[1] .. (b - 1)
      BY <2>2
    <3>2. SUFFICES ASSUME x \in Range(t) PROVE FALSE
      BY <1>3, <2>2, <3>1
    <3>3. PICK k \in 1 .. n - 1 : x = t[k]
      BY <1>1, <3>2 DEF Range
    <3>4. k = 1 \/ 1 \in 1 .. k - 1
      OBVIOUS
    <3>5. t[1] <= t[k]
      BY <1>4, <2>2, <3>3, <3>4
    <3> QED
      BY <2>2, <3>1, <3>3, <3>5
  <2> QED
    BY <1>1, <1>5, <2>1, <2>2, <2>3 DEF t
<1> QED
  BY <1>6, <1>7

(* A block goes to the log up to which the log goes. *)
LEMMA RunConcat ==
  ASSUME NEW s \in Seq(Nat), NEW t \in Seq(Record), NEW b \in Nat, NEW gone,
         Run(s, HeadOr(t, b), gone), Run(t, b, gone)
  PROVE  Run(s \o t, b, gone)
<1> PICK m \in Nat, n \in Nat : m = Len(s) /\ n = Len(t)
  OBVIOUS
<1> DEFINE u == s \o t
<1>1. /\ Len(u) = m + n
      /\ DOMAIN u = 1 .. m + n /\ DOMAIN s = 1 .. m /\ DOMAIN t = 1 .. n
      /\ \A i \in 1 .. m : u[i] = s[i] /\ s[i] \in Nat
      /\ \A i \in 1 .. n : u[m + i] = t[i] /\ t[i] \in Nat /\ t[i] # Stale
  BY DEF Record, Stale
<1> HIDE DEF u
<1>2. Range(s) \subseteq Range(u) /\ Range(t) \subseteq Range(u)
  <2>1. (\A i \in 1 .. m : i \in 1 .. m + n) /\ (\A i \in 1 .. n : m + i \in 1 .. m + n)
    OBVIOUS
  <2>2. ASSUME NEW x \in Range(s) PROVE x \in Range(u)
    <3>1. PICK i \in 1 .. m : x = s[i]
      BY <1>1, <2>2 DEF Range
    <3>2. x = u[i] /\ i \in DOMAIN u
      BY <1>1, <2>1, <3>1
    <3> QED
      BY <3>2 DEF Range
  <2>3. ASSUME NEW x \in Range(t) PROVE x \in Range(u)
    <3>1. PICK i \in 1 .. n : x = t[i]
      BY <1>1, <2>3 DEF Range
    <3>2. x = u[m + i] /\ m + i \in DOMAIN u
      BY <1>1, <2>1, <3>1
    <3> QED
      BY <3>2 DEF Range
  <2> QED
    BY <2>2, <2>3
<1>3. \A i \in 1 .. n :
        /\ t[i] < b /\ t[i] .. (b - 1) \subseteq gone \union Range(t)
        /\ \A j \in 1 .. i - 1 : t[j] < t[i]
  BY <1>1 DEF Run
<1>4. /\ HeadOr(t, b) \in Nat /\ HeadOr(t, b) <= b
      /\ HeadOr(t, b) .. (b - 1) \subseteq gone \union Range(t)
      /\ \A i \in 1 .. n : HeadOr(t, b) <= t[i]
  <2>1. CASE n = 0
    <3>0. Len(t) = 0
      BY <2>1
    <3>1. t = << >>
      BY <3>0
    <3>2. HeadOr(t, b) = b
      BY <3>1 DEF HeadOr
    <3>3. b .. (b - 1) = {}
      OBVIOUS
    <3>4. 1 .. n = {}
      BY <2>1
    <3> QED
      BY <3>2, <3>3, <3>4
  <2>2. CASE n # 0
    <3>1. t # << >> /\ HeadOr(t, b) = t[1] /\ 1 \in 1 .. n
      BY <2>2 DEF HeadOr
    <3>2. \A i \in 1 .. n : i = 1 \/ 1 \in 1 .. i - 1
      OBVIOUS
    <3> QED
      BY <1>1, <1>3, <3>1, <3>2
  <2> QED
    BY <2>1, <2>2
<1>5. ASSUME NEW i \in 1 .. m, s[i] # Stale
      PROVE  /\ s[i] < b /\ s[i] < HeadOr(t, b)
             /\ \A j \in 1 .. i - 1 : s[j] # Stale => s[j] < s[i]
             /\ s[i] .. (b - 1) \subseteq gone \union Range(u)
  <2>1. /\ s[i] < HeadOr(t, b)
        /\ \A j \in 1 .. i - 1 : s[j] # Stale => s[j] < s[i]
        /\ s[i] .. (HeadOr(t, b) - 1) \subseteq gone \union Range(s)
    BY <1>5 DEF Run
  <2>2. s[i] .. (b - 1)
          \subseteq (s[i] .. (HeadOr(t, b) - 1)) \union (HeadOr(t, b) .. (b - 1))
    BY <1>1, <1>4
  <2> QED
    BY <1>1, <1>2, <1>4, <2>1, <2>2
<1>6. ASSUME NEW i \in 1 .. m + n, u[i] # Stale
      PROVE  /\ u[i] < b
             /\ \A j \in 1 .. i - 1 : u[j] # Stale => u[j] < u[i]
             /\ u[i] .. (b - 1) \subseteq gone \union Range(u)
  <2>1. CASE i <= m
    <3>1. i \in 1 .. m /\ u[i] = s[i] /\ \A j \in 1 .. i - 1 : u[j] = s[j]
      BY <1>1, <2>1
    <3> QED
      BY <1>5, <1>6, <3>1
  <2>2. CASE i > m
    <3>1. PICK k \in 1 .. n : i = m + k
      <4>1. i - m \in 1 .. n /\ i = m + (i - m)
        BY <2>2
      <4> QED
        BY <4>1
    <3>2. u[i] = t[k]
      BY <1>1, <3>1
    <3>3. ASSUME NEW j \in 1 .. i - 1, u[j] # Stale PROVE u[j] < u[i]
      <4>1. CASE j <= m
        <5>1. j \in 1 .. m /\ u[j] = s[j]
          BY <1>1, <4>1
        <5>2. s[j] < HeadOr(t, b) /\ s[j] \in Nat
          BY <1>1, <1>5, <3>3, <5>1
        <5> QED
          BY <1>1, <1>4, <3>2, <5>1, <5>2
      <4>2. CASE j > m
        <5>1. j - m \in 1 .. k - 1 /\ j - m \in 1 .. n /\ j = m + (j - m)
          BY <3>1, <4>2
        <5>2. u[j] = t[j - m]
          BY <1>1, <5>1
        <5> QED
          BY <1>3, <3>2, <5>1, <5>2
      <4> QED
        BY <4>1, <4>2
    <3> QED
      BY <1>2, <1>3, <3>2, <3>3
  <2> QED
    BY <2>1, <2>2
<1> QED
  BY <1>1, <1>6 DEF Run, u

(* A log that is left alone stays one run. *)
LEMMA LogStays ==
  ASSUME LogIsOneRun, log' = log, lost \subseteq lost'
  PROVE  LogIsOneRun'
  BY DEF LogIsOneRun

-----------------------------------------------------------------------------
(* The records that come next. *)
LEMMA NextOnes ==
  ASSUME RecordTypes
  PROVE  ToQueue \in Record /\ ToBuffer \in Record /\ ToLog \in Record
<1>1. ToQueue \in Record
  BY DEF RecordTypes, ToQueue, Record
<1>2. ASSUME NEW s \in Seq(Record), NEW b \in Record PROVE HeadOr(s, b) \in Record
  BY DEF HeadOr
<1> QED
  BY <1>1, <1>2 DEF RecordTypes, ToBuffer, ToLog

(* A step that touches no record. *)
LEMMA RecordsStay ==
  ASSUME RecordsInv, UNCHANGED << records, rec_buffer, file_open, log >>
  PROVE  RecordsInv'
<1>1. UNCHANGED << rec_queue, checked, next, lost, since_reset >>
  BY DEF records
<1>2. ToQueue' = ToQueue /\ ToBuffer' = ToBuffer /\ ToLog' = ToLog
  BY <1>1 DEF ToQueue, ToBuffer, ToLog
<1> QED
  BY <1>1, <1>2, LogStays DEF RecordsInv, RecordTypes

LEMMA CheckRecords == ASSUME RecordsInv, Check PROVE RecordsInv'
<1>1. /\ checked = 0 /\ checked' = next /\ next' = next + 1
      /\ UNCHANGED << rec_queue, rec_buffer, log, file_open, lost, since_reset >>
  BY DEF Check, flash
<1>2. RecordTypes'
  BY <1>1 DEF RecordsInv, RecordTypes, Record
<1>3. ToQueue' = ToQueue
  BY <1>1 DEF ToQueue, RecordsInv, RecordTypes, Record
<1>4. ToBuffer' = ToBuffer /\ ToLog' = ToLog
  BY <1>1, <1>3 DEF ToBuffer, ToLog
<1> QED
  BY <1>1, <1>2, <1>3, <1>4, LogStays DEF RecordsInv

LEMMA PutRecords == ASSUME RecordsInv, Put PROVE RecordsInv'
<1>1. /\ checked # 0 /\ checked' = 0 /\ next = checked + 1
      /\ checked \in Record /\ ToQueue = checked /\ ToQueue' = next
      /\ UNCHANGED << rec_buffer, log, file_open, next >>
  BY DEF Put, flash, RecordsInv, RecordTypes, ToQueue, Record
<1>2. /\ rec_queue \in Seq(Nat) /\ rec_queue \in Seq(Record) /\ checked \in Nat
  BY <1>1 DEF RecordsInv, RecordTypes, Record
<1>3. CASE Len(rec_queue) < QueueSize
  <2>1. /\ rec_queue' = Append(rec_queue, checked) /\ UNCHANGED lost
        /\ since_reset' = since_reset + 1
    BY <1>3 DEF Put
  <2>2. RecordTypes'
    BY <1>1, <2>1 DEF RecordsInv, RecordTypes
  <2>3. Run(rec_queue', ToQueue', lost)
    <3>1. checked < checked + 1 /\ (checked + 1) .. ((checked + 1) - 1) = {}
          /\ checked + 1 \in Nat
      BY <1>2
    <3>2. (checked + 1) .. ((checked + 1) - 1) \subseteq lost
      BY <3>1
    <3> QED
      BY <1>1, <1>2, <2>1, <3>1, <3>2, RunAppend DEF RecordsInv
  <2>4. ToBuffer' = ToBuffer
    <3>1. rec_queue' # << >>
      BY <1>2, <2>1
    <3>2. rec_queue = << >> => rec_queue'[1] = checked
      BY <1>2, <2>1
    <3>3. rec_queue # << >> => rec_queue'[1] = rec_queue[1]
      BY <1>2, <2>1
    <3> QED
      BY <1>1, <3>1, <3>2, <3>3 DEF ToBuffer, HeadOr
  <2>5. ToLog' = ToLog
    BY <1>1, <2>4 DEF ToLog
  <2> QED
    BY <1>1, <2>1, <2>2, <2>3, <2>4, <2>5, LogStays DEF RecordsInv
<1>4. CASE ~(Len(rec_queue) < QueueSize)
  <2>1. /\ lost' = lost \union {checked} /\ UNCHANGED << rec_queue, since_reset >>
        /\ rec_queue # << >>
    BY <1>4, RecorderAssumption DEF Put, RecorderAssumption
  <2>2. RecordTypes'
    BY <1>1, <2>1 DEF RecordsInv, RecordTypes
  <2>3. Run(rec_queue, ToQueue', lost')
    BY <1>1, <1>2, <2>1, RunSkips DEF RecordsInv
  <2>4. ToBuffer' = ToBuffer /\ ToLog' = ToLog
    BY <1>1, <2>1 DEF ToBuffer, ToLog, HeadOr
  <2>5. Run(rec_buffer, ToBuffer, lost') /\ (file_open => Run(log, ToLog, lost'))
    BY <2>1, RunStays DEF RecordsInv
  <2>6. LogIsOneRun'
    BY <1>1, <2>1, LogStays DEF RecordsInv
  <2> QED
    BY <1>1, <2>1, <2>2, <2>3, <2>4, <2>5, <2>6 DEF RecordsInv
<1> QED
  BY <1>3, <1>4

(* The task drops records while no log is open. *)
LEMMA DropRecords ==
  ASSUME RecordsInv, FillInv, DropOldest \/ ResetQueue PROVE RecordsInv'
<1>1. /\ ~file_open /\ rec_buffer = << >>
      /\ UNCHANGED << rec_buffer, log, file_open, checked, next, lost >>
  BY DEF DropOldest, ResetQueue, FillInv, flash, RecordsInv
<1>2. ToQueue' = ToQueue
  BY <1>1 DEF ToQueue
<1>3. /\ rec_queue' \in Seq(Record) /\ since_reset' \in Nat
      /\ Run(rec_queue', ToQueue, lost)
  <2>1. CASE ResetQueue
    BY <2>1, EmptyRun DEF ResetQueue
  <2>2. CASE DropOldest
    <3>0. /\ rec_queue \in Seq(Record) /\ since_reset \in Nat /\ ToQueue \in Nat
      BY NextOnes DEF RecordsInv, RecordTypes, Record
    <3>1. /\ rec_queue # << >> /\ rec_queue' = Tail(rec_queue) /\ UNCHANGED since_reset
      BY <2>2, <3>0, RecorderAssumption DEF DropOldest, OverLimit, RecorderAssumption
    <3>2. Run(Tail(rec_queue), ToQueue, lost)
      BY <3>0, <3>1, RunTail DEF RecordsInv
    <3>3. Tail(rec_queue) \in Seq(Record)
      BY <3>0, <3>1
    <3> QED
      BY <3>0, <3>1, <3>2, <3>3
  <2> QED
    BY <2>1, <2>2
<1>4. Run(rec_buffer', ToBuffer', lost')
  BY <1>1, EmptyRun
<1> QED
  BY <1>1, <1>2, <1>3, <1>4, LogStays DEF RecordsInv, RecordTypes

LEMMA OpenRecords ==
  ASSUME RecordsInv, FileDiscipline, OpenFile \/ CloseFile PROVE RecordsInv'
<1>1. /\ UNCHANGED << checked, next, lost >> /\ rec_buffer' = << >>
      /\ ToQueue' = ToQueue
  BY DEF OpenFile, CloseFile, records, FileDiscipline, RecordsInv, ToQueue
<1>2. Run(rec_buffer', ToBuffer', lost')
  BY <1>1, EmptyRun
<1>3. CASE OpenFile
  <2>1. log' = << >> /\ UNCHANGED << rec_queue, since_reset >>
    BY <1>3 DEF OpenFile, records
  <2>2. LogIsOneRun' /\ Run(log', ToLog', lost')
    BY <2>1, EmptyRun DEF LogIsOneRun
  <2> QED
    BY <1>1, <1>2, <2>1, <2>2 DEF RecordsInv, RecordTypes
<1>4. CASE CloseFile
  <2>1. ~file_open' /\ log' = log /\ rec_queue' = << >> /\ since_reset' = 0
    BY <1>4 DEF CloseFile
  <2>2. Run(rec_queue', ToQueue', lost')
    BY <2>1, EmptyRun
  <2> QED
    BY <1>1, <1>2, <2>1, <2>2, LogStays DEF RecordsInv, RecordTypes
<1> QED
  BY <1>3, <1>4

LEMMA BufferRecords ==
  ASSUME RecordsInv, FileDiscipline, Buffer PROVE RecordsInv'
<1>1. /\ rec_queue # << >> /\ file_open
      /\ rec_buffer' = Append(rec_buffer, Head(rec_queue))
      /\ rec_queue' = Tail(rec_queue)
      /\ UNCHANGED << log, file_open, checked, next, lost, since_reset >>
  BY DEF Buffer, FileDiscipline
<1>2. /\ Head(rec_queue) \in Record /\ Tail(rec_queue) \in Seq(Record)
      /\ Head(rec_queue) = rec_queue[1] /\ ToBuffer = Head(rec_queue)
  BY <1>1 DEF RecordsInv, RecordTypes, ToBuffer, HeadOr
<1>3. ToQueue' = ToQueue /\ ToQueue \in Nat
  BY <1>1, NextOnes DEF ToQueue, RecordsInv, Record
<1>4. ToBuffer' = HeadOr(Tail(rec_queue), ToQueue)
  BY <1>1, <1>3 DEF ToBuffer
<1>5. /\ Run(Tail(rec_queue), ToQueue, lost)
      /\ Head(rec_queue) < ToBuffer' /\ ToBuffer' \in Nat
      /\ (Head(rec_queue) + 1) .. (ToBuffer' - 1) \subseteq lost
  BY <1>1, <1>3, <1>4, RunTail DEF RecordsInv, RecordTypes
<1>6. rec_buffer \in Seq(Record) /\ rec_buffer \in Seq(Nat)
  BY DEF RecordsInv, RecordTypes, Record
<1>7. Run(Append(rec_buffer, Head(rec_queue)), ToBuffer', lost)
  BY <1>2, <1>5, <1>6, RunAppend DEF RecordsInv
<1>8. ToLog' = ToLog
  <2>1. rec_buffer' # << >>
    BY <1>1, <1>2, <1>6
  <2>2. CASE rec_buffer = << >>
    <3>1. rec_buffer'[1] = Head(rec_queue)
      BY <1>1, <1>2, <2>2
    <3> QED
      BY <1>2, <2>1, <2>2, <3>1 DEF ToLog, HeadOr
  <2>3. CASE rec_buffer # << >>
    <3>1. rec_buffer'[1] = rec_buffer[1]
      BY <1>1, <1>2, <1>6, <2>3
    <3> QED
      BY <2>1, <2>3, <3>1 DEF ToLog, HeadOr
  <2> QED
    BY <2>2, <2>3
<1>9. rec_buffer' \in Seq(Record)
  BY <1>1, <1>2, <1>6
<1>10. LogIsOneRun'
  BY <1>1, LogStays DEF RecordsInv
<1> QED
  BY <1>1, <1>2, <1>3, <1>5, <1>7, <1>8, <1>9, <1>10 DEF RecordsInv, RecordTypes

LEMMA FlushRecords ==
  ASSUME RecordsInv, FileDiscipline, Flush PROVE RecordsInv'
<1>1. /\ file_open /\ log' = Flushed /\ rec_buffer' = << >>
      /\ UNCHANGED << rec_queue, file_open, checked, next, lost, since_reset >>
  BY DEF Flush, NextBuffer, records, FileDiscipline
<1>2. ToQueue' = ToQueue /\ ToBuffer' = ToBuffer
  BY <1>1 DEF ToQueue, ToBuffer
<1>3. ToLog' = ToBuffer /\ ToBuffer \in Nat
  BY <1>1, <1>2, NextOnes DEF ToLog, HeadOr, RecordsInv, Record
<1>4. /\ Run(log, HeadOr(rec_buffer, ToBuffer), lost) /\ Run(rec_buffer, ToBuffer, lost)
      /\ log \in Seq(Nat) /\ rec_buffer \in Seq(Record) /\ rec_buffer \in Seq(Nat)
  BY <1>1 DEF RecordsInv, RecordTypes, ToLog, Record
<1>5. Run(log \o rec_buffer, ToBuffer, lost) /\ log \o rec_buffer \in Seq(Nat)
  BY <1>3, <1>4, RunConcat
<1>6. Run(log', ToBuffer, lost) /\ log' \in Seq(Nat)
  <2>1. CASE Len(rec_buffer) = BlockSize
    BY <1>1, <1>5, <2>1 DEF Flushed
  <2>2. CASE Len(rec_buffer) # BlockSize /\ rec_buffer = << >> /\ log # << >>
             /\ log[Len(log)] = Stale
    <3>1. log' = log /\ HeadOr(rec_buffer, ToBuffer) = ToBuffer
      BY <1>1, <2>2, EmptyRun DEF Flushed
    <3> QED
      BY <1>4, <3>1
  <2>3. CASE /\ Len(rec_buffer) # BlockSize
             /\ ~(rec_buffer = << >> /\ log # << >> /\ log[Len(log)] = Stale)
    <3>1. log' = log \o Append(rec_buffer, Stale)
      BY <1>1, <2>3 DEF Flushed
    <3>2. log' = Append(log \o rec_buffer, Stale)
      BY <1>4, <3>1
    <3>3. Stale \in Nat
      BY DEF Stale
    <3>4. Run(log', ToBuffer, lost)
      BY <1>3, <1>5, <3>2, RunStale
    <3>5. log' \in Seq(Nat)
      BY <1>5, <3>2, <3>3
    <3> QED
      BY <3>4, <3>5
  <2> QED
    BY <2>1, <2>2, <2>3
<1>7. LogIsOneRun'
  <2>1. Run(log, ToBuffer, lost)'
    BY <1>1, <1>2, <1>6
  <2>2. ToBuffer' \in Nat /\ log' \in Seq(Nat)
    BY <1>2, <1>3, <1>6
  <2>3. ASSUME NEW i \in 1 .. Len(log'), NEW j \in 1 .. Len(log'),
               i < j, log'[i] # Stale, log'[j] # Stale
        PROVE  /\ log'[i] < log'[j]
               /\ (log'[i] + 1) .. (log'[j] - 1) \subseteq lost' \union Range(log')
    <3>1. log'[i] \in Nat /\ log'[j] \in Nat /\ i \in 1 .. j - 1
      BY <2>2, <2>3
    <3>2. /\ log'[j] < ToBuffer' /\ log'[i] < log'[j]
          /\ log'[i] .. (ToBuffer' - 1) \subseteq lost' \union Range(log')
      BY <2>1, <2>3, <3>1 DEF Run
    <3>3. (log'[i] + 1) .. (log'[j] - 1) \subseteq log'[i] .. (ToBuffer' - 1)
      BY <2>2, <3>1, <3>2
    <3> QED
      BY <3>2, <3>3
  <2> QED
    BY <2>3 DEF LogIsOneRun
<1> QED
  BY <1>1, <1>2, <1>3, <1>6, <1>7, EmptyRun DEF RecordsInv, RecordTypes

(* set_recorder_state and the steps of the task that only move it. *)
LEMMA OtherRecords ==
  ASSUME RecordsInv,
         \/ \E c \in Callers : CallerStep(c) \/ \E new \in Status : Call(c, new)
         \/ GetCommand \/ LeaveFill \/ NoRecord \/ UNCHANGED vars
  PROVE  RecordsInv'
<1>1. UNCHANGED << records, rec_buffer, file_open, log >>
  BY DEF CallerStep, SendStop, SetStatus, SendLast, Call, GetCommand, LeaveFill,
     NoRecord, vars, flash
<1> QED
  BY <1>1, RecordsStay

(* One step of any task. *)
LEMMA NextRecords ==
  ASSUME NEW c, Callers = {c}, CommandsInv(c), RecordsInv, FillInv, [Next]_vars
  PROVE  RecordsInv'
<1>1. FileDiscipline
  BY DEF CommandsInv
<1>2. CASE \/ \E b \in Callers : CallerStep(b) \/ \E new \in Status : Call(b, new)
          \/ GetCommand \/ LeaveFill \/ NoRecord \/ UNCHANGED vars
  BY <1>2, OtherRecords
<1>3. CASE Check \/ Put
  BY <1>3, CheckRecords, PutRecords
<1>5. CASE DropOldest \/ ResetQueue
  BY <1>5, DropRecords
<1>6. CASE OpenFile \/ CloseFile
  BY <1>1, <1>6, OpenRecords
<1>7. CASE Buffer
  BY <1>1, <1>7, BufferRecords
<1>8. CASE Flush
  BY <1>1, <1>8, FlushRecords
<1> QED
  BY <1>2, <1>3, <1>5, <1>6, <1>7, <1>8 DEF Next, TaskStep

-----------------------------------------------------------------------------
(* Only DropOldest shortens the queue between a reset and an open, and it
   stops at the limit. *)
LEMMA NextFill ==
  ASSUME NEW c, Callers = {c}, CommandsInv(c), RecordTypes, FillInv, [Next]_vars
  PROVE  FillInv'
<1>1. FileDiscipline /\ Len(rec_queue) \in Nat /\ since_reset \in Nat
      /\ PreLimit \in Nat /\ QueueSize \in Nat /\ PreLimit <= QueueSize
      /\ Len(<< >>) = 0
  BY RecorderAssumption DEF CommandsInv, RecordTypes, RecorderAssumption
<1>2. ASSUME UNCHANGED << rec_queue, since_reset, task, file_open >> PROVE FillInv'
  BY <1>2 DEF FillInv
<1>3. CASE \E b \in Callers : CallerStep(b) \/ \E new \in Status : Call(b, new)
  BY <1>2, <1>3 DEF CallerStep, SendStop, SetStatus, SendLast, Call, records, flash
<1>4. CASE Check \/ UNCHANGED vars
  BY <1>2, <1>4 DEF Check, vars, records, flash
<1>5. CASE Put
  <2>1. UNCHANGED << task, file_open >>
    BY <1>5 DEF Put, flash
  <2>2. CASE Len(rec_queue) < QueueSize
    <3>1. rec_queue' = Append(rec_queue, checked) /\ since_reset' = since_reset + 1
      BY <1>5, <2>2 DEF Put
    <3>2. Len(rec_queue') = Len(rec_queue) + 1
      BY <3>1 DEF RecordTypes
    <3> QED
      BY <1>1, <2>1, <3>1, <3>2 DEF FillInv
  <2>3. CASE ~(Len(rec_queue) < QueueSize)
    <3>1. UNCHANGED << rec_queue, since_reset >>
      BY <1>5, <2>3 DEF Put
    <3> QED
      BY <1>2, <2>1, <3>1
  <2> QED
    BY <2>2, <2>3
<1>6. CASE GetCommand
  <2>1. /\ task = "wait" /\ rec_cmds # << >> /\ task' = Obeys(Head(rec_cmds))
        /\ UNCHANGED << rec_queue, since_reset, file_open >>
    BY <1>6 DEF GetCommand, records
  <2>2. task' = "close" <=> file_open
    BY <2>1, OpenLogFacts
  <2> QED
    BY <2>1, <2>2 DEF FillInv
<1>7. CASE LeaveFill \/ NoRecord
  BY <1>7 DEF LeaveFill, NoRecord, records, FillInv
<1>8. CASE DropOldest
  <2>1. /\ UNCHANGED << task, file_open, since_reset >>
        /\ rec_queue' = Tail(rec_queue) /\ Len(rec_queue) > PreLimit
    BY <1>8 DEF DropOldest, OverLimit, flash
  <2>2. rec_queue # << >>
    BY <1>1, <2>1
  <2>3. Len(rec_queue') = Len(rec_queue) - 1
    BY <2>1, <2>2 DEF RecordTypes
  <2> QED
    BY <1>1, <2>1, <2>3 DEF FillInv
<1>9. CASE ResetQueue \/ CloseFile
  BY <1>1, <1>9 DEF ResetQueue, CloseFile, FillInv
<1>10. CASE OpenFile
  BY <1>10 DEF OpenFile, FillInv
<1>11. CASE Buffer \/ Flush
  BY <1>1, <1>11 DEF Buffer, Flush, FileDiscipline, FillInv
<1> QED
  BY <1>3, <1>4, <1>5, <1>6, <1>7, <1>8, <1>9, <1>10, <1>11 DEF Next, TaskStep

-----------------------------------------------------------------------------
(* The inductive invariant of the log. *)
LogInv(c) == CommandsInv(c) /\ RecordsInv /\ FillInv

LEMMA InitLog == ASSUME NEW c \in Callers, Init PROVE LogInv(c)
<1>1. RecordTypes /\ FillInv
  BY DEF Init, RecordTypes, FillInv, Record
<1>2. LogIsOneRun /\ \A b, gone : Run(<< >>, b, gone)
  BY EmptyRun DEF Init, LogIsOneRun
<1>3. RecordsInv
  BY <1>1, <1>2 DEF Init, RecordsInv
<1> QED
  BY <1>1, <1>3, InitCommands DEF LogInv

LEMMA NextLog ==
  ASSUME NEW c, Callers = {c}, LogInv(c), CommandsFit, [Next]_vars
  PROVE  LogInv(c)'
<1>1. CommandsInv(c)'
  BY NextCommands DEF LogInv
<1>2. RecordsInv'
  BY NextRecords DEF LogInv
<1>3. FillInv'
  BY NextFill DEF LogInv, RecordsInv
<1> QED
  BY <1>1, <1>2, <1>3 DEF LogInv

(* With one caller, and as long as the command queue takes its commands, an
   opened log starts with the PreLimit records before it at least, or with
   all of them: whatever Recorder::Run has dropped while it filled the queue
   was above REC_QUEUE_PRE_THRUSTING_LIMIT. *)
THEOREM OneCallerPreRecorded ==
  ASSUME NEW c, Callers = {c}
  PROVE  Spec /\ []CommandsFit => []PreRecorded
<1>1. Init => LogInv(c)
  BY InitLog
<1>2. LogInv(c) /\ CommandsFit /\ [Next]_vars => LogInv(c)'
  BY NextLog
<1>3. LogInv(c) => PreRecorded
  <2> SUFFICES ASSUME LogInv(c), task = "open"
               PROVE  Len(rec_queue) >=
                        IF since_reset < PreLimit THEN since_reset ELSE PreLimit
    BY DEF PreRecorded
  <2>1. ~file_open /\ Len(rec_queue) \in Nat /\ since_reset \in Nat /\ PreLimit \in Nat
    BY RecorderAssumption
    DEF LogInv, CommandsInv, FileDiscipline, RecordsInv, RecordTypes, RecorderAssumption
  <2> QED
    BY <2>1 DEF LogInv, FillInv
<1> QED
  BY <1>1, <1>2, <1>3, PTL DEF Spec

(* ... and what Recorder::Run writes to the log of a flight is one run of
   records, none of them twice, and none missing but those that record()
   could not put into the full queue, however often the task waits for
   records in vain and writes a block that is not full. *)
THEOREM OneCallerLog ==
  ASSUME NEW c, Callers = {c}
  PROVE  Spec /\ []CommandsFit => []LogIsOneRun
<1>1. Init => LogInv(c)
  BY InitLog
<1>2. LogInv(c) /\ CommandsFit /\ [Next]_vars => LogInv(c)'
  BY NextLog
<1>3. LogInv(c) => LogIsOneRun
  BY DEF LogInv, RecordsInv
<1> QED
  BY <1>1, <1>2, <1>3, PTL DEF Spec

-----------------------------------------------------------------------------
(***************************************************************************)
(* The flash of FlashStore.                                                *)
(***************************************************************************)
(* The Recorder task has a log open.                                        *)
Recording == rec \in {"write", "check", "stop"}

FlashTypes ==
  /\ firmware \in Firmware
  /\ counter_file \in Nat \cup {Absent} /\ flight_counter \in Nat
  /\ boot \in {"mount", "counter", "config", "save", "run"}
  /\ formatting \in BOOLEAN
  /\ rec \in {"wait", "counter", "open", "write", "check", "stop"}
  /\ file \in [blocks : Seq(Nat), pos : Nat, erred : BOOLEAN]
  /\ sync_counter \in 0 .. (SyncPeriod - 1)
  /\ flights \in 0 .. MaxFlights

(* Each log has its record of what was written, both are sequences of blocks.*)
LogTypes ==
  /\ logs = [n \in DOMAIN logs |-> logs[n]]
  /\ written = [n \in DOMAIN logs |-> written[n]]
  /\ DOMAIN logs \subseteq Nat /\ whole \subseteq DOMAIN logs
  /\ \A n \in DOMAIN logs : logs[n] \in Seq(Nat) /\ written[n] \in Seq(Nat)

(* Who may touch the flash.                                                 *)
Turns ==
  /\ rec # "wait" => boot = "run" /\ ~ formatting
  /\ formatting => boot = "run"
  /\ boot \in {"mount", "counter"} => flight_counter = 0

(* No log has a number above the one that is stored, and the one in RAM is  *)
(* not below it once it was read.                                           *)
Numbered ==
  /\ \A n \in DOMAIN logs : counter_file # Absent /\ n <= counter_file
  /\ boot \notin {"mount", "counter"} /\ counter_file # Absent =>
       /\ counter_file <= flight_counter
       /\ rec = "counter" => counter_file < flight_counter
  /\ rec = "open" \/ Recording => counter_file = flight_counter
  /\ rec = "open" => flight_counter \notin DOMAIN logs
  /\ Recording => flight_counter \in DOMAIN logs

(* What LittleFS has of the open log is what it accepted.                   *)
OpenedFile ==
  /\ rec # "wait" => flights \in 1 .. MaxFlights
  /\ Recording =>
       /\ file.blocks = written[flight_counter]
       /\ file.pos = Len(file.blocks)
       /\ \A i \in 1 .. Len(file.blocks) : file.blocks[i] = flights
       /\ file.erred => ~ (InUse < Capacity)
       /\ flight_counter \notin whole

(* How far a log on the flash is behind.                                    *)
Lag(n) == Len(written[n]) - Len(logs[n])

Behind ==
  /\ \A n \in DOMAIN logs :
       /\ Len(logs[n]) <= Len(written[n]) /\ Lag(n) <= SyncPeriod
       /\ \A i \in 1 .. Len(logs[n]) : logs[n][i] = written[n][i]
  /\ \A n \in whole : logs[n] = written[n]
  /\ Recording /\ ~ file.erred =>
       \/ Lag(flight_counter) <= sync_counter
       \/ rec = "check" /\ sync_counter = 0

ArchiveInv ==
  FlashTypes /\ LogTypes /\ Turns /\ Numbered /\ OpenedFile /\ Behind

(* The settings on the flash.                                               *)
Setting == [version : Nat, value : Values, user : BOOLEAN]

SettingsInv ==
  /\ firmware \in Firmware
  /\ config_file \in Setting \cup {Absent}
  /\ config \in Setting
  /\ kept # Absent => config_file = kept
  /\ kept = Absent /\ config_file # Absent =>
       config_file.value = Factory /\ ~ config_file.user
  /\ boot \in {"mount", "counter", "config"} => config.version = 0
  /\ boot = "save" =>
       /\ config = Default(FALSE)
       /\ kept # Absent => kept.version # firmware

-----------------------------------------------------------------------------
(* Sequences of blocks.                                                     *)

LEMMA PrefixByElements ==
  ASSUME NEW s \in Seq(Nat), NEW t \in Seq(Nat), Len(s) <= Len(t),
         \A i \in 1 .. Len(s) : s[i] = t[i]
  PROVE  IsPrefix(s, t)
<1>1. SubSeq(s, 1, Len(s)) \in Seq(Nat) /\ Len(SubSeq(s, 1, Len(s))) = Len(s)
  OBVIOUS
<1>2. SubSeq(t, 1, Len(s)) \in Seq(Nat) /\ Len(SubSeq(t, 1, Len(s))) = Len(s)
  OBVIOUS
<1>3. \A i \in 1 .. Len(s) : SubSeq(s, 1, Len(s))[i] = SubSeq(t, 1, Len(s))[i]
  OBVIOUS
<1>4. SubSeq(s, 1, Len(s)) = SubSeq(t, 1, Len(s))
  BY <1>1, <1>2, <1>3
<1> QED BY <1>4 DEF IsPrefix

(* A block that is written at the end of a log is appended.                 *)
LEMMA WrittenAtTheEnd ==
  ASSUME NEW b \in Seq(Nat), NEW f \in Nat
  PROVE  SubSeq(b, 1, Len(b)) \o << f >> \o SubSeq(b, Len(b) + 2, Len(b)) = Append(b, f)
<1>1. SubSeq(b, 1, Len(b)) = b
  OBVIOUS
<1>2. SubSeq(b, Len(b) + 2, Len(b)) = << >>
  OBVIOUS
<1>3. b \o << f >> = Append(b, f)
  OBVIOUS
<1>4. Append(b, f) \o << >> = Append(b, f)
  OBVIOUS
<1> QED BY <1>1, <1>2, <1>3, <1>4

-----------------------------------------------------------------------------
(* Steps that leave the logs alone.                                         *)

LEMMA QuietStep ==
  ASSUME ArchiveInv, firmware' \in Firmware,
         UNCHANGED << counter_file, logs, flight_counter, formatting, rec,
                      file, sync_counter, flights, written, whole >>,
         \/ boot' = boot
         \/ boot \in {"config", "save"} /\ boot' \in {"save", "run"}
  PROVE  ArchiveInv'
<1> USE DEF ArchiveInv
<1>1. FlashTypes'
  BY DEF FlashTypes
<1>2. LogTypes'
  BY DEF LogTypes
<1>3. Turns' /\ Numbered'
  BY DEF FlashTypes, Turns, Numbered, Recording
<1>4. InUse' = InUse /\ Recording' = Recording /\ \A n : Lag(n)' = Lag(n)
  BY DEF InUse, Recording, Lag
<1>5. OpenedFile' /\ Behind'
  BY <1>4 DEF OpenedFile, Behind
<1> QED BY <1>1, <1>2, <1>3, <1>5

(* The number is read at the boot.                                          *)
LEMMA LoadCounterStep == ArchiveInv /\ LoadCounter => ArchiveInv'
<1> SUFFICES ASSUME ArchiveInv, LoadCounter PROVE ArchiveInv'
  OBVIOUS
<1> USE DEF ArchiveInv
<1>1. /\ boot = "counter" /\ boot' = "config" /\ rec = "wait" /\ rec' = "wait"
      /\ flight_counter = 0 /\ ~ formatting
      /\ UNCHANGED << firmware, logs, formatting, file, sync_counter,
                      flights, written, whole >>
  BY DEF LoadCounter, Turns, recorder, history
<1>2. counter_file' \in Nat /\ flight_counter' = counter_file'
  BY <1>1 DEF LoadCounter, FlashTypes
<1>3. counter_file # Absent => counter_file' = counter_file
  BY DEF LoadCounter
<1>4. FlashTypes'
  BY <1>1, <1>2 DEF FlashTypes
<1>5. LogTypes'
  BY <1>1 DEF LogTypes
<1>6. Turns'
  BY <1>1 DEF Turns
<1>7. Numbered'
  BY <1>1, <1>2, <1>3 DEF Numbered, Recording, LogTypes
<1>8. OpenedFile' /\ Behind'
  BY <1>1 DEF OpenedFile, Behind, Recording, Lag
<1> QED BY <1>4, <1>5, <1>6, <1>7, <1>8

(* Nothing is left in the flash, and nobody is recording.                   *)
LEMMA EmptiedStep ==
  ASSUME ArchiveInv, firmware' \in Firmware, Emptied, rec' = "wait",
         boot' \in {"mount", "counter", "config", "save", "run"},
         flight_counter' = 0, formatting' = FALSE,
         file' = file \/ file' = NoFile,
         sync_counter' = sync_counter \/ sync_counter' = 0
  PROVE  ArchiveInv'
<1> USE DEF ArchiveInv
<1>1. /\ logs' = NoLogs /\ written' = NoLogs /\ whole' = {} /\ DOMAIN NoLogs = {}
      /\ counter_file' = Absent /\ flights' = flights
  BY DEF Emptied, NoLogs
<1>2. NoFile \in [blocks : Seq(Nat), pos : Nat, erred : BOOLEAN]
  BY DEF NoFile
<1>3. 0 \in 0 .. (SyncPeriod - 1)
  BY FlashAssumption DEF FlashAssumption
<1>4. FlashTypes'
  BY <1>1, <1>2, <1>3 DEF FlashTypes
<1>5. LogTypes'
  BY <1>1 DEF LogTypes, NoLogs
<1>6. Turns' /\ Numbered'
  BY <1>1 DEF Turns, Numbered, Recording
<1>7. OpenedFile' /\ Behind'
  BY <1>1 DEF OpenedFile, Behind, Recording
<1> QED BY <1>4, <1>5, <1>6, <1>7

LEMMA PowerLossStep == ArchiveInv /\ PowerLoss => ArchiveInv'
<1> SUFFICES ASSUME ArchiveInv, PowerLoss PROVE ArchiveInv'
  OBVIOUS
<1> USE DEF ArchiveInv
<1>1. /\ firmware' \in Firmware /\ boot' = "mount" /\ flight_counter' = 0
      /\ formatting' = FALSE /\ rec' = "wait" /\ file' = NoFile /\ sync_counter' = 0
  BY DEF PowerLoss
<1>2. CASE Emptied
  BY <1>1, <1>2, EmptiedStep
<1>3. CASE UNCHANGED << flashFiles, history >>
  <2>1. UNCHANGED << counter_file, logs, flights, written, whole >>
    BY <1>3 DEF flashFiles, history
  <2>2. NoFile \in [blocks : Seq(Nat), pos : Nat, erred : BOOLEAN]
    BY DEF NoFile
  <2>3. 0 \in 0 .. (SyncPeriod - 1)
    BY FlashAssumption DEF FlashAssumption
  <2>4. FlashTypes'
    BY <1>1, <2>1, <2>2, <2>3 DEF FlashTypes
  <2>5. LogTypes' /\ Turns'
    BY <1>1, <2>1 DEF LogTypes, Turns
  <2>6. Numbered'
    BY <1>1, <2>1 DEF Numbered, Recording
  <2>7. OpenedFile' /\ Behind'
    BY <1>1, <2>1 DEF OpenedFile, Behind, Recording, Lag
  <2> QED BY <2>4, <2>5, <2>6, <2>7
<1> QED BY <1>2, <1>3 DEF PowerLoss

LEMMA MountStep == ArchiveInv /\ Mount => ArchiveInv'
<1> SUFFICES ASSUME ArchiveInv, Mount PROVE ArchiveInv'
  OBVIOUS
<1> USE DEF ArchiveInv
<1>1. /\ boot = "mount" /\ boot' = "counter" /\ rec = "wait" /\ rec' = "wait"
      /\ flight_counter = 0 /\ ~ formatting /\ formatting' = FALSE
      /\ UNCHANGED << firmware, flight_counter, file, sync_counter >>
  BY DEF Mount, Turns, recorder, FlashTypes
<1>2. CASE Emptied
  BY <1>1, <1>2, EmptiedStep DEF FlashTypes
<1>3. CASE ~ Emptied
  <2>1. UNCHANGED << counter_file, logs, flights, written, whole >>
    BY <1>3 DEF Mount, history
  <2>2. FlashTypes' /\ LogTypes' /\ Turns'
    BY <1>1, <2>1 DEF FlashTypes, LogTypes, Turns
  <2>3. Numbered'
    BY <1>1, <2>1 DEF Numbered, Recording
  <2>4. OpenedFile' /\ Behind'
    BY <1>1, <2>1 DEF OpenedFile, Behind, Recording, Lag
  <2> QED BY <2>2, <2>3, <2>4
<1> QED BY <1>2, <1>3

LEMMA FormatStep == ArchiveInv /\ (FormatBegin \/ FormatEnd) => ArchiveInv'
<1> SUFFICES ASSUME ArchiveInv, FormatBegin \/ FormatEnd PROVE ArchiveInv'
  OBVIOUS
<1> USE DEF ArchiveInv
<1>1. CASE FormatBegin
  <2>1. /\ rec = "wait" /\ rec' = "wait" /\ boot = "run" /\ formatting' = TRUE
        /\ UNCHANGED << firmware, counter_file, logs, boot, flight_counter,
                        file, sync_counter, flights, written, whole >>
    BY <1>1 DEF FormatBegin, ConsoleOwnsFlash, flashFiles, recorder, history
  <2>2. FlashTypes' /\ LogTypes' /\ Turns'
    BY <2>1 DEF FlashTypes, LogTypes, Turns
  <2>3. Numbered'
    BY <2>1 DEF Numbered, Recording
  <2>4. OpenedFile' /\ Behind'
    BY <2>1 DEF OpenedFile, Behind, Recording, Lag
  <2> QED BY <2>2, <2>3, <2>4
<1>2. CASE FormatEnd
  <2>1. /\ Emptied /\ rec' = "wait" /\ boot' = boot /\ flight_counter' = 0
        /\ formatting' = FALSE /\ firmware' = firmware
        /\ UNCHANGED << file, sync_counter >>
    BY <1>2 DEF FormatEnd, recorder, Turns
  <2> QED BY <2>1, EmptiedStep DEF FlashTypes
<1> QED BY <1>1, <1>2

LEMMA RemoveLogStep ==
  ASSUME NEW k, ArchiveInv, RemoveLog(k)
  PROVE  ArchiveInv'
<1> USE DEF ArchiveInv
<1>1. /\ rec = "wait" /\ rec' = "wait"
      /\ logs' = Only(logs, DOMAIN logs \ {k})
      /\ written' = Only(written, DOMAIN logs \ {k}) /\ whole' = whole \ {k}
      /\ UNCHANGED << firmware, counter_file, boot, flight_counter, formatting,
                      file, sync_counter, flights >>
  BY DEF RemoveLog, ConsoleOwnsFlash, recorder
<1>2. /\ DOMAIN logs' = DOMAIN logs \ {k} /\ DOMAIN written' = DOMAIN logs \ {k}
      /\ \A n \in DOMAIN logs \ {k} : logs'[n] = logs[n] /\ written'[n] = written[n]
  BY <1>1 DEF Only
<1>3. FlashTypes' /\ Turns'
  BY <1>1 DEF FlashTypes, Turns
<1>4. LogTypes'
  <2>1. /\ logs' = [n \in DOMAIN logs' |-> logs'[n]]
        /\ written' = [n \in DOMAIN logs' |-> written'[n]]
    BY <1>1, <1>2 DEF Only
  <2> QED BY <1>1, <1>2, <2>1 DEF LogTypes
<1>5. Numbered'
  BY <1>1, <1>2 DEF Numbered, Recording
<1>6. OpenedFile'
  BY <1>1 DEF OpenedFile, Recording
<1>7. \A n \in DOMAIN logs' :
        n \in DOMAIN logs /\ logs'[n] = logs[n] /\ written'[n] = written[n]
  BY <1>2
<1>8. \A n \in whole' : n \in whole /\ n \in DOMAIN logs \ {k}
  BY <1>1 DEF LogTypes
<1>9. Behind'
  <2>1. \A n \in DOMAIN logs' :
          /\ Len(logs'[n]) <= Len(written'[n]) /\ Lag(n)' <= SyncPeriod
          /\ \A i \in 1 .. Len(logs'[n]) : logs'[n][i] = written'[n][i]
    BY <1>7 DEF Behind, Lag
  <2>2. \A n \in whole' : logs'[n] = written'[n]
    BY <1>2, <1>8 DEF Behind
  <2> QED BY <1>1, <2>1, <2>2 DEF Behind, Recording
<1> QED BY <1>3, <1>4, <1>5, <1>6, <1>9

-----------------------------------------------------------------------------
(* The Recorder task.                                                       *)

LEMMA StartFlightStep == ArchiveInv /\ StartFlight => ArchiveInv'
<1> SUFFICES ASSUME ArchiveInv, StartFlight PROVE ArchiveInv'
  OBVIOUS
<1> USE DEF ArchiveInv
<1>1. /\ rec = "wait" /\ rec' = "counter" /\ boot = "run" /\ ~ formatting
      /\ flights < MaxFlights /\ flights' = flights + 1
      /\ flight_counter' = flight_counter + 1
      /\ UNCHANGED << firmware, counter_file, logs, boot, formatting, file,
                      sync_counter, written, whole >>
  BY DEF StartFlight, ConsoleOwnsFlash, flashFiles
<1>2. flights' \in 1 .. MaxFlights
  BY <1>1, FlashAssumption DEF FlashTypes, FlashAssumption
<1>3. FlashTypes' /\ LogTypes'
  BY <1>1, <1>2 DEF FlashTypes, LogTypes
<1>4. Turns'
  BY <1>1 DEF Turns
<1>5. Numbered'
  BY <1>1 DEF Numbered, Recording, FlashTypes
<1>6. OpenedFile' /\ Behind'
  BY <1>1, <1>2 DEF OpenedFile, Behind, Recording, Lag
<1> QED BY <1>3, <1>4, <1>5, <1>6

LEMMA StoreCounterStep == ArchiveInv /\ StoreCounter => ArchiveInv'
<1> SUFFICES ASSUME ArchiveInv, StoreCounter PROVE ArchiveInv'
  OBVIOUS
<1> USE DEF ArchiveInv
<1>1. /\ rec = "counter" /\ rec' = "open" /\ boot = "run" /\ ~ formatting
      /\ counter_file' = flight_counter
      /\ UNCHANGED << firmware, logs, boot, flight_counter, formatting, file,
                      sync_counter, flights, written, whole >>
  BY DEF StoreCounter, CounterToStore, Turns, history
<1>2. FlashTypes' /\ LogTypes' /\ Turns'
  BY <1>1 DEF FlashTypes, LogTypes, Turns
<1>3. \A n \in DOMAIN logs : n \in Nat /\ n < flight_counter
  <2> TAKE n \in DOMAIN logs
  <2>1. counter_file \in Nat /\ n <= counter_file /\ counter_file < flight_counter
    BY <1>1 DEF Numbered, FlashTypes
  <2> QED BY <2>1 DEF LogTypes, FlashTypes
<1>4. Numbered'
  BY <1>1, <1>3, FlashAssumption DEF Numbered, Recording, FlashTypes, FlashAssumption
<1>5. OpenedFile' /\ Behind'
  BY <1>1 DEF OpenedFile, Behind, Recording, Lag
<1> QED BY <1>2, <1>4, <1>5

LEMMA OpenLogStep == ArchiveInv /\ OpenLog => ArchiveInv'
<1> SUFFICES ASSUME ArchiveInv, OpenLog PROVE ArchiveInv'
  OBVIOUS
<1> USE DEF ArchiveInv
<1> DEFINE c == flight_counter
<1>1. /\ rec = "open" /\ rec' = "write" /\ boot = "run" /\ ~ formatting
      /\ c \notin DOMAIN logs /\ counter_file = c /\ flights \in 1 .. MaxFlights
      /\ UNCHANGED << firmware, counter_file, boot, flight_counter, formatting,
                      flights, whole >>
  BY DEF OpenLog, Turns, Numbered, OpenedFile
<1>2. /\ logs' = WithLog(logs, c, << >>) /\ written' = WithLog(written, c, << >>)
      /\ file' = NoFile /\ sync_counter' = 0
  BY <1>1 DEF OpenLog, NoFile
<1>3. DOMAIN written = DOMAIN logs
  BY DEF LogTypes
<1>4. /\ DOMAIN logs' = DOMAIN logs \cup {c} /\ DOMAIN written' = DOMAIN logs \cup {c}
      /\ logs'[c] = << >> /\ written'[c] = << >>
      /\ \A n \in DOMAIN logs : logs'[n] = logs[n] /\ written'[n] = written[n]
  BY <1>1, <1>2, <1>3 DEF WithLog
<1>5. << >> \in Seq(Nat) /\ Len(<< >>) = 0
  OBVIOUS
<1>6. FlashTypes'
  BY <1>1, <1>2, <1>5, FlashAssumption DEF FlashTypes, NoFile, FlashAssumption
<1>7. LogTypes'
  <2>1. /\ logs' = [n \in DOMAIN logs' |-> logs'[n]]
        /\ written' = [n \in DOMAIN logs' |-> written'[n]]
    BY <1>2, <1>3, <1>4 DEF WithLog
  <2>2. c \in Nat
    BY DEF FlashTypes
  <2> QED BY <1>1, <1>4, <1>5, <2>1, <2>2 DEF LogTypes
<1>8. Turns' /\ Numbered'
  BY <1>1, <1>4, FlashAssumption
  DEF Turns, Numbered, Recording, FlashTypes, FlashAssumption
<1>9. c \notin whole /\ \A n \in whole : n \in DOMAIN logs
  BY <1>1 DEF LogTypes
<1>10. OpenedFile'
  BY <1>1, <1>2, <1>4, <1>5, <1>9 DEF OpenedFile, Recording, NoFile
<1>11. Behind'
  <2>1. \A n \in DOMAIN logs' :
          /\ Len(logs'[n]) <= Len(written'[n]) /\ Lag(n)' <= SyncPeriod
          /\ \A i \in 1 .. Len(logs'[n]) : logs'[n][i] = written'[n][i]
    <3> TAKE n \in DOMAIN logs'
    <3>1. CASE n = c
      BY <1>1, <1>4, <1>5, <3>1, FlashAssumption DEF Lag, FlashAssumption
    <3>2. CASE n # c
      BY <1>4, <3>2 DEF Behind, Lag
    <3> QED BY <3>1, <3>2
  <2>2. \A n \in whole' : logs'[n] = written'[n]
    BY <1>1, <1>4, <1>9 DEF Behind
  <2>3. Lag(flight_counter)' <= sync_counter'
    BY <1>1, <1>2, <1>4, <1>5 DEF Lag
  <2> QED BY <2>1, <2>2, <2>3 DEF Behind
<1> QED BY <1>6, <1>7, <1>8, <1>10, <1>11

(* What the lemmas on an open log use of the invariant.                     *)
LEMMA OpenedFacts ==
  ASSUME ArchiveInv, Recording
  PROVE  /\ boot = "run" /\ ~ formatting /\ flights \in 1 .. MaxFlights
         /\ flight_counter \in DOMAIN logs /\ flight_counter \in Nat
         /\ counter_file = flight_counter /\ flight_counter \notin whole
         /\ file.blocks \in Seq(Nat) /\ file.pos = Len(file.blocks)
         /\ file.blocks = written[flight_counter]
         /\ DOMAIN written = DOMAIN logs
<1>1. rec # "wait"
  BY DEF Recording
<1>2. DOMAIN written = DOMAIN logs
  BY DEF ArchiveInv, LogTypes
<1>3. file.blocks \in Seq(Nat)
  BY DEF ArchiveInv, FlashTypes
<1> QED
  BY <1>1, <1>2, <1>3
  DEF ArchiveInv, FlashTypes, Turns, Numbered, OpenedFile

LEMMA WriteBlockStep == ArchiveInv /\ WriteBlock => ArchiveInv'
<1> SUFFICES ASSUME ArchiveInv, WriteBlock PROVE ArchiveInv'
  OBVIOUS
<1> DEFINE c == flight_counter
<1>1. /\ rec = "write" /\ rec' = "check"
      /\ sync_counter' = (sync_counter + 1) % SyncPeriod
      /\ UNCHANGED << firmware, counter_file, logs, boot, flight_counter,
                      formatting, flights, whole >>
  BY DEF WriteBlock, flashFiles
<1>2. /\ Recording /\ Recording'
  BY <1>1 DEF Recording
<1>3. /\ boot = "run" /\ ~ formatting /\ flights \in 1 .. MaxFlights
      /\ c \in DOMAIN logs /\ c \in Nat
      /\ counter_file = c /\ c \notin whole
      /\ file.blocks \in Seq(Nat) /\ file.pos = Len(file.blocks)
      /\ file.blocks = written[c] /\ DOMAIN written = DOMAIN logs
  BY <1>2, OpenedFacts
<1>4. flights \in Nat
  BY <1>3, FlashAssumption DEF FlashAssumption
<1>5. /\ sync_counter \in 0 .. (SyncPeriod - 1)
      /\ sync_counter' \in 0 .. (SyncPeriod - 1)
      /\ \/ sync_counter' = sync_counter + 1
         \/ sync_counter' = 0 /\ sync_counter + 1 = SyncPeriod
  <2>1. sync_counter \in 0 .. (SyncPeriod - 1) /\ SyncPeriod \in Nat \ {0}
    BY FlashAssumption DEF ArchiveInv, FlashTypes, FlashAssumption
  <2>2. CASE sync_counter + 1 = SyncPeriod
    BY <1>1, <2>1, <2>2
  <2>3. CASE sync_counter + 1 < SyncPeriod
    BY <1>1, <2>1, <2>3
  <2> QED BY <2>1, <2>2, <2>3
<1>6. Turns' /\ Numbered'
  BY <1>1, <1>3 DEF ArchiveInv, Turns, Numbered, Recording
<1>7. CASE InUse < Capacity
  <2>1. ~ file.erred
    BY <1>2, <1>7 DEF ArchiveInv, OpenedFile
  <2>2. /\ file' = [blocks |-> Append(file.blocks, flights),
                    pos |-> file.pos + 1, erred |-> FALSE]
        /\ written' = [written EXCEPT ![c] = Append(@, flights)]
    <3>1. SubSeq(file.blocks, 1, file.pos) \o << flights >>
             \o SubSeq(file.blocks, file.pos + 2, Len(file.blocks))
            = Append(file.blocks, flights)
      BY <1>3, <1>4, WrittenAtTheEnd
    <3> QED BY <1>7, <3>1 DEF WriteBlock
  <2>3. /\ Append(file.blocks, flights) \in Seq(Nat)
        /\ Len(Append(file.blocks, flights)) = Len(file.blocks) + 1
        /\ \A i \in 1 .. Len(file.blocks) :
             Append(file.blocks, flights)[i] = file.blocks[i]
        /\ Append(file.blocks, flights)[Len(file.blocks) + 1] = flights
    BY <1>3, <1>4
  <2>4. /\ DOMAIN written' = DOMAIN logs
        /\ written'[c] = Append(written[c], flights)
        /\ \A n \in DOMAIN logs \ {c} : written'[n] = written[n]
    BY <1>3, <2>2
  <2>5. FlashTypes'
    <3>1. Len(file.blocks) \in Nat
      BY <1>3
    <3> QED
      BY <1>1, <1>3, <1>5, <2>2, <2>3, <3>1 DEF ArchiveInv, FlashTypes
  <2>6. LogTypes'
    <3>1. written' = [n \in DOMAIN logs |-> written'[n]]
      BY <1>3, <2>2
    <3>2. \A n \in DOMAIN logs : written'[n] \in Seq(Nat)
      BY <1>3, <2>3, <2>4 DEF ArchiveInv, LogTypes
    <3> QED BY <1>1, <3>1, <3>2 DEF ArchiveInv, LogTypes
  <2>7. OpenedFile'
    <3>1. file'.blocks = written'[c] /\ file'.pos = Len(file'.blocks)
      BY <1>3, <2>2, <2>3, <2>4
    <3>2. \A i \in 1 .. Len(file'.blocks) : file'.blocks[i] = flights
      <4>1. \A i \in 1 .. Len(file.blocks) : file.blocks[i] = flights
        BY <1>2 DEF ArchiveInv, OpenedFile
      <4>2. Len(file.blocks) \in Nat /\ file'.blocks = Append(file.blocks, flights)
        BY <1>3, <2>2
      <4> QED BY <2>3, <4>1, <4>2
    <3>3. ~ file'.erred
      BY <2>2
    <3> QED BY <1>1, <1>3, <3>1, <3>2, <3>3 DEF OpenedFile
  <2>8. Lag(c) <= sync_counter /\ Lag(c) \in Int
    <3>1. logs[c] \in Seq(Nat) /\ written[c] \in Seq(Nat)
      BY <1>3 DEF ArchiveInv, LogTypes
    <3>2. Lag(c) <= sync_counter
      BY <1>1, <1>2, <2>1 DEF ArchiveInv, Behind
    <3>3. Len(logs[c]) \in Nat /\ Len(written[c]) \in Nat
      BY <3>1
    <3>4. Lag(c) \in Int
      BY <3>3 DEF Lag
    <3> QED BY <3>2, <3>4
  <2>9. /\ Lag(c)' = Lag(c) + 1 /\ Len(logs[c]) <= Len(written'[c])
        /\ \A i \in 1 .. Len(logs[c]) : logs[c][i] = written'[c][i]
    <3>1. /\ logs[c] \in Seq(Nat) /\ Len(logs[c]) <= Len(written[c])
          /\ \A i \in 1 .. Len(logs[c]) : logs[c][i] = written[c][i]
      BY <1>3 DEF ArchiveInv, LogTypes, Behind
    <3>2. /\ Len(written'[c]) = Len(written[c]) + 1
          /\ \A i \in 1 .. Len(written[c]) : written'[c][i] = written[c][i]
          /\ Len(written[c]) \in Nat
      BY <1>3, <2>3, <2>4
    <3>3. Len(logs[c]) \in Nat
      BY <3>1
    <3> QED BY <1>1, <3>1, <3>2, <3>3 DEF Lag
  <2>10. Behind'
    <3>1. \A n \in DOMAIN logs' :
            /\ Len(logs'[n]) <= Len(written'[n]) /\ Lag(n)' <= SyncPeriod
            /\ \A i \in 1 .. Len(logs'[n]) : logs'[n][i] = written'[n][i]
      <4> TAKE n \in DOMAIN logs'
      <4>1. CASE n = c
        <5>1. Lag(c)' <= SyncPeriod
          BY <1>5, <2>8, <2>9, FlashAssumption DEF FlashAssumption
        <5> QED BY <1>1, <2>9, <4>1, <5>1
      <4>2. CASE n # c
        BY <1>1, <2>4, <4>2 DEF ArchiveInv, Behind, Lag
      <4> QED BY <4>1, <4>2
    <3>2. \A n \in whole' : logs'[n] = written'[n]
      <4>1. \A n \in whole : n \in DOMAIN logs \ {c}
        BY <1>3 DEF ArchiveInv, LogTypes
      <4> QED BY <1>1, <2>4, <4>1 DEF ArchiveInv, Behind
    <3>3. Lag(c)' <= sync_counter' \/ sync_counter' = 0
      BY <1>5, <2>8, <2>9
    <3> QED BY <1>1, <3>1, <3>2, <3>3 DEF Behind
  <2> QED BY <1>6, <2>5, <2>6, <2>7, <2>10 DEF ArchiveInv
<1>8. CASE ~ (InUse < Capacity)
  <2>1. file' = [file EXCEPT !.erred = TRUE] /\ written' = written
    BY <1>8 DEF WriteBlock
  <2>2. file'.blocks = file.blocks /\ file'.pos = file.pos /\ file'.erred
    BY <2>1 DEF ArchiveInv, FlashTypes
  <2>3. FlashTypes' /\ LogTypes'
    BY <1>1, <1>5, <2>1 DEF ArchiveInv, FlashTypes, LogTypes
  <2>4. InUse' = InUse
    BY <1>1, <2>2 DEF InUse
  <2>5. OpenedFile'
    BY <1>1, <1>2, <1>8, <2>1, <2>2, <2>4 DEF ArchiveInv, OpenedFile
  <2>6. Behind'
    BY <1>1, <2>1, <2>2 DEF ArchiveInv, Behind, Lag
  <2> QED BY <1>6, <2>3, <2>5, <2>6 DEF ArchiveInv
<1> QED BY <1>7, <1>8

(* The blocks of the other logs are the same after a sync.                  *)
LEMMA SyncedLog ==
  ASSUME ArchiveInv, Recording, ~ file.erred
  PROVE  /\ DOMAIN Synced = DOMAIN logs
         /\ Synced[flight_counter] = written[flight_counter]
         /\ \A n \in DOMAIN logs \ {flight_counter} : Synced[n] = logs[n]
         /\ Synced = [n \in DOMAIN logs |-> Synced[n]]
         /\ Only(Synced, DOMAIN Synced \ {flight_counter})
              = Only(logs, DOMAIN logs \ {flight_counter})
<1> DEFINE c == flight_counter
<1>1. c \in DOMAIN logs /\ file.blocks = written[c]
  BY OpenedFacts
<1>2. Synced = [m \in DOMAIN logs |-> IF m = c THEN written[c] ELSE logs[m]]
  <2>1. DOMAIN logs \cup {c} = DOMAIN logs
    BY <1>1
  <2> QED BY <1>1, <2>1 DEF Synced, WithLog
<1>3. DOMAIN Synced = DOMAIN logs
  BY <1>2
<1>4. \A n \in DOMAIN logs \ {c} : Synced[n] = logs[n]
  BY <1>2
<1>5. Only(Synced, DOMAIN Synced \ {c}) = Only(logs, DOMAIN logs \ {c})
  BY <1>3, <1>4 DEF Only
<1>6. Synced[c] = written[c]
  BY <1>1, <1>2
<1>7. Synced = [n \in DOMAIN logs |-> Synced[n]]
  BY <1>2
<1> QED BY <1>3, <1>4, <1>5, <1>6, <1>7

(* The logs are as they were, or the open one was synced.                   *)
Sync == logs' = logs \/ (~ file.erred /\ logs' = Synced)

LEMMA SyncOfLogs ==
  ASSUME ArchiveInv, Recording, Sync,
         UNCHANGED << flight_counter, written, whole >>
  PROVE  /\ DOMAIN logs' = DOMAIN logs /\ LogTypes'
         /\ BlocksOf(Only(logs', DOMAIN logs' \ {flight_counter}))
              = BlocksOf(Only(logs, DOMAIN logs \ {flight_counter}))
         /\ \A n \in DOMAIN logs' :
              /\ Len(logs'[n]) <= Len(written'[n]) /\ Lag(n)' <= SyncPeriod
              /\ \A i \in 1 .. Len(logs'[n]) : logs'[n][i] = written'[n][i]
         /\ \A n \in whole : logs'[n] = written'[n]
<1> DEFINE c == flight_counter
<1>1. CASE logs' = logs
  BY <1>1 DEF ArchiveInv, LogTypes, Behind, Lag
<1>2. CASE ~ file.erred /\ logs' = Synced
  <2>1. /\ DOMAIN logs' = DOMAIN logs /\ logs'[c] = written[c]
        /\ \A n \in DOMAIN logs \ {c} : logs'[n] = logs[n]
        /\ logs' = [n \in DOMAIN logs |-> logs'[n]]
        /\ Only(logs', DOMAIN logs' \ {c}) = Only(logs, DOMAIN logs \ {c})
    BY <1>2, SyncedLog
  <2>2. /\ c \in DOMAIN logs /\ c \notin whole /\ whole \subseteq DOMAIN logs
        /\ \A n \in DOMAIN logs : logs[n] \in Seq(Nat) /\ written[n] \in Seq(Nat)
    BY OpenedFacts DEF ArchiveInv, LogTypes
  <2>3. LogTypes'
    BY <2>1, <2>2 DEF ArchiveInv, LogTypes
  <2>4. \A n \in DOMAIN logs' :
          /\ Len(logs'[n]) <= Len(written'[n]) /\ Lag(n)' <= SyncPeriod
          /\ \A i \in 1 .. Len(logs'[n]) : logs'[n][i] = written'[n][i]
    <3> TAKE n \in DOMAIN logs'
    <3>1. CASE n = c
      <4>1. logs'[n] = written'[n] /\ Len(written[n]) \in Nat
        BY <2>1, <2>2, <3>1
      <4> QED BY <4>1, FlashAssumption DEF Lag, FlashAssumption
    <3>2. CASE n # c
      BY <2>1, <3>2 DEF ArchiveInv, Behind, Lag
    <3> QED BY <3>1, <3>2
  <2>5. \A n \in whole : logs'[n] = written'[n]
    BY <2>1, <2>2 DEF ArchiveInv, Behind
  <2> QED BY <2>1, <2>3, <2>4, <2>5
<1> QED BY <1>1, <1>2 DEF Sync

LEMMA SyncIfDueStep == ArchiveInv /\ SyncIfDue => ArchiveInv'
<1> SUFFICES ASSUME ArchiveInv, SyncIfDue PROVE ArchiveInv'
  OBVIOUS
<1> DEFINE c == flight_counter
<1>1. /\ rec = "check" /\ rec' \in {"write", "stop"}
      /\ UNCHANGED << firmware, counter_file, boot, flight_counter, formatting,
                      file, sync_counter, flights, written, whole >>
  BY DEF SyncIfDue, history
<1>2. Recording /\ Recording'
  BY <1>1 DEF Recording
<1>3. Sync
  <2>1. logs' = logs \/ logs' = Synced
    BY DEF SyncIfDue
  <2>2. CASE ~ file.erred
    BY <2>1, <2>2 DEF Sync
  <2>3. CASE file.erred
    <3>1. Synced = logs
      BY <2>3 DEF Synced
    <3> QED BY <2>1, <3>1 DEF Sync
  <2> QED BY <2>2, <2>3
<1>4. /\ DOMAIN logs' = DOMAIN logs /\ LogTypes'
      /\ BlocksOf(Only(logs', DOMAIN logs' \ {c}))
           = BlocksOf(Only(logs, DOMAIN logs \ {c}))
      /\ \A n \in DOMAIN logs' :
           /\ Len(logs'[n]) <= Len(written'[n]) /\ Lag(n)' <= SyncPeriod
           /\ \A i \in 1 .. Len(logs'[n]) : logs'[n][i] = written'[n][i]
      /\ \A n \in whole : logs'[n] = written'[n]
  BY <1>1, <1>2, <1>3, SyncOfLogs
<1>5. FlashTypes'
  BY <1>1 DEF ArchiveInv, FlashTypes
<1>6. Turns' /\ Numbered'
  BY <1>1, <1>4 DEF ArchiveInv, Turns, Numbered, Recording
<1>7. OpenedFile'
  <2>1. InUse' = InUse
    BY <1>1, <1>4 DEF InUse
  <2> QED BY <1>1, <1>2, <2>1 DEF ArchiveInv, OpenedFile
<1>8. ~ file.erred => Lag(c)' <= sync_counter'
  <2> SUFFICES ASSUME ~ file.erred PROVE Lag(c)' <= sync_counter
    BY <1>1
  <2>1. sync_counter \in Nat
    BY FlashAssumption DEF ArchiveInv, FlashTypes, FlashAssumption
  <2>2. CASE logs' = Synced
    <3>1. logs'[c] = written[c] /\ Len(written[c]) \in Nat
      BY <1>2, <2>2, SyncedLog, OpenedFacts
    <3> QED BY <1>1, <2>1, <3>1 DEF Lag
  <2>3. CASE logs' = logs /\ sync_counter # 0
    BY <1>1, <1>2, <2>3 DEF ArchiveInv, Behind, Lag
  <2> QED BY <2>2, <2>3 DEF SyncIfDue, SyncDue
<1>9. Behind'
  BY <1>1, <1>4, <1>8 DEF Behind
<1> QED BY <1>4, <1>5, <1>6, <1>7, <1>9 DEF ArchiveInv

LEMMA CloseLogStep == ArchiveInv /\ CloseLog => ArchiveInv'
<1> SUFFICES ASSUME ArchiveInv, CloseLog PROVE ArchiveInv'
  OBVIOUS
<1> DEFINE c == flight_counter
<1>1. /\ rec = "stop" /\ rec' = "wait" /\ file' = NoFile /\ logs' = Synced
      /\ whole' = IF file.erred THEN whole ELSE whole \cup {c}
      /\ UNCHANGED << firmware, counter_file, boot, flight_counter, formatting,
                      sync_counter, flights, written >>
  BY DEF CloseLog
<1>2. Recording /\ ~ Recording'
  BY <1>1 DEF Recording
<1>3. c \in DOMAIN logs
  BY <1>2, OpenedFacts
<1>4. /\ DOMAIN logs' = DOMAIN logs
      /\ logs' = [n \in DOMAIN logs |-> logs'[n]]
      /\ \/ logs' = logs
         \/ logs'[c] = written[c] /\ \A n \in DOMAIN logs \ {c} : logs'[n] = logs[n]
      /\ ~ file.erred => logs'[c] = written[c]
  <2>1. CASE file.erred
    BY <1>1, <2>1 DEF Synced, ArchiveInv, LogTypes
  <2>2. CASE ~ file.erred
    BY <1>1, <1>2, <2>2, SyncedLog
  <2> QED BY <2>1, <2>2
<1>5. /\ c \notin whole /\ whole \subseteq DOMAIN logs
      /\ \A n \in DOMAIN logs : logs[n] \in Seq(Nat) /\ written[n] \in Seq(Nat)
  BY <1>2, OpenedFacts DEF ArchiveInv, LogTypes
<1>6. LogTypes'
  <2>1. whole' \subseteq DOMAIN logs'
    BY <1>1, <1>3, <1>4, <1>5
  <2>2. \A n \in DOMAIN logs' : logs'[n] \in Seq(Nat) /\ written'[n] \in Seq(Nat)
    BY <1>1, <1>4, <1>5
  <2> QED BY <1>1, <1>4, <2>1, <2>2 DEF ArchiveInv, LogTypes
<1>7. FlashTypes'
  BY <1>1 DEF ArchiveInv, FlashTypes, NoFile
<1>8. Turns' /\ Numbered'
  BY <1>1, <1>2, <1>4 DEF ArchiveInv, Turns, Numbered
<1>9. OpenedFile'
  BY <1>1, <1>2 DEF OpenedFile
<1>10. Behind'
  <2>1. \A n \in DOMAIN logs' :
          /\ Len(logs'[n]) <= Len(written'[n]) /\ Lag(n)' <= SyncPeriod
          /\ \A i \in 1 .. Len(logs'[n]) : logs'[n][i] = written'[n][i]
    <3> TAKE n \in DOMAIN logs'
    <3>1. CASE logs'[n] = written[n]
      <4>1. Len(written[n]) \in Nat
        BY <1>4, <1>5
      <4> QED BY <1>1, <3>1, <4>1, FlashAssumption DEF Lag, FlashAssumption
    <3>2. CASE logs'[n] = logs[n]
      BY <1>1, <1>4, <3>2 DEF ArchiveInv, Behind, Lag
    <3> QED BY <1>4, <3>1, <3>2
  <2>2. \A n \in whole' : logs'[n] = written'[n]
    BY <1>1, <1>4, <1>5 DEF ArchiveInv, Behind
  <2> QED BY <1>2, <2>1, <2>2 DEF Behind
<1> QED BY <1>6, <1>7, <1>8, <1>9, <1>10 DEF ArchiveInv

-----------------------------------------------------------------------------
LEMMA ArchiveInit == FlashInit => ArchiveInv
<1> SUFFICES ASSUME FlashInit PROVE ArchiveInv
  OBVIOUS
<1>1. DOMAIN NoLogs = {} /\ NoLogs = [n \in DOMAIN NoLogs |-> NoLogs[n]]
  BY DEF NoLogs
<1>2. FlashTypes
  <2>1. NoFile \in [blocks : Seq(Nat), pos : Nat, erred : BOOLEAN]
    BY DEF NoFile
  <2>2. 0 \in 0 .. (SyncPeriod - 1) /\ 0 \in 0 .. MaxFlights
    BY FlashAssumption DEF FlashAssumption
  <2> QED BY <2>1, <2>2 DEF FlashInit, FlashTypes
<1>3. LogTypes
  BY <1>1 DEF FlashInit, LogTypes, NoLogs
<1>4. Turns /\ Numbered
  BY <1>1 DEF FlashInit, Turns, Numbered, Recording
<1>5. OpenedFile /\ Behind
  BY <1>1 DEF FlashInit, OpenedFile, Behind, Recording
<1> QED BY <1>2, <1>3, <1>4, <1>5 DEF ArchiveInv

LEMMA ArchiveStep == ArchiveInv /\ [FlashNext]_flashVars => ArchiveInv'
<1> SUFFICES ASSUME ArchiveInv, [FlashNext]_flashVars PROVE ArchiveInv'
  OBVIOUS
<1>1. CASE Mount
  BY <1>1, MountStep
<1>2. CASE LoadCounter
  BY <1>2, LoadCounterStep
<1>3. CASE LoadConfig
  <2>1. /\ firmware' = firmware /\ boot = "config" /\ boot' \in {"save", "run"}
        /\ UNCHANGED << counter_file, logs, flight_counter, formatting, rec,
                        file, sync_counter, flights, written, whole >>
    BY <1>3 DEF LoadConfig, flashFiles, recorder, history
  <2> QED BY <2>1, QuietStep DEF ArchiveInv, FlashTypes
<1>4. CASE SaveDefaults
  <2>1. /\ firmware' = firmware /\ boot = "save" /\ boot' = "run"
        /\ UNCHANGED << counter_file, logs, flight_counter, formatting, rec,
                        file, sync_counter, flights, written, whole >>
    BY <1>4 DEF SaveDefaults, recorder, history
  <2> QED BY <2>1, QuietStep DEF ArchiveInv, FlashTypes
<1>5. CASE Change \/ Save \/ RemoveConfig
  <2>1. /\ firmware' = firmware /\ boot' = boot
        /\ UNCHANGED << counter_file, logs, flight_counter, formatting, rec,
                        file, sync_counter, flights, written, whole >>
    BY <1>5 DEF Change, Save, RemoveConfig, flashFiles, recorder, history
  <2> QED BY <2>1, QuietStep DEF ArchiveInv, FlashTypes
<1>6. CASE FormatBegin \/ FormatEnd
  BY <1>6, FormatStep
<1>7. CASE \E n \in DOMAIN logs : RemoveLog(n)
  BY <1>7, RemoveLogStep
<1>8. CASE RecorderTask
  BY <1>8, StartFlightStep, StoreCounterStep, OpenLogStep, WriteBlockStep,
     SyncIfDueStep, CloseLogStep DEF RecorderTask
<1>9. CASE PowerLoss
  BY <1>9, PowerLossStep
<1>10. CASE UNCHANGED flashVars
  <2>1. /\ firmware' = firmware /\ boot' = boot
        /\ UNCHANGED << counter_file, logs, flight_counter, formatting, rec,
                        file, sync_counter, flights, written, whole >>
    BY <1>10 DEF flashVars, flashFiles, recorder, history
  <2> QED BY <2>1, QuietStep DEF ArchiveInv, FlashTypes
<1> QED
  BY <1>1, <1>2, <1>3, <1>4, <1>5, <1>6, <1>7, <1>8, <1>9, <1>10
  DEF FlashNext, Boot, Console

LEMMA ArchiveInvariant == FlashSpec => []ArchiveInv
<1> QED BY ArchiveInit, ArchiveStep, PTL DEF FlashSpec

(* At any time the flash holds, of each log, the beginning of what was      *)
(* recorded; at most SyncPeriod blocks are missing at its end, and none of  *)
(* a log that was closed while there was room: for any period, capacity and *)
(* number of flights.  This is the loop of task_recorder.cpp with lfs.c.    *)
THEOREM TailOnly == FlashSpec => []OnlyTheTailIsLost
<1>1. ArchiveInv => OnlyTheTailIsLost
  <2> SUFFICES ASSUME ArchiveInv PROVE OnlyTheTailIsLost
    OBVIOUS
  <2>1. ASSUME NEW n \in DOMAIN logs
        PROVE  IsPrefix(logs[n], written[n]) /\ Lag(n) <= SyncPeriod
    <3>1. logs[n] \in Seq(Nat) /\ written[n] \in Seq(Nat)
      BY DEF ArchiveInv, LogTypes
    <3>2. /\ Len(logs[n]) <= Len(written[n]) /\ Lag(n) <= SyncPeriod
          /\ \A i \in 1 .. Len(logs[n]) : logs[n][i] = written[n][i]
      BY DEF ArchiveInv, Behind
    <3> QED BY <3>1, <3>2, PrefixByElements
  <2> QED BY <2>1 DEF OnlyTheTailIsLost, ArchiveInv, Behind, Lag
<1> QED BY <1>1, ArchiveInvariant, PTL

-----------------------------------------------------------------------------
(* The settings.                                                            *)

LEMMA SettingsInit == FlashInit => SettingsInv
<1> SUFFICES ASSUME FlashInit PROVE SettingsInv
  OBVIOUS
<1>1. [version |-> 0, value |-> Factory, user |-> FALSE] \in Setting
  BY FlashAssumption DEF Setting, FlashAssumption
<1> QED BY <1>1 DEF FlashInit, SettingsInv

LEMMA SettingsStep == SettingsInv /\ [FlashNext]_flashVars => SettingsInv'
<1> SUFFICES ASSUME SettingsInv, [FlashNext]_flashVars PROVE SettingsInv'
  OBVIOUS
<1> USE DEF SettingsInv
<1>1. /\ firmware \in Nat \ {0} /\ Firmware \subseteq Nat \ {0}
      /\ Factory \in Values /\ Absent \notin Setting
  BY FlashAssumption DEF FlashAssumption, Setting
<1>2. [version |-> 0, value |-> Factory, user |-> FALSE] \in Setting
  BY <1>1 DEF Setting
<1>3. Default(TRUE) \in Setting /\ Default(FALSE) \in Setting
  BY <1>1 DEF Setting, Default
<1>4. CASE PowerLoss
  <2>1. /\ firmware' \in Firmware /\ boot' = "mount"
        /\ config' = [version |-> 0, value |-> Factory, user |-> FALSE]
        /\ \/ UNCHANGED << config_file, kept >>
           \/ config_file' = Absent /\ kept' = Absent
    BY <1>4 DEF PowerLoss, flashFiles, Emptied
  <2> QED BY <1>2, <2>1
<1>5. CASE Mount \/ LoadCounter \/ FormatBegin \/ FormatEnd
  <2>1. /\ UNCHANGED << firmware, config >>
        /\ \/ boot' = boot
           \/ boot \in {"mount", "counter"} /\ boot' \in {"counter", "config"}
        /\ \/ UNCHANGED << config_file, kept >>
           \/ config_file' = Absent /\ kept' = Absent
    BY <1>5 DEF Mount, LoadCounter, FormatBegin, FormatEnd, settings,
                flashFiles, Emptied
  <2> QED BY <2>1 DEF Default
<1>6. CASE LoadConfig
  <2>1. /\ boot = "config" /\ config.version = 0
        /\ UNCHANGED << firmware, config_file, kept >>
    BY <1>6 DEF LoadConfig, flashFiles
  <2>2. CASE config' = Default(FALSE) /\ boot' = "save"
    <3>1. kept # Absent => Outdated(kept)
      BY <1>1, <1>6, <2>1, <2>2 DEF LoadConfig
    <3> QED BY <1>3, <2>1, <2>2, <3>1 DEF Default, Outdated
  <2>3. CASE boot' = "run" /\ config' \in Setting
    BY <2>1, <2>3
  <2>4. boot' = "run" => config' \in {config, config_file} /\ config' \in Setting
    BY <1>6, <2>1 DEF LoadConfig
  <2> QED BY <1>6, <2>2, <2>3, <2>4 DEF LoadConfig
<1>7. CASE SaveDefaults
  <2>1. /\ boot' = "run" /\ config_file' = Default(FALSE) /\ kept' = Absent
        /\ UNCHANGED << firmware, config >>
    BY <1>7 DEF SaveDefaults
  <2>2. Default(FALSE).value = Factory /\ ~ Default(FALSE).user
    BY DEF Default
  <2> QED BY <1>3, <2>1, <2>2
<1>8. CASE Change
  <2>1. /\ boot = "run" /\ boot' = "run"
        /\ UNCHANGED << firmware, config_file, kept >>
    BY <1>8 DEF Change, flashFiles
  <2>2. \A v \in Values : [config EXCEPT !.value = v, !.user = TRUE] \in Setting
    BY DEF Setting
  <2>3. config' \in Setting
    BY <1>3, <1>8, <2>2 DEF Change
  <2> QED BY <2>1, <2>3
<1>9. CASE Save
  BY <1>1, <1>9 DEF Save, ConsoleOwnsFlash, settings
<1>10. CASE RemoveConfig
  BY <1>10 DEF RemoveConfig, ConsoleOwnsFlash, settings
<1>11. CASE RecorderTask \/ (\E n \in DOMAIN logs : RemoveLog(n)) \/ UNCHANGED flashVars
  <2>1. UNCHANGED << firmware, boot, config_file, config, kept >>
    BY <1>11 DEF RecorderTask, StartFlight, StoreCounter, OpenLog, WriteBlock,
       SyncIfDue, CloseLog, RemoveLog, flashVars, flashFiles, settings
  <2> QED BY <2>1 DEF Default
<1> QED
  BY <1>4, <1>5, <1>6, <1>7, <1>8, <1>9, <1>10, <1>11
  DEF FlashNext, Boot, Console

(* Whenever a boot ends, after any cuts of the power and any change of the  *)
(* firmware, the settings in RAM are those the user saved last, if they are *)
(* of this version and not gone, and the defaults with the error if not:    *)
(* for any settings and any versions.  This is cc_load of control/config.   *)
THEOREM SettingsFound == FlashSpec => BootFindsSettings
<1> DEFINE Found ==
      boot # "run" /\ boot' = "run" =>
        IF kept' # Absent /\ kept'.version = firmware
        THEN config' = kept' /\ (non_user_cfg' <=> ~ kept'.user)
        ELSE config' = Default(FALSE) /\ non_user_cfg'
<1>1. SettingsInv /\ [FlashNext]_flashVars => [Found]_flashVars
  <2> SUFFICES ASSUME SettingsInv, FlashNext, boot # "run", boot' = "run"
               PROVE  Found
    OBVIOUS
  <2>1. LoadConfig \/ SaveDefaults
    BY DEF FlashNext, Boot, Console, RecorderTask, Mount, LoadCounter, Change,
       Save, RemoveConfig, FormatBegin, FormatEnd, RemoveLog, StartFlight,
       StoreCounter, OpenLog, WriteBlock, SyncIfDue, CloseLog, PowerLoss,
       ConsoleOwnsFlash
  <2> DEFINE read == IF config_file = Absent THEN config ELSE config_file
  <2>2. CASE LoadConfig
    <3>1. /\ boot = "config" /\ config.version = 0 /\ ~ Outdated(read)
          /\ config' = read /\ non_user_cfg' = ~ read.user
          /\ kept' = kept /\ firmware \in Nat \ {0}
      BY <2>2, FlashAssumption DEF LoadConfig, SettingsInv, FlashAssumption
    <3>2. config_file # Absent
      BY <3>1 DEF Outdated
    <3>3. read = config_file /\ config_file.version = firmware
      BY <3>1, <3>2 DEF Outdated
    <3>4. CASE kept # Absent
      BY <3>1, <3>3, <3>4 DEF SettingsInv
    <3>5. CASE kept = Absent
      <4>1. config_file \in Setting /\ config_file.value = Factory
            /\ ~ config_file.user
        BY <3>2, <3>5 DEF SettingsInv
      <4>2. config_file = Default(FALSE)
        BY <3>3, <4>1 DEF Setting, Default
      <4> QED BY <3>1, <3>3, <3>5, <4>1, <4>2
    <3> QED BY <3>4, <3>5
  <2>3. CASE SaveDefaults
    <3>1. /\ config = Default(FALSE) /\ config' = config /\ kept' = Absent
          /\ non_user_cfg' = ~ config.user
      BY <2>3 DEF SaveDefaults, SettingsInv
    <3>2. ~ Default(FALSE).user
      BY DEF Default
    <3>3. Default(FALSE)' = Default(FALSE)
      BY <2>3 DEF Default, SaveDefaults
    <3> QED BY <3>1, <3>2
  <2> QED BY <2>1, <2>2, <2>3
<1> QED BY <1>1, SettingsInit, SettingsStep, PTL DEF FlashSpec, BootFindsSettings

-----------------------------------------------------------------------------
(* The logs are an archive.                                                 *)

LEMMA SamePiece ==
  ASSUME NEW f \in Nat, NEW s \in Seq(Nat), NEW t \in Seq(Nat),
         Len(s) <= Len(t), \A i \in 1 .. Len(s) : s[i] = t[i],
         \A i \in 1 .. Len(t) : t[i] = f
  PROVE  s \o [i \in 1 .. Len(t) - Len(s) |-> f] = t
<1> DEFINE more == Len(t) - Len(s)
           r == [i \in 1 .. more |-> f]
<1>1. more \in Nat /\ Len(s) \in Nat /\ Len(t) \in Nat
  OBVIOUS
<1>2. r \in Seq(Nat) /\ Len(r) = more
  BY <1>1
<1>3. s \o r \in Seq(Nat) /\ Len(s \o r) = Len(t)
  BY <1>1, <1>2
<1>4. \A i \in 1 .. Len(t) : (s \o r)[i] = t[i]
  <2> TAKE i \in 1 .. Len(t)
  <2>1. CASE i <= Len(s)
    BY <1>1, <1>2, <2>1
  <2>2. CASE i > Len(s)
    <3>1. i - Len(s) \in 1 .. more
      BY <1>1, <2>2
    <3>2. (s \o r)[i] = r[i - Len(s)]
      BY <1>1, <1>2, <2>2, <3>1
    <3> QED BY <3>1, <3>2
  <2> QED BY <1>1, <2>1, <2>2
<1> QED BY <1>3, <1>4

LEMMA EmptyArchive == NoLogs = << >>
<1> QED BY DEF NoLogs

(* A sync, and the close, give the open log more blocks of its flight.      *)
LEMMA SyncExtends ==
  ASSUME ArchiveInv, Recording, ~ file.erred, logs' = Synced
  PROVE  Archive!Next
<1> DEFINE c == flight_counter
           f == flights
<1>1. /\ DOMAIN logs' = DOMAIN logs /\ logs'[c] = written[c]
      /\ \A n \in DOMAIN logs \ {c} : logs'[n] = logs[n]
      /\ logs' = [n \in DOMAIN logs |-> logs'[n]]
  BY SyncedLog
<1>2. /\ c \in DOMAIN logs /\ c \in Nat /\ counter_file = c
      /\ f \in 1 .. MaxFlights /\ f \in Nat
      /\ logs[c] \in Seq(Nat) /\ written[c] \in Seq(Nat)
      /\ file.blocks = written[c]
  BY OpenedFacts, FlashAssumption DEF ArchiveInv, LogTypes, FlashAssumption
<1>3. /\ Len(logs[c]) <= Len(written[c])
      /\ \A i \in 1 .. Len(logs[c]) : logs[c][i] = written[c][i]
  BY <1>2 DEF ArchiveInv, Behind
<1>4. \A i \in 1 .. Len(written[c]) : written[c][i] = f
  BY <1>2 DEF ArchiveInv, OpenedFile
<1>5. \A m \in DOMAIN logs : m <= c
  BY <1>2 DEF ArchiveInv, Numbered
<1>6. \A i \in 1 .. Len(logs[c]) : logs[c][i] = f
  <2>1. Len(logs[c]) \in Nat /\ Len(written[c]) \in Nat
    BY <1>2
  <2> QED BY <1>3, <1>4, <2>1
<1> DEFINE more == Len(logs'[c]) - Len(logs[c])
<1>7. logs[c] \o [i \in 1 .. more |-> f] = logs'[c]
  <2> HIDE DEF more, c, f
  <2>1. logs[c] \o [i \in 1 .. Len(written[c]) - Len(logs[c]) |-> f] = written[c]
    BY <1>2, <1>3, <1>4, SamePiece
  <2>2. more = Len(written[c]) - Len(logs[c])
    BY <1>1 DEF more
  <2> QED BY <1>1, <2>1, <2>2
<1>8. logs' = [logs EXCEPT ![c] = @ \o [i \in 1 .. more |-> f]]
  <2>1. logs' = [logs EXCEPT ![c] = logs'[c]]
    <3>1. logs = [n \in DOMAIN logs |-> logs[n]]
      BY DEF ArchiveInv, LogTypes
    <3> QED BY <1>1, <1>2, <3>1
  <2> QED BY <1>7, <2>1
<1>9. Archive!Extend(c, f)
  BY <1>1, <1>5, <1>6, <1>8 DEF Archive!Extend, Archive!Numbers
<1> QED BY <1>2, <1>9 DEF Archive!Next, Archive!Numbers

LEMMA ArchiveStutters ==
  ArchiveInv /\ [FlashNext]_flashVars => [Archive!Next]_logs
<1> SUFFICES ASSUME ArchiveInv, [FlashNext]_flashVars, logs' # logs
             PROVE  Archive!Next
  OBVIOUS
<1>1. CASE Emptied
  BY <1>1, EmptyArchive DEF Emptied, Archive!Next, Archive!Wipe
<1>2. CASE \E n \in DOMAIN logs : RemoveLog(n)
  BY <1>2 DEF RemoveLog, Only, Archive!Next, Archive!Remove, Archive!Numbers
<1>3. CASE OpenLog
  <2> DEFINE c == flight_counter
  <2>1. /\ c \notin DOMAIN logs /\ counter_file = c /\ c \in Nat
        /\ logs' = WithLog(logs, c, << >>)
    BY <1>3 DEF OpenLog, ArchiveInv, Numbered, FlashTypes
  <2>2. \A m \in DOMAIN logs : m < c
    BY <2>1 DEF ArchiveInv, Numbered, LogTypes
  <2>3. c \in DOMAIN logs'
    BY <2>1 DEF WithLog
  <2>4. Archive!Create(c)
    BY <2>1, <2>2 DEF WithLog, Archive!Create, Archive!Numbers
  <2> QED BY <2>3, <2>4 DEF Archive!Next
<1>4. CASE SyncIfDue \/ CloseLog
  <2>1. Recording /\ logs' = Synced
    BY <1>4 DEF SyncIfDue, CloseLog, Recording
  <2>2. ~ file.erred
    BY <2>1 DEF Synced
  <2> QED BY <2>1, <2>2, SyncExtends
<1>5. CASE ~ Emptied /\ (Mount \/ PowerLoss \/ FormatEnd)
  BY <1>5 DEF Mount, PowerLoss, FormatEnd, flashFiles
<1>6. CASE UNCHANGED flashVars
  <2>1. UNCHANGED flashFiles
    BY <1>6 DEF flashVars
  <2> QED BY <2>1 DEF flashFiles
<1>7. CASE \/ LoadCounter \/ LoadConfig \/ SaveDefaults \/ Change \/ Save
           \/ RemoveConfig \/ FormatBegin \/ StartFlight \/ StoreCounter
           \/ WriteBlock
  BY <1>7 DEF LoadCounter, LoadConfig, SaveDefaults, Change, Save,
     RemoveConfig, FormatBegin, StartFlight, StoreCounter, WriteBlock, flashFiles
<1> QED
  BY <1>1, <1>2, <1>3, <1>4, <1>5, <1>6, <1>7
  DEF FlashNext, Boot, Console, RecorderTask

(* Whatever is done and whenever the power goes, the logs are an archive: a *)
(* flight gets a number above every log there is, only its own log grows,   *)
(* with its own blocks, and no log changes or goes until it is removed or   *)
(* the flash is formatted.  This is init_lfs, create_log_file's counter and *)
(* the loop of the Recorder task, for any number of flights and blocks.     *)
THEOREM ArchiveIsKept == FlashSpec => LogsAreKept
<1>1. FlashInit => Archive!Init
  BY EmptyArchive DEF FlashInit, Archive!Init
<1> QED
  BY <1>1, ArchiveInvariant, ArchiveStutters, PTL
  DEF FlashSpec, LogsAreKept, Archive!Spec
=============================================================================
