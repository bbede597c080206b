-------------------------- MODULE GsStorage_proofs --------------------------
(***************************************************************************)
(* For a queue of any depth, with or without failures and timeouts: the    *)
(* firmware and the computer never have the flash at once, the recorder    *)
(* never has its file system taken away under its work, and the HMI only   *)
(* by its own request to share the flash, carried out after it has stopped *)
(* waiting for it.                                                         *)
(***************************************************************************)
EXTENDS GsStorage, TLAPS

LEMMA Commands ==
  /\ \A type \in Request \union Samples, live \in BOOLEAN :
       [type |-> type, live |-> live] \in Command
  /\ NoCommand \in Command
BY DEF Command, NoCommand

LEMMA QueueFits ==
  ASSUME TypeQueue, HasRoom, NEW type \in Request \union Samples, NEW live \in BOOLEAN
  PROVE  /\ Append(queue, [type |-> type, live |-> live]) \in Seq(Command)
         /\ Len(Append(queue, [type |-> type, live |-> live])) <= QueueDepth
<1>1. [type |-> type, live |-> live] \in Command
  BY Commands
<1> QED BY <1>1, StorageAssumption DEF HasRoom, TypeQueue

LEMMA DoneType ==
  ASSUME TypeRec, NEW result, Done(result)
  PROVE  rec' \in [pc : {"wait"}, cmd : Command] /\ answer' \in {None, "yes", "no"}
<1>1. rec' = [pc |-> "wait", cmd |-> NoCommand]
  BY DEF Done
<1>2. answer' \in {"yes", "no", answer}
  BY DEF Done
<1> QED BY <1>1, <1>2, Commands DEF TypeRec

LEMMA UtilsType == ASSUME TypeOK, Utils PROVE TypeOK'
<1>0. TypeRec' /\ TypeQueue' /\ TypeHmi'
  BY DEF TypeOK, TypeRec, TypeQueue, TypeHmi, recs, hmis,
     Utils, UtilsConnection, UtilsPrepare, UtilsUnmount, UtilsExpose, UtilsReclaim, UtilsRemount
<1>1. CASE UtilsConnection
    BY <1>0, <1>1 DEF UtilsConnection, TypeOK, TypeDisk, TypeUsb, Storage
<1>2. CASE UtilsPrepare
    BY <1>0, <1>2 DEF UtilsPrepare, Remembered, TypeOK, TypeDisk, TypeUsb, Storage,
       Connection
<1>3. CASE UtilsUnmount
    BY <1>0, <1>3 DEF UtilsUnmount, UtilsAt, Unmounted, TypeOK, TypeDisk, TypeUsb
<1>4. ASSUME NEW ok \in Outcome, UtilsExpose(ok) PROVE TypeOK'
    BY <1>0, <1>4 DEF UtilsExpose, UtilsAt, Outcome, TypeOK, TypeDisk, TypeUsb, Storage
<1>5. CASE UtilsReclaim
    BY <1>0, <1>5 DEF UtilsReclaim, MediaGone, TypeOK, TypeDisk, TypeUsb
<1>6. ASSUME NEW synced \in Outcome, NEW began \in Outcome,
               UtilsRemount(synced, began)
        PROVE  TypeOK'
    BY <1>0, <1>6 DEF UtilsRemount, UtilsAt, Outcome, TypeOK, TypeDisk, TypeUsb, Storage
<1> QED BY <1>1, <1>2, <1>3, <1>4, <1>5, <1>6 DEF Utils

LEMMA RecorderType == ASSUME TypeOK, Recorder PROVE TypeOK'
<1>0. TypeUsb' /\ TypeHmi'
  BY DEF TypeOK, TypeUsb, TypeHmi, disk, hmis, Recorder, Take, Arm,
     CheckAvailable, RecStore, Claimed, ClaimFails, Write, Finalize, Delete,
     Share, Give, Close, Sync, Remove, Scan
<1>1. CASE Take
  <2>1. Work(Head(queue)) \in {"share", "scan", "finalize", "delete", "sync",
                               "check", "arm", "skip"}
    BY DEF Work
  <2>2. Head(queue) \in Command /\ Tail(queue) \in Seq(Command)
        /\ Len(Tail(queue)) <= QueueDepth
    BY <1>1, StorageAssumption DEF Take, TypeOK, TypeQueue
  <2> QED BY <1>0, <1>1, <2>1, <2>2 DEF Take, disk, TypeOK, TypeDisk, TypeRec, TypeQueue
<1>2. CASE Arm
  <2>1. (file.armed \/ rec.pc = "arm") \in BOOLEAN
    OBVIOUS
  <2>2. file' \in [created : BOOLEAN, armed : BOOLEAN, cache : SUBSET BOOLEAN]
    BY <1>2, <2>1 DEF Arm, TypeOK, TypeRec
  <2> QED BY <1>0, <1>2, <2>2, DoneType DEF Arm, disk, TypeOK, TypeDisk, TypeRec,
             TypeQueue
<1>10. CASE ClaimFails
  BY <1>0, <1>10, DoneType DEF ClaimFails, disk, TypeOK, TypeDisk, TypeRec, TypeQueue,
     Recording
<1>3. CASE CheckAvailable \/ RecStore \/ Claimed
  BY <1>0, <1>3 DEF CheckAvailable, RecStore, Claimed, RecGoes, disk, TypeOK,
     TypeDisk, TypeRec, TypeQueue, Storage
<1>4. CASE Write
  <2>1. file' \in [created : BOOLEAN, armed : BOOLEAN, cache : SUBSET BOOLEAN]
    BY <1>4 DEF Write, TypeOK, TypeRec
  <2>2. rstate' \in Recording
    BY <1>4 DEF Write, TypeOK, TypeRec, Recording
  <2>3. rec' \in [pc : {"wait", "finalize"}, cmd : Command]
        /\ answer' \in {None, "yes", "no"}
    BY <1>4, DoneType DEF Write, TypeOK, TypeRec
  <2> QED BY <1>0, <1>4, <2>1, <2>2, <2>3 DEF Write, disk, TypeOK, TypeDisk, TypeRec,
             TypeQueue
<1>5. CASE Finalize
  <2>1. /\ rec' \in [pc : {"wait", "close"}, cmd : Command]
        /\ answer' \in {None, "yes", "no"}
    BY <1>5, DoneType DEF Finalize, TypeOK, TypeRec
  <2>2. rstate' \in Recording
    BY <1>5 DEF Finalize, TypeOK, TypeRec, Recording
  <2>3. UNCHANGED << disk, file, queue >>
    BY <1>5 DEF Finalize
  <2> QED BY <1>0, <2>1, <2>2, <2>3 DEF disk, TypeOK, TypeDisk, TypeRec, TypeQueue
<1>6. CASE Delete
  BY <1>0, <1>6, DoneType DEF Delete, Done, disk, TypeOK, TypeDisk, TypeRec, TypeQueue
<1>7. CASE Share \/ Give
  <2>1. CASE Share
    <3>1. /\ rec' \in [pc : {"wait", "give"}, cmd : Command]
          /\ answer' \in {None, "yes", "no"}
      BY <2>1, DoneType DEF Share, TypeOK, TypeRec
    <3>2. lock' \in {None, "utils", "usb", "rec"}
          /\ UNCHANGED << storage, mounted, media, late, queue, file, rstate >>
      BY <2>1 DEF Share, TypeOK, TypeDisk
    <3> QED BY <1>0, <3>1, <3>2 DEF TypeOK, TypeDisk, TypeRec, TypeQueue
  <2>2. CASE Give
    <3>1. rec' \in [pc : {"wait"}, cmd : Command] /\ answer' \in {None, "yes", "no"}
      BY <2>2, DoneType DEF Give, TypeOK
    <3>2. late' \in BOOLEAN
      BY <2>2 DEF Give
    <3> QED BY <1>0, <2>2, <3>1, <3>2 DEF Give, TypeOK, TypeDisk, TypeRec, TypeQueue,
               Storage
  <2> QED BY <1>7, <2>1, <2>2
<1>8. ASSUME NEW ok \in Outcome, Close(ok) \/ Sync(ok) \/ Remove(ok) PROVE TypeOK'
  <2>1. file' \in [created : BOOLEAN, armed : BOOLEAN, cache : SUBSET BOOLEAN]
    BY <1>8 DEF Close, Sync, Remove, TypeOK, TypeRec
  <2>2. rstate' \in Recording
    BY <1>8 DEF Close, Sync, Remove, TypeOK, TypeRec, Recording
  <2>3. \E result : Done(result)
    BY <1>8 DEF Close, Sync, Remove
  <2> QED BY <1>0, <1>8, <2>1, <2>2, <2>3, DoneType DEF Close, Sync, Remove, disk,
             TypeOK, TypeDisk, TypeRec, TypeQueue
<1>9. ASSUME NEW entries \in SUBSET BOOLEAN, Scan(entries) PROVE TypeOK'
  BY <1>0, <1>9, DoneType DEF Scan, Done, disk, TypeOK, TypeDisk, TypeRec, TypeQueue
<1> QED BY <1>1, <1>2, <1>3, <1>4, <1>5, <1>6, <1>7, <1>8, <1>9, <1>10 DEF Recorder

LEMMA HmiGoesType ==
  ASSUME TypeHmi, NEW pc \in HmiPc, NEW goal \in Goal, HmiGoes(pc, goal)
  PROVE  hmi' \in [pc : HmiPc, goal : Goal, view : {"MENU", "DATA"}]
<1>1. hmi' = [hmi EXCEPT !.pc = pc, !.goal = goal]
  BY DEF HmiGoes
<1> QED BY <1>1 DEF TypeHmi

LEMMA SubmitType ==
  ASSUME TypeOK, NEW type \in Request, NEW goal \in Goal, NEW otherwise \in HmiPc,
         Submit(goal, type, otherwise)
  PROVE  /\ TypeQueue' /\ answer' \in {None, "yes", "no"}
         /\ hmi' \in [pc : HmiPc, goal : Goal, view : {"MENU", "DATA"}]
<1>1. TypeQueue' /\ answer' \in {None, "yes", "no"}
  <2>1. CASE HasRoom
    <3>1. queue' = Append(queue, [type |-> type, live |-> TRUE]) /\ answer' = None
      BY <2>1 DEF Submit
    <3>2. TypeQueue /\ type \in Request \union Samples /\ TRUE \in BOOLEAN
      BY DEF TypeOK
    <3> QED BY <2>1, <3>1, <3>2, QueueFits DEF TypeQueue
  <2>2. CASE ~HasRoom
    BY <2>2 DEF Submit, TypeOK, TypeQueue, TypeRec
  <2> QED BY <2>1, <2>2
<1>2. "await" \in HmiPc /\ None \in Goal
  BY DEF HmiPc, Goal
<1>3. HmiGoes("await", goal) \/ HmiGoes(otherwise, None)
  BY DEF Submit
<1> QED BY <1>1, <1>2, <1>3, HmiGoesType DEF TypeOK

Autos == [pending : BOOLEAN, steady : BOOLEAN, catalog : SUBSET BOOLEAN]

(* What the HMI remembers stays well typed, whatever it is set to.  (Stated
   once, because the provers are slow at records of Booleans.) *)
LEMMA AutosSet ==
  ASSUME auto \in Autos, NEW p \in BOOLEAN
  PROVE  /\ [auto EXCEPT !.pending = p] \in Autos
         /\ [auto EXCEPT !.catalog = {}, !.pending = p] \in Autos
         /\ \A w \in BOOLEAN : [auto EXCEPT !.pending = p, !.steady = w] \in Autos
BY DEF Autos

(* The part of TypeOK that a step of the HMI can disturb. *)
LEMMA HmiStep ==
  ASSUME TypeOK, Hmi,
         TypeQueue', answer' \in {None, "yes", "no"}, auto' \in Autos,
         hmi' \in [pc : HmiPc, goal : Goal, view : {"MENU", "DATA"}],
         file' \in [created : BOOLEAN, armed : BOOLEAN, cache : SUBSET BOOLEAN],
         rec' \in [pc : {rec.pc}, cmd : Command]
  PROVE  TypeOK'
<1>1. UNCHANGED << conn, utils, usb, mounted, media, lock, late, rstate >>
  BY DEF disk, recs, Hmi, Keys, HmiLoop, NoKey, OpenData, LeaveData, OpenLog, EndLog,
     SaveConfig, OpenDrive, CloseDrive, HmiStore, HmiClaimed, HmiClaimFails, HmiFile,
     Answered, GivesUp
<1>2. storage' \in {storage, "Reclaiming"}
  BY DEF disk, recs, Hmi, Keys, HmiLoop, NoKey, OpenData, LeaveData, OpenLog, EndLog,
     SaveConfig, OpenDrive, CloseDrive, HmiStore, HmiClaimed, HmiClaimFails, HmiFile,
     Answered, GivesUp
<1>3. TypeDisk' /\ TypeUsb'
  BY <1>1, <1>2 DEF TypeOK, TypeDisk, TypeUsb, Storage
<1>4. TypeRec' /\ TypeHmi'
  BY <1>1 DEF TypeOK, TypeRec, TypeHmi, Autos
<1> QED BY <1>3, <1>4 DEF TypeOK

LEMMA HmiType == ASSUME TypeOK, Hmi PROVE TypeOK'
<1> DEFINE Records == [pc : HmiPc, goal : Goal, view : {"MENU", "DATA"}]
<1>0. /\ auto \in Autos /\ answer \in {None, "yes", "no"} /\ hmi \in Records
      /\ rec \in [pc : {rec.pc}, cmd : Command]
      /\ file \in [created : BOOLEAN, armed : BOOLEAN, cache : SUBSET BOOLEAN]
  BY DEF TypeOK, TypeHmi, TypeRec, Autos
<1>a. \A pc \in HmiPc, goal \in Goal : HmiGoes(pc, goal) => hmi' \in Records
  BY HmiGoesType DEF TypeOK
<1>b. {"loop", "keys", "store", "claim", "await", "file"} = HmiPc
  BY DEF HmiPc
<1>c. {None, "auto", "share", "close", "save", "parse", "catalog", "catalog?"} = Goal
  BY DEF Goal
<1>d. [auto EXCEPT !.pending = FALSE] \in Autos /\ [auto EXCEPT !.catalog = {}] \in Autos
  BY <1>0 DEF Autos
<1>e. UNCHANGED queue => TypeQueue'
  BY DEF TypeOK, TypeQueue
<1>f. \A goal \in Goal : BeginClaim(goal) => hmi' \in Records /\ auto' \in Autos
  BY <1>a, <1>b, <1>d DEF BeginClaim
<1>g. {"share", "catalog", "sync", "finalize", "delete"} = Request
  BY DEF Request
<1>1. ASSUME NEW b \in BOOLEAN, HmiLoop(b) PROVE TypeOK'
  <2>1. auto' \in Autos
    <3>1. /\ Pending \in BOOLEAN
          /\ (conn # "Disconnected" /\ rstate = "Idle") \in BOOLEAN
      BY DEF Pending
    <3>2. auto' = [auto EXCEPT !.pending = Pending,
                               !.steady = conn # "Disconnected" /\ rstate = "Idle"]
      BY <1>1 DEF HmiLoop
    <3> QED BY <1>0, <3>1, <3>2, AutosSet, Zenon
  <2>2. TypeQueue' /\ answer' \in {None, "yes", "no"} /\ hmi' \in Records
    <3>1. CASE b
      BY <1>1, <1>b, <1>c, <1>g, <3>1, SubmitType DEF HmiLoop
    <3>2. CASE ~b
      BY <1>0, <1>1, <1>a, <1>b, <1>c, <1>e, <3>2 DEF HmiLoop
    <3> QED BY <3>1, <3>2
  <2>3. UNCHANGED << rec, file >>
    BY <1>1 DEF HmiLoop
  <2> QED BY <1>0, <2>1, <2>2, <2>3, HmiStep
<1>2. ASSUME NEW b \in BOOLEAN, OpenLog(b) \/ EndLog(b) PROVE TypeOK'
  <2>1. TypeQueue' /\ answer' \in {None, "yes", "no"} /\ hmi' \in Records
    BY <1>0, <1>2, <1>a, <1>b, <1>c, <1>e, <1>g, SubmitType DEF OpenLog, EndLog
  <2>2. UNCHANGED << rec, file, auto >>
    BY <1>2 DEF OpenLog, EndLog
  <2> QED BY <1>0, <2>1, <2>2, HmiStep
<1>3. CASE NoKey \/ SaveConfig \/ CloseDrive
  <2>1. hmi' \in Records /\ auto' \in Autos
    BY <1>0, <1>3, <1>a, <1>b, <1>c, <1>f DEF NoKey, SaveConfig, CloseDrive
  <2>2. UNCHANGED << rec, file, queue, answer >>
    BY <1>3 DEF NoKey, SaveConfig, CloseDrive, recs
  <2> QED BY <1>0, <1>e, <2>1, <2>2, HmiStep
<1>4. CASE OpenData \/ LeaveData
  <2>1. auto' \in Autos
    <3>1. (conn # "Disconnected") \in BOOLEAN
      OBVIOUS
    <3>2. CASE LeaveData
      BY <1>0, <3>1, <3>2, AutosSet, Zenon DEF LeaveData
    <3> QED BY <1>4, <1>d, <3>2 DEF OpenData
  <2>3. \E pc \in HmiPc, goal \in Goal, view \in {"MENU", "DATA"} :
          hmi' = [pc |-> pc, goal |-> goal, view |-> view]
    BY <1>4, <1>b, <1>c DEF OpenData, LeaveData
  <2>2. UNCHANGED << rec, file, queue, answer >>
    BY <1>4 DEF OpenData, LeaveData, recs
  <2> QED BY <1>0, <1>e, <2>1, <2>2, <2>3, HmiStep
<1>5. CASE OpenDrive
  <2>1. TypeQueue' /\ answer' \in {None, "yes", "no"} /\ hmi' \in Records
    BY <1>0, <1>5, <1>a, <1>b, <1>c, <1>e, <1>g, SubmitType DEF OpenDrive
  <2>2. UNCHANGED << rec, file >> /\ auto' \in Autos
    BY <1>5, <1>d DEF OpenDrive
  <2> QED BY <1>0, <2>1, <2>2, HmiStep
<1>6. CASE HmiStore \/ HmiClaimFails
  <2>1. hmi' \in Records /\ auto' \in Autos
    BY <1>0, <1>6, <1>a, <1>b, <1>c, <1>d DEF HmiStore, HmiClaimFails
  <2>2. UNCHANGED << rec, file, queue, answer >>
    BY <1>6 DEF HmiStore, HmiClaimFails, recs
  <2> QED BY <1>0, <1>e, <2>1, <2>2, HmiStep
<1>7. CASE HmiFile
  <2>1. (conn # "Disconnected") \in BOOLEAN
    OBVIOUS
  <2>2. auto' \in Autos
    BY <1>0, <1>7, <2>1 DEF HmiFile, Autos
  <2>3. hmi' \in Records
    BY <1>7, <1>a, <1>b, <1>c DEF HmiFile
  <2>4. UNCHANGED << rec, file, queue, answer >>
    BY <1>7 DEF HmiFile, recs
  <2> QED BY <1>0, <1>e, <2>2, <2>3, <2>4, HmiStep
<1>8. CASE HmiClaimed
  <2>1. TypeQueue' /\ answer' \in {None, "yes", "no"} /\ hmi' \in Records
    BY <1>0, <1>8, <1>a, <1>b, <1>c, <1>e, <1>g, SubmitType DEF HmiClaimed
  <2>2. UNCHANGED << rec, file >> /\ auto' \in Autos
    BY <1>0, <1>8, <1>d DEF HmiClaimed
  <2> QED BY <1>0, <2>1, <2>2, HmiStep
<1>9. ASSUME NEW a \in {"yes", "no"}, Resume(a)
      PROVE  hmi' \in Records /\ auto' \in Autos
  <2>1. CASE hmi.goal = "auto"
    <3>1. (auto.pending /\ a = "no") \in BOOLEAN
      OBVIOUS
    <3>2. hmi' \in Records
      BY <1>0, <1>9, <1>a, <1>b, <1>c, <2>1 DEF Resume
    <3>3. auto' = [auto EXCEPT !.pending = auto.pending /\ a = "no"]
      BY <1>9, <2>1 DEF Resume
    <3>4. auto' \in Autos
      BY <1>0, <3>1, <3>3, AutosSet, Zenon
    <3> QED BY <3>2, <3>4
  <2>2. CASE hmi.goal = "catalog"
    <3>1. (IF a = "yes" THEN file.cache ELSE {}) \in SUBSET BOOLEAN
      BY <1>0
    <3> QED BY <1>0, <1>9, <1>a, <1>b, <1>c, <2>2, <3>1 DEF Resume, Autos
  <2>3. CASE hmi.goal \notin {"auto", "catalog"}
    BY <1>0, <1>9, <1>a, <1>b, <1>c, <1>f, <2>3 DEF Resume
  <2> QED BY <2>1, <2>2, <2>3
<1>10. CASE Answered
  <2>1. hmi' \in Records /\ auto' \in Autos
    BY <1>0, <1>9, <1>10 DEF Answered
  <2>2. file' \in [created : BOOLEAN, armed : BOOLEAN, cache : SUBSET BOOLEAN]
    BY <1>0, <1>10 DEF Answered
  <2>3. UNCHANGED << rec, queue >> /\ answer' = None
    BY <1>10 DEF Answered
  <2> QED BY <1>0, <1>e, <2>1, <2>2, <2>3, HmiStep
<1>11. CASE GivesUp
  <2>1. TypeQueue'
    <3>1. \A i \in DOMAIN queue : queue[i] \in Command
      BY DEF TypeOK, TypeQueue
    <3>2. ASSUME NEW cmd \in Command PROVE [cmd EXCEPT !.live = FALSE] \in Command
      BY DEF Command
    <3> QED BY <1>11, <3>1, <3>2 DEF GivesUp, TypeOK, TypeQueue
  <2>2. rec' \in [pc : {rec.pc}, cmd : Command]
    BY <1>0, <1>11 DEF GivesUp, Command
  <2>3. hmi' \in Records /\ auto' \in Autos
    BY <1>9, <1>11 DEF GivesUp
  <2>4. UNCHANGED << file, answer >>
    BY <1>11 DEF GivesUp
  <2> QED BY <1>0, <2>1, <2>2, <2>3, <2>4, HmiStep
<1> QED BY <1>1, <1>2, <1>3, <1>4, <1>5, <1>6, <1>7, <1>8, <1>10, <1>11 DEF Hmi, Keys

LEMMA NextType == TypeOK /\ [Next]_vars => TypeOK'
<1> SUFFICES ASSUME TypeOK, [Next]_vars PROVE TypeOK'
  OBVIOUS
<1> USE DEF TypeOK, TypeDisk, TypeUsb, TypeRec, TypeQueue, TypeHmi
<1>1. CASE UNCHANGED vars
  BY <1>1 DEF vars, disk, recs, hmis
<1>2. ASSUME NEW c \in Connection, Plug(c) PROVE TypeOK'
  BY <1>2 DEF Plug, disk, recs, hmis
<1>3. ASSUME NEW kind \in Samples, Packet(kind) PROVE TypeOK'
  <2>1. TypeQueue' /\ rstate' \in Recording
    <3>1. CASE HasRoom
      <4>1. queue' = Append(queue, [type |-> kind, live |-> FALSE]) /\ rstate' = rstate
        BY <1>3, <3>1 DEF Packet
      <4>2. kind \in Request \union Samples /\ FALSE \in BOOLEAN
        OBVIOUS
      <4> QED BY <3>1, <4>1, <4>2, QueueFits
    <3>2. CASE ~HasRoom
      BY <1>3, <3>2 DEF Packet, Recording
    <3> QED BY <3>1, <3>2
  <2> QED BY <1>3, <2>1 DEF Packet, disk, hmis
<1>4. CASE Msc
  BY <1>4 DEF Msc, MscCheck, MscBegin, MscEnd, Eject, EjectStore, disk, recs, hmis,
              Storage
<1> QED BY <1>1, <1>2, <1>3, <1>4, UtilsType, RecorderType, HmiType DEF Next

(* Every variable keeps its type and no command is put into a full queue, for
   a queue of any depth. *)
THEOREM TypeCorrect == Spec => []TypeOK
<1>1. Init => TypeOK
  <2> SUFFICES ASSUME Init PROVE TypeOK
    OBVIOUS
  <2>1. TypeDisk /\ TypeUsb /\ TypeHmi
    BY DEF Init, TypeDisk, TypeUsb, TypeHmi, Storage, Connection, HmiPc, Goal
  <2>2. TypeRec
    BY Commands DEF Init, TypeRec, Recording
  <2>3. TypeQueue
    BY StorageAssumption DEF Init, TypeQueue
  <2> QED BY <2>1, <2>2, <2>3 DEF TypeOK
<1> QED BY <1>1, NextType, PTL DEF Spec

-----------------------------------------------------------------------------
(* Utils::update alone unmounts, mounts and announces the medium; all others
   only send usbStorageState to Preparing or Reclaiming. *)
OwnerInv ==
  /\ utils.pc = "expose" => ~mounted
  /\ utils.pc = "remount" => ~media /\ storage # "HostOwned"
  /\ NeverBoth

(* The file system may be about to go. *)
Leaving == storage = "Preparing" \/ utils.pc = "unmount" \/ ~mounted

(* It only goes while the recorder has no log and is not about to write. *)
RecorderInv ==
  /\ utils.pc = "unmount" => storage \in {"Preparing", "Reclaiming"}
  /\ rec.pc = "close" => file.created
  /\ rec.pc = "give" => ~file.created
  /\ Leaving => ~file.created /\ rec.pc \notin {"write", "remove"}

(* The steps outside Utils::update, as far as the invariants see them. *)
LEMMA OthersLeaveOwner ==
  ASSUME OwnerInv, UNCHANGED << utils, mounted, media >>,
         storage' \in {storage, "Preparing", "Reclaiming"}
  PROVE  OwnerInv'
BY DEF OwnerInv, NeverBoth

LEMMA OthersOnlyAsk ==
  ASSUME Next PROVE
    \/ Utils
    \/ /\ UNCHANGED << utils, mounted, media >>
       /\ storage' \in {storage, "Preparing", "Reclaiming"}
<1>1. ASSUME NEW c \in Connection, Plug(c)
      PROVE  UNCHANGED << utils, mounted, media, storage >>
  BY <1>1 DEF Plug, disk
<1>2. ASSUME NEW kind \in Samples, Packet(kind)
      PROVE  UNCHANGED << utils, mounted, media, storage >>
  BY <1>2 DEF Packet, disk
<1>3. CASE Msc
  BY <1>3 DEF Msc, MscCheck, MscBegin, MscEnd, Eject, EjectStore, disk
<1>4. CASE Recorder
  <2>1. CASE Take \/ Arm \/ CheckAvailable \/ RecStore \/ Claimed \/ ClaimFails
    BY <2>1 DEF Take, Arm, CheckAvailable, RecStore, Claimed, ClaimFails, disk
  <2>2. CASE Write \/ Finalize \/ Delete \/ Share \/ Give
    BY <2>2 DEF Write, Finalize, Delete, Share, Give, disk
  <2>3. ASSUME NEW ok, Close(ok) \/ Sync(ok) \/ Remove(ok) \/ Scan(ok)
        PROVE  UNCHANGED << utils, mounted, media, storage >>
    BY <2>3 DEF Close, Sync, Remove, Scan, disk
  <2> QED BY <1>4, <2>1, <2>2, <2>3 DEF Recorder
<1>5. CASE Hmi
  <2>1. ASSUME NEW b, HmiLoop(b) \/ OpenLog(b) \/ EndLog(b)
        PROVE  UNCHANGED << utils, mounted, media, storage >>
    BY <2>1 DEF HmiLoop, OpenLog, EndLog, disk
  <2>2. CASE NoKey \/ OpenData \/ LeaveData \/ SaveConfig \/ OpenDrive \/ CloseDrive
    BY <2>2 DEF NoKey, OpenData, LeaveData, SaveConfig, OpenDrive, CloseDrive, disk
  <2>3. CASE HmiStore \/ HmiClaimed \/ HmiClaimFails \/ HmiFile \/ Answered \/ GivesUp
    BY <2>3 DEF HmiStore, HmiClaimed, HmiClaimFails, HmiFile, Answered, GivesUp, disk
  <2> QED BY <1>5, <2>1, <2>2, <2>3 DEF Hmi, Keys
<1> QED BY <1>1, <1>2, <1>3, <1>4, <1>5 DEF Next

LEMMA NextOwner == TypeOK /\ OwnerInv /\ [Next]_vars => OwnerInv'
<1> SUFFICES ASSUME TypeOK, OwnerInv, [Next]_vars PROVE OwnerInv'
  OBVIOUS
<1>1. CASE UNCHANGED vars
  BY <1>1 DEF vars, disk, TypeOK, TypeUsb, OwnerInv, NeverBoth
<1>2. CASE Utils
  <2>1. CASE UtilsConnection
    BY <2>1 DEF UtilsConnection, TypeOK, TypeUsb, OwnerInv, NeverBoth
  <2>2. CASE UtilsPrepare
    BY <2>2 DEF UtilsPrepare, TypeOK, TypeUsb, OwnerInv, NeverBoth
  <2>3. CASE UtilsUnmount
    BY <2>3 DEF UtilsUnmount, UtilsAt, Unmounted, TypeOK, TypeUsb, OwnerInv, NeverBoth
  <2>4. ASSUME NEW ok \in Outcome, UtilsExpose(ok) PROVE OwnerInv'
    BY <2>4 DEF UtilsExpose, UtilsAt, TypeOK, TypeUsb, OwnerInv, NeverBoth
  <2>5. CASE UtilsReclaim
    BY <2>5 DEF UtilsReclaim, MediaGone, TypeOK, TypeUsb, OwnerInv, NeverBoth
  <2>6. ASSUME NEW synced \in Outcome, NEW began \in Outcome,
               UtilsRemount(synced, began)
        PROVE  OwnerInv'
    BY <2>6 DEF UtilsRemount, UtilsAt, TypeOK, TypeUsb, OwnerInv, NeverBoth
  <2> QED BY <1>2, <2>1, <2>2, <2>3, <2>4, <2>5, <2>6 DEF Utils
<1> QED BY <1>1, <1>2, OthersOnlyAsk, OthersLeaveOwner

(* At no time do the firmware and the computer both have the flash: for every
   depth of the recorder's queue, with every failure and with timeouts. *)
THEOREM FlashHasOneOwner == Spec => []NeverBoth
<1>1. Init => OwnerInv
  BY DEF Init, OwnerInv, NeverBoth
<1>2. OwnerInv => NeverBoth
  BY DEF OwnerInv
<1> QED BY <1>1, <1>2, NextOwner, TypeCorrect, PTL DEF Spec

-----------------------------------------------------------------------------
LEMMA NextRecorder == TypeOK /\ RecorderInv /\ [Next]_vars => RecorderInv'
<1> SUFFICES ASSUME TypeOK, RecorderInv, [Next]_vars PROVE RecorderInv'
  OBVIOUS
<1> USE DEF RecorderInv, Leaving
<1>0. /\ rec \in [pc : {rec.pc}, cmd : Command]
      /\ utils \in [pc : {utils.pc}, prev : Connection]
      /\ file \in [created : BOOLEAN, armed : BOOLEAN, cache : SUBSET BOOLEAN]
  BY DEF TypeOK, TypeUsb, TypeRec
<1>1. CASE UNCHANGED vars
  BY <1>1 DEF vars, disk, recs
<1>2. CASE Utils
  <2>0. UNCHANGED << rec, file >>
    BY <1>2 DEF Utils, UtilsConnection, UtilsPrepare, UtilsUnmount, UtilsExpose,
       UtilsReclaim, UtilsRemount, recs
  <2>1. CASE UtilsConnection
    BY <1>0, <2>0, <2>1 DEF UtilsConnection
  <2>2. CASE UtilsPrepare
    BY <1>0, <2>0, <2>2 DEF UtilsPrepare
  <2>3. CASE UtilsUnmount
    BY <1>0, <2>0, <2>3 DEF UtilsUnmount, UtilsAt
  <2>4. ASSUME NEW ok \in Outcome, UtilsExpose(ok) PROVE RecorderInv'
    BY <1>0, <2>0, <2>4 DEF UtilsExpose, UtilsAt
  <2>5. CASE UtilsReclaim
    BY <1>0, <2>0, <2>5 DEF UtilsReclaim
  <2>6. ASSUME NEW synced \in Outcome, NEW began \in Outcome,
               UtilsRemount(synced, began)
        PROVE  RecorderInv'
    BY <1>0, <2>0, <2>6 DEF UtilsRemount, UtilsAt
  <2> QED BY <1>2, <2>1, <2>2, <2>3, <2>4, <2>5, <2>6 DEF Utils
<1>3. CASE Recorder
  <2>1. UNCHANGED << utils, mounted >>
    BY <1>3 DEF Recorder, Take, Arm, CheckAvailable, RecStore, Claimed, ClaimFails,
       Write, Finalize, Delete, Share, Give, Close, Sync, Remove, Scan, disk
  <2>2. CASE Take
    <3>1. rec'.pc \notin {"close", "give", "write", "remove"}
      BY <2>2 DEF Take, Work
    <3> QED BY <2>1, <2>2, <3>1 DEF Take, disk
  <2>3. CASE Arm \/ ClaimFails
    BY <1>0, <2>1, <2>3 DEF Arm, ClaimFails, Done, disk
  <2>4. CASE CheckAvailable \/ Claimed
    BY <1>0, <2>1, <2>4 DEF CheckAvailable, Claimed, Available, RecGoes, disk
  <2>5. CASE RecStore
    BY <1>0, <2>1, <2>5 DEF RecStore, RecGoes
  <2>6. CASE Write
    <3>1. rec'.pc \in {"wait", "finalize"}
      BY <1>0, <2>6 DEF Write, Done
    <3>2. UNCHANGED storage /\ ~Leaving
      BY <2>6 DEF Write, disk
    <3> QED BY <2>1, <3>1, <3>2
  <2>7. CASE Finalize
    BY <1>0, <2>1, <2>7 DEF Finalize, Done, disk
  <2>8. CASE Delete
    BY <1>0, <2>1, <2>8 DEF Delete, Available, Done, disk
  <2>9. CASE Share
    BY <1>0, <2>1, <2>9 DEF Share, MayShare, Done
  <2>10. CASE Give
    BY <1>0, <2>1, <2>10 DEF Give, Done
  <2>11. ASSUME NEW ok, Close(ok) \/ Sync(ok) \/ Remove(ok) \/ Scan(ok)
         PROVE  RecorderInv'
    <3>1. rec'.pc = "wait" /\ UNCHANGED storage
      <4>1. PICK result : Done(result)
        BY <2>11 DEF Close, Sync, Remove, Scan
      <4>2. rec' = [pc |-> "wait", cmd |-> NoCommand]
        BY <4>1 DEF Done
      <4> QED BY <2>11, <4>2 DEF Close, Sync, Remove, Scan, disk
    <3>2. file'.created => file.created
      BY <1>0, <2>11 DEF Close, Sync, Remove, Scan
    <3> QED BY <2>1, <3>1, <3>2
  <2> QED BY <1>3, <2>2, <2>3, <2>4, <2>5, <2>6, <2>7, <2>8, <2>9, <2>10, <2>11
          DEF Recorder
<1>4. CASE Hmi
  <2>1. UNCHANGED << utils, mounted >> /\ storage' \in {storage, "Reclaiming"}
    BY <1>4 DEF disk, recs, Hmi, Keys, HmiLoop, NoKey, OpenData, LeaveData, OpenLog,
       EndLog, SaveConfig, OpenDrive, CloseDrive, HmiStore, HmiClaimed,
       HmiClaimFails, HmiFile, Answered, GivesUp
  <2>2. rec'.pc = rec.pc /\ file'.created = file.created
    <3>1. CASE Answered
      BY <1>0, <3>1 DEF Answered
    <3>2. CASE GivesUp
      BY <1>0, <3>2 DEF GivesUp
    <3>3. CASE ~Answered /\ ~GivesUp
      BY <1>4, <3>3 DEF recs, Hmi, Keys, HmiLoop, NoKey, OpenData, LeaveData, OpenLog,
         EndLog, SaveConfig, OpenDrive, CloseDrive, HmiStore, HmiClaimed,
         HmiClaimFails, HmiFile
    <3> QED BY <3>1, <3>2, <3>3
  <2> QED BY <2>1, <2>2
<1>5. CASE Msc
  BY <1>5 DEF Msc, MscCheck, MscBegin, MscEnd, Eject, EjectStore, disk, recs
<1>6. ASSUME NEW c \in Connection, Plug(c) PROVE RecorderInv'
  BY <1>6 DEF Plug, disk, recs
<1>7. ASSUME NEW kind \in Samples, Packet(kind) PROVE RecorderInv'
  BY <1>7 DEF Packet, disk
<1> QED BY <1>1, <1>2, <1>3, <1>4, <1>5, <1>6, <1>7 DEF Next

(* The file system stays under the recorder while it writes, closes or removes
   a file and as long as a log is open, whoever asks for the drive meanwhile,
   also when the HMI no longer waits for the answer to its own request. *)
THEOREM RecorderKeepsFileSystem == Spec => []RecorderWorksMounted
<1>1. Init => RecorderInv
  BY DEF Init, RecorderInv, Leaving
<1>2. RecorderInv => RecorderWorksMounted
  BY DEF RecorderInv, Leaving, RecorderWorksMounted
<1> QED BY <1>1, <1>2, NextRecorder, TypeCorrect, PTL DEF Spec

-----------------------------------------------------------------------------
(* What the recorder has been asked and has not answered: its command, and
   those in the queue. *)
InFlight(i) == IF i = 0 THEN rec.cmd ELSE queue[i]

(* The HMI waits for one request at a time; a request to share it waits for
   only with one of two purposes. *)
RequestsInv ==
  /\ \A i \in 0 .. Len(queue) :
       InFlight(i).live => hmi.pc = "await" /\ answer = None
  /\ \A i, j \in 0 .. Len(queue) : InFlight(i).live /\ InFlight(j).live => i = j
  /\ \A i \in 0 .. Len(queue) :
       InFlight(i).type = "share" /\ InFlight(i).live
         => hmi.goal \in {"auto", "share"}
  /\ rec.pc \in {"share", "give"} => rec.cmd.type = "share"

(* The HMI works on files, may do so without another look at the owner, or
   waits for an answer that lets it. *)
UsesFiles ==
  \/ hmi.pc = "file"
  \/ auto.catalog # {}
  \/ hmi.pc = "await" /\ hmi.goal \in {"parse", "catalog"}

(* It does so only while the file system stays or is away for a request it has
   given up on, and asks to share only from screens that have no list of
   logs. *)
FilesInv ==
  /\ UsesFiles => ~Leaving \/ late
  /\ hmi.view = "MENU" => auto.catalog = {}
  /\ hmi.pc = "await" /\ hmi.goal \in {"auto", "share"} => hmi.view = "MENU"
  /\ hmi.pc = "await" => hmi.goal \in {"auto", "share", "parse", "catalog", "catalog?"}
  /\ hmi.pc \in {"store", "claim", "await"} /\ hmi.goal \in {"catalog", "catalog?"}
       => hmi.view = "DATA"
  /\ hmi.pc = "store" => hmi.goal \in {"save", "catalog", "close"}
  /\ hmi.pc = "claim" => hmi.goal \in {"save", "catalog"}

(* The commands and the HMI's wait for them stay as they are, or the HMI was
   not waiting for an answer. *)
LEMMA RequestsStay ==
  ASSUME RequestsInv, UNCHANGED << queue, rec.cmd >>,
         rec'.pc \in {"share", "give"} => rec.cmd.type = "share",
         hmi.pc = "await" /\ answer = None =>
           hmi'.pc = hmi.pc /\ hmi'.goal = hmi.goal /\ answer' = answer
  PROVE  RequestsInv'
BY DEF RequestsInv, InFlight

(* A command joins the queue: a packet, or a request of the HMI. *)
LEMMA RequestsGrow ==
  ASSUME RequestsInv, TypeQueue, UNCHANGED rec, NEW cmd \in Command,
         queue' = Append(queue, cmd),
         \/ ~cmd.live /\ UNCHANGED << hmi, answer >>
         \/ /\ hmi.pc # "await" /\ hmi'.pc = "await" /\ answer' = None
            /\ cmd.live
            /\ cmd.type = "share" => hmi'.goal \in {"auto", "share"}
  PROVE  RequestsInv'
<1> PICK n \in Nat : n = Len(queue)
  BY DEF TypeQueue
<1>1. /\ queue \in Seq(Command) /\ Len(queue') = n + 1
      /\ \A i \in 1 .. n : queue'[i] = queue[i]
      /\ queue'[n + 1] = cmd
  BY DEF TypeQueue
<1>2. /\ \A i \in 0 .. n : InFlight(i)' = InFlight(i)
      /\ InFlight(n + 1)' = cmd
  BY <1>1 DEF InFlight
<1>3. \A i \in 0 .. Len(queue') : i \in 0 .. n \/ i = n + 1
  BY <1>1
<1>4. CASE ~cmd.live /\ UNCHANGED << hmi, answer >>
  BY <1>2, <1>3, <1>4 DEF RequestsInv
<1>5. CASE /\ hmi.pc # "await" /\ hmi'.pc = "await" /\ answer' = None
           /\ cmd.live
           /\ cmd.type = "share" => hmi'.goal \in {"auto", "share"}
  <2>1. \A i \in 0 .. n : ~InFlight(i).live
    BY <1>5 DEF RequestsInv
  <2> QED BY <1>2, <1>3, <1>5, <2>1 DEF RequestsInv
<1> QED BY <1>4, <1>5

(* The recorder takes the first command. *)
LEMMA RequestsMove ==
  ASSUME RequestsInv, TypeOK, Take
  PROVE  RequestsInv'
<1>1. /\ Len(queue) \in Nat \ {0} /\ Len(queue') = Len(queue) - 1
      /\ \A i \in 0 .. Len(queue') :
           i + 1 \in 0 .. Len(queue) /\ InFlight(i)' = InFlight(i + 1)
  BY DEF Take, TypeOK, TypeQueue, InFlight
<1>2. rec'.pc \in {"share", "give"} => rec'.cmd.type = "share"
  <2>1. Work(Head(queue)) \in {"share", "give"} => Head(queue).type = "share"
    BY DEF Work
  <2> QED BY <2>1 DEF Take
<1>3. UNCHANGED << hmi, answer >>
  BY DEF Take, hmis
<1>4. \A i, j \in 0 .. Len(queue') : i + 1 = j + 1 => i = j
  OBVIOUS
<1> QED BY <1>1, <1>2, <1>3, <1>4 DEF RequestsInv

(* The recorder is done with its command: nobody waits for another one. *)
LEMMA RequestsEnd ==
  ASSUME RequestsInv, TypeQueue, UNCHANGED << queue, hmi >>, NEW result, Done(result)
  PROVE  RequestsInv'
<1>1. /\ Len(queue) \in Nat
      /\ ~InFlight(0)'.live /\ rec'.pc = "wait"
      /\ \A i \in 1 .. Len(queue) : InFlight(i)' = InFlight(i)
      /\ InFlight(0).live \/ UNCHANGED answer
  BY DEF Done, NoCommand, InFlight, TypeQueue
<1> QED BY <1>1 DEF RequestsInv

-----------------------------------------------------------------------------
(* The steps of the recorder that neither take nor finish a command. *)
LEMMA RecorderGoesOn ==
  ASSUME Recorder, TypeOK, ~Take, ~\E result : Done(result)
  PROVE  /\ UNCHANGED << queue, rec.cmd, hmi, answer >>
         /\ rec'.pc = "share" => FALSE
         /\ rec'.pc = "give" => rec.pc = "share"
<1>0. rec \in [pc : {rec.pc}, cmd : Command]
  BY DEF TypeOK, TypeRec
<1>1. CASE CheckAvailable \/ RecStore \/ Claimed
  BY <1>0, <1>1 DEF CheckAvailable, RecStore, Claimed, RecGoes, hmis
<1>2. CASE Write \/ Finalize
  BY <1>0, <1>2 DEF Write, Finalize, hmis
<1>3. CASE Delete \/ Share
  BY <1>0, <1>3 DEF Delete, Share, hmis
<1>4. CASE Arm \/ ClaimFails \/ Give
  BY <1>4 DEF Arm, ClaimFails, Give
<1>5. ASSUME NEW ok, Close(ok) \/ Sync(ok) \/ Remove(ok) \/ Scan(ok) PROVE FALSE
  BY <1>5 DEF Close, Sync, Remove, Scan
<1> QED BY <1>1, <1>2, <1>3, <1>4, <1>5 DEF Recorder

LEMMA RecorderLeavesHmi ==
  ASSUME Recorder PROVE UNCHANGED hmis /\ (Take \/ UNCHANGED queue)
BY DEF Recorder, Take, Arm, CheckAvailable, RecStore, Claimed, ClaimFails, Write,
   Finalize, Delete, Share, Give, Close, Sync, Remove, Scan

LEMMA RecorderRequests ==
  ASSUME TypeOK, RequestsInv, Recorder PROVE RequestsInv'
<1>1. CASE Take
  BY <1>1, RequestsMove
<1>2. ASSUME ~Take, NEW result, Done(result) PROVE RequestsInv'
  BY <1>2, RecorderLeavesHmi, RequestsEnd DEF TypeOK, hmis
<1>3. CASE ~Take /\ ~\E result : Done(result)
  <2>1. rec'.pc \in {"share", "give"} => rec.cmd.type = "share"
    BY <1>3, RecorderGoesOn DEF RequestsInv
  <2> QED BY <1>3, <2>1, RecorderGoesOn, RequestsStay
<1> QED BY <1>1, <1>2, <1>3

(* A request of the HMI joins the queue, or the queue had no room. *)
LEMMA SubmitRequests ==
  ASSUME TypeOK, RequestsInv, UNCHANGED rec, hmi.pc # "await",
         NEW goal \in Goal, NEW type \in Request, NEW otherwise,
         Submit(goal, type, otherwise),
         type = "share" => goal \in {"auto", "share"}
  PROVE  RequestsInv'
<1>1. CASE HasRoom /\ queue' = Append(queue, [type |-> type, live |-> TRUE])
           /\ answer' = None /\ HmiGoes("await", goal)
  <2>1. hmi'.pc = "await" /\ hmi'.goal = goal
    BY <1>1 DEF HmiGoes, TypeOK, TypeHmi
  <2>2. [type |-> type, live |-> TRUE] \in Command
    BY Commands
  <2> QED BY <1>1, <2>1, <2>2, RequestsGrow DEF TypeOK
<1>2. CASE UNCHANGED << queue, answer >>
  BY <1>2, RequestsStay DEF RequestsInv
<1> QED BY <1>1, <1>2 DEF Submit

LEMMA HmiRequests ==
  ASSUME TypeOK, RequestsInv, Hmi PROVE RequestsInv'
<1> USE DEF RequestsInv
<1>a. {"auto", "share", "parse", "catalog", "catalog?"} \subseteq Goal
      /\ {"share", "catalog", "sync", "finalize", "delete"} = Request
  BY DEF Goal, Request
<1>1. CASE \/ NoKey \/ OpenData \/ LeaveData \/ SaveConfig \/ CloseDrive
           \/ HmiStore \/ HmiClaimFails \/ HmiFile
  <2>1. hmi.pc # "await" /\ UNCHANGED << rec, queue >>
    BY <1>1 DEF NoKey, OpenData, LeaveData, SaveConfig, CloseDrive, HmiStore,
       HmiClaimFails, HmiFile, recs
  <2> QED BY <2>1, RequestsStay
<1>2. ASSUME NEW b \in BOOLEAN, HmiLoop(b) PROVE RequestsInv'
  <2>1. hmi.pc # "await" /\ UNCHANGED rec
    BY <1>2 DEF HmiLoop
  <2>2. CASE b
    BY <1>2, <1>a, <2>1, <2>2, SubmitRequests DEF HmiLoop
  <2>3. CASE ~b
    BY <1>2, <2>1, <2>3, RequestsStay DEF HmiLoop
  <2> QED BY <2>2, <2>3
<1>3. ASSUME NEW b \in BOOLEAN, OpenLog(b) PROVE RequestsInv'
  <2>1. hmi.pc # "await" /\ UNCHANGED rec
    BY <1>3 DEF OpenLog
  <2>2. CASE b
    BY <1>3, <1>a, <2>1, <2>2, SubmitRequests DEF OpenLog
  <2>3. CASE ~b
    BY <1>3, <2>1, <2>3, RequestsStay DEF OpenLog
  <2> QED BY <2>2, <2>3
<1>4. ASSUME NEW b \in BOOLEAN, EndLog(b) PROVE RequestsInv'
  <2>1. hmi.pc # "await" /\ UNCHANGED rec
    BY <1>4 DEF EndLog
  <2>2. CASE b \/ Available
    <3>1. Submit("catalog?", IF b THEN "finalize" ELSE "delete", "loop")
      BY <1>4, <2>2 DEF EndLog
    <3>2. (IF b THEN "finalize" ELSE "delete") \in Request
          /\ (IF b THEN "finalize" ELSE "delete") # "share"
      BY <1>a
    <3> QED BY <1>a, <2>1, <3>1, <3>2, SubmitRequests
  <2>3. CASE ~(b \/ Available)
    BY <1>4, <2>1, <2>3, RequestsStay DEF EndLog
  <2> QED BY <2>2, <2>3
<1>5. CASE OpenDrive
  <2>1. hmi.pc # "await" /\ UNCHANGED rec
    BY <1>5 DEF OpenDrive
  <2>2. Submit("share", "share", "loop") \/ UNCHANGED << queue, answer >>
    BY <1>5 DEF OpenDrive
  <2> QED BY <1>a, <2>1, <2>2, SubmitRequests, RequestsStay
<1>6. CASE HmiClaimed
  <2>1. hmi.pc # "await" /\ UNCHANGED rec
    BY <1>6 DEF HmiClaimed
  <2>2. Submit("catalog", "catalog", "loop") \/ UNCHANGED << queue, answer >>
    BY <1>6 DEF HmiClaimed
  <2> QED BY <1>a, <2>1, <2>2, SubmitRequests, RequestsStay
<1>7. CASE Answered
  <2>1. answer # None /\ UNCHANGED << rec, queue >>
    BY <1>7 DEF Answered
  <2> QED BY <2>1, RequestsStay
<1>8. CASE GivesUp
  <2>2. ASSUME NEW i \in 0 .. Len(queue)
        PROVE  InFlight(i)'.type = InFlight(i).type /\ ~InFlight(i)'.live
    BY <1>8 DEF GivesUp, InFlight, TypeOK, TypeQueue, TypeRec, Command
  <2>3. Len(queue') = Len(queue)
    BY <1>8 DEF GivesUp, TypeOK, TypeQueue
  <2>4. rec'.pc = rec.pc /\ rec'.cmd.type = rec.cmd.type
    BY <1>8 DEF GivesUp, TypeOK, TypeRec, Command
  <2> QED BY <2>2, <2>3, <2>4
<1> QED BY <1>1, <1>2, <1>3, <1>4, <1>5, <1>6, <1>7, <1>8 DEF Hmi, Keys

LEMMA NextRequests == TypeOK /\ RequestsInv /\ [Next]_vars => RequestsInv'
<1> SUFFICES ASSUME TypeOK, RequestsInv, [Next]_vars PROVE RequestsInv'
  OBVIOUS
<1>1. CASE UNCHANGED << recs, hmis >>
  BY <1>1, RequestsStay DEF recs, hmis, RequestsInv
<1>2. CASE UNCHANGED vars \/ Msc \/ Utils \/ (\E c \in Connection \ {conn} : Plug(c))
  <2>1. UNCHANGED << recs, hmis >>
    BY <1>2 DEF vars, Msc, MscCheck, MscBegin, MscEnd, Eject, EjectStore, Utils,
       UtilsConnection, UtilsPrepare, UtilsUnmount, UtilsExpose, UtilsReclaim,
       UtilsRemount, Plug
  <2> QED BY <1>1, <2>1
<1>3. ASSUME NEW kind \in Samples, Packet(kind) PROVE RequestsInv'
  <2>1. UNCHANGED << rec, hmi, answer >>
    BY <1>3 DEF Packet, hmis
  <2>2. CASE HasRoom
    <3>1. [type |-> kind, live |-> FALSE] \in Command
      BY Commands
    <3> QED BY <1>3, <2>1, <2>2, <3>1, RequestsGrow DEF Packet, TypeOK
  <2>3. CASE ~HasRoom
    BY <1>3, <2>1, <2>3, RequestsStay DEF Packet, RequestsInv
  <2> QED BY <2>2, <2>3
<1> QED BY <1>2, <1>3, RecorderRequests, HmiRequests DEF Next

-----------------------------------------------------------------------------
(* Available means that nothing has begun to take the file system away. *)
LEMMA AvailableStays == RecorderInv /\ Available => ~Leaving
BY DEF RecorderInv, Available, Leaving

(* Only the recorder, sharing the flash, lets it go. *)
LEMMA OnlyGiveLeaves ==
  ASSUME TypeOK, OwnerInv, RecorderInv, [Next]_vars, ~Leaving, Leaving'
  PROVE  Give
<1>1. CASE Utils
  <2>1. CASE UtilsConnection \/ UtilsPrepare
    <3>1. /\ utils \in [pc : {utils.pc}, prev : Connection]
          /\ storage # "Preparing" /\ mounted
      BY DEF Leaving, TypeOK, TypeUsb
    <3>2. CASE UtilsConnection
      BY <3>1, <3>2 DEF UtilsConnection, Leaving
    <3>3. CASE UtilsPrepare
      BY <3>1, <3>3 DEF UtilsPrepare, Leaving
    <3> QED BY <2>1, <3>2, <3>3
  <2>2. CASE UtilsUnmount \/ \E ok \in Outcome : UtilsExpose(ok)
    BY <2>2 DEF UtilsUnmount, UtilsExpose, UtilsAt, Leaving, OwnerInv
  <2>3. CASE UtilsReclaim \/ \E synced, began \in Outcome : UtilsRemount(synced, began)
    BY <2>3 DEF UtilsReclaim, UtilsRemount, UtilsAt, Leaving, TypeOK, TypeUsb
  <2> QED BY <1>1, <2>1, <2>2, <2>3 DEF Utils
<1>2. CASE UNCHANGED vars
  BY <1>2 DEF vars, disk, Leaving
<1>3. CASE ~Utils /\ Next
  <2>1. UNCHANGED << utils, mounted >> /\ storage' = "Preparing" /\ storage # "Preparing"
    BY <1>3, OthersOnlyAsk DEF Leaving
  <2>2. ASSUME NEW c \in Connection, Plug(c) PROVE UNCHANGED storage
    BY <2>2 DEF Plug, disk
  <2>3. ASSUME NEW kind \in Samples, Packet(kind) PROVE UNCHANGED storage
    BY <2>3 DEF Packet, disk
  <2>4. CASE Msc
    BY <2>1, <2>4 DEF Msc, MscCheck, MscBegin, MscEnd, Eject, EjectStore, disk
  <2>5. CASE Recorder
    BY <2>1, <2>5 DEF Recorder, Take, Arm, CheckAvailable, RecStore, Claimed,
       ClaimFails, Write, Finalize, Delete, Share, Close, Sync, Remove, Scan, disk
  <2>6. CASE Hmi
    BY <2>1, <2>6 DEF disk, recs, Hmi, Keys, HmiLoop, NoKey, OpenData, LeaveData,
       OpenLog, EndLog, SaveConfig, OpenDrive, CloseDrive, HmiStore, HmiClaimed,
       HmiClaimFails, HmiFile, Answered, GivesUp
  <2> QED BY <1>3, <2>1, <2>2, <2>3, <2>4, <2>5, <2>6 DEF Next
<1> QED BY <1>1, <1>2, <1>3

(* Whom the file system is away for is forgotten only when it is back. *)
LEMMA OnlyMountEnds ==
  ASSUME TypeOK, [Next]_vars, ~Give, Leaving' PROVE UNCHANGED late
<1>1. CASE Utils
  <2>1. ASSUME NEW synced \in Outcome, NEW began \in Outcome,
               UtilsRemount(synced, began)
        PROVE  UNCHANGED late
    BY <2>1 DEF UtilsRemount, UtilsAt, Leaving, TypeOK, TypeDisk, TypeUsb
  <2>2. CASE ~\E synced, began \in Outcome : UtilsRemount(synced, began)
    BY <1>1, <2>2 DEF Utils, UtilsConnection, UtilsPrepare, UtilsUnmount, UtilsExpose,
       UtilsReclaim, disk
  <2> QED BY <2>1, <2>2
<1>2. CASE Recorder
  BY <1>2 DEF Recorder, Take, Arm, CheckAvailable, RecStore, Claimed, ClaimFails,
     Write, Finalize, Delete, Share, Close, Sync, Remove, Scan, disk
<1>3. CASE Hmi
  BY <1>3 DEF disk, recs, Hmi, Keys, HmiLoop, NoKey, OpenData, LeaveData, OpenLog,
     EndLog, SaveConfig, OpenDrive, CloseDrive, HmiStore, HmiClaimed, HmiClaimFails,
     HmiFile, Answered, GivesUp
<1>4. CASE ~Utils /\ ~Recorder /\ ~Hmi
  BY <1>4 DEF Next, Plug, Packet, Msc, MscCheck, MscBegin, MscEnd, Eject, EjectStore,
     vars, disk
<1> QED BY <1>1, <1>2, <1>3, <1>4

(* What a step of the HMI does to its own state leaves to be shown. *)
LEMMA HmiKeepsFiles ==
  ASSUME Hmi PROVE UNCHANGED late /\ (Leaving' => Leaving)
<1>1. UNCHANGED << utils, mounted, late >> /\ storage' \in {storage, "Reclaiming"}
  BY DEF disk, recs, Hmi, Keys, HmiLoop, NoKey, OpenData, LeaveData, OpenLog,
     EndLog, SaveConfig, OpenDrive, CloseDrive, HmiStore, HmiClaimed,
     HmiClaimFails, HmiFile, Answered, GivesUp
<1> QED BY <1>1 DEF Leaving

(* Where the HMI goes and why, as far as FilesInv asks. *)
Went(pc, goal) == hmi'.pc = pc /\ hmi'.goal = goal /\ hmi'.view = hmi.view

LEMMA HmiGoesThere ==
  ASSUME TypeHmi, NEW pc, NEW goal, HmiGoes(pc, goal) PROVE Went(pc, goal)
BY DEF HmiGoes, Went, TypeHmi

LEMMA SubmitGoes ==
  ASSUME TypeHmi, NEW goal, NEW type, NEW otherwise, Submit(goal, type, otherwise)
  PROVE  Went("await", goal) \/ Went(otherwise, None)
BY HmiGoesThere DEF Submit

LEMMA HmiFiles ==
  ASSUME TypeOK, RecorderInv, FilesInv, Hmi PROVE FilesInv'
<1> USE DEF FilesInv, UsesFiles
<1>0. TypeHmi /\ hmi.view \in {"MENU", "DATA"} /\ auto \in Autos
  BY DEF TypeOK, TypeHmi, Autos
<1>1. CASE NoKey \/ CloseDrive \/ \E b \in BOOLEAN : EndLog(b)
  <2>1. \/ Went("loop", None)
        \/ Went("store", "close")
        \/ Went("await", "catalog?") /\ hmi.view = "DATA"
    BY <1>0, <1>1, HmiGoesThere, SubmitGoes DEF NoKey, CloseDrive, EndLog
  <2>2. UNCHANGED auto
    BY <1>1 DEF NoKey, CloseDrive, EndLog
  <2> QED BY <2>1, <2>2, HmiKeepsFiles DEF Went, None
<1>2. ASSUME NEW b \in BOOLEAN, HmiLoop(b) PROVE FilesInv'
  <2>1. \/ Went("keys", None)
        \/ Went("await", "auto") /\ hmi.view = "MENU"
    BY <1>0, <1>2, HmiGoesThere, SubmitGoes DEF HmiLoop
  <2>2. auto'.catalog = auto.catalog
    BY <1>0, <1>2 DEF HmiLoop, Autos
  <2> QED BY <2>1, <2>2, HmiKeepsFiles DEF Went, None
<1>3. CASE OpenData
  BY <1>0, <1>3, HmiKeepsFiles DEF OpenData, Autos
<1>4. CASE LeaveData
  BY <1>0, <1>4 DEF LeaveData, Autos, None
<1>5. ASSUME NEW b \in BOOLEAN, OpenLog(b) PROVE FilesInv'
  <2>1. \/ Went("loop", None) \/ Went("await", "parse") \/ Went("file", "parse")
    BY <1>0, <1>5, HmiGoesThere, SubmitGoes DEF OpenLog
  <2>2. UNCHANGED auto /\ hmi.view = "DATA" /\ UsesFiles
    BY <1>5 DEF OpenLog
  <2> QED BY <2>1, <2>2, HmiKeepsFiles DEF Went, None
<1>6. CASE SaveConfig \/ OpenDrive
  <2>1. \/ Went("store", "save") \/ Went("claim", "save") \/ Went("loop", None)
        \/ Went("await", "share") /\ hmi.view = "MENU"
    BY <1>0, <1>6, HmiGoesThere, SubmitGoes DEF SaveConfig, BeginClaim, OpenDrive
  <2>2. auto'.catalog = auto.catalog
    BY <1>0, <1>6 DEF SaveConfig, BeginClaim, OpenDrive, Autos
  <2> QED BY <2>1, <2>2, HmiKeepsFiles DEF Went, None
<1>7. CASE HmiStore
  <2>1. Went("loop", None) \/ (Went("claim", hmi.goal) /\ hmi.goal # "close")
    BY <1>0, <1>7, HmiGoesThere DEF HmiStore
  <2>2. UNCHANGED auto /\ hmi.pc = "store"
    BY <1>7 DEF HmiStore
  <2> QED BY <2>1, <2>2, HmiKeepsFiles DEF Went, None
<1>8. CASE HmiClaimed
  <2>1. ~Leaving /\ hmi.pc = "claim"
    BY <1>8, AvailableStays DEF HmiClaimed
  <2>2. \/ Went("file", "save")
        \/ hmi.goal = "catalog" /\ (Went("loop", None) \/ Went("await", "catalog"))
    BY <1>0, <1>8, HmiGoesThere, SubmitGoes DEF HmiClaimed
  <2>3. auto'.catalog \in {auto.catalog, {}}
    BY <1>0, <1>8 DEF HmiClaimed, Autos
  <2> QED BY <2>1, <2>2, <2>3, HmiKeepsFiles DEF Went, None
<1>9. CASE HmiClaimFails \/ HmiFile
  <2>1. Went("loop", None)
    BY <1>0, <1>9, HmiGoesThere DEF HmiClaimFails, HmiFile
  <2>2. auto'.catalog \in {auto.catalog, {}}
    BY <1>0, <1>9 DEF HmiClaimFails, HmiFile, Autos
  <2> QED BY <2>1, <2>2, HmiKeepsFiles DEF Went, None
<1>10. ASSUME NEW a, hmi.pc = "await", Resume(a) PROVE FilesInv'
  <2>1. CASE hmi.goal = "auto"
    <3>1. Went("keys", None) /\ auto'.catalog = auto.catalog
      BY <1>0, <1>10, <2>1, HmiGoesThere DEF Resume, Autos
    <3> QED BY <3>1, HmiKeepsFiles DEF Went, None
  <2>2. CASE hmi.goal = "catalog"
    <3>1. Went("loop", None) /\ hmi.view = "DATA" /\ UsesFiles
      BY <1>0, <1>10, <2>2, HmiGoesThere DEF Resume
    <3> QED BY <3>1, HmiKeepsFiles DEF Went, None
  <2>3. CASE hmi.goal = "catalog?" /\ a = "yes"
    <3>1. BeginClaim("catalog")
      BY <1>10, <2>3 DEF Resume
    <3>2. (Went("store", "catalog") \/ Went("claim", "catalog")) /\ hmi.view = "DATA"
          /\ auto'.catalog = auto.catalog
      BY <1>0, <1>10, <2>3, <3>1, HmiGoesThere DEF BeginClaim, Autos
    <3> QED BY <3>2, HmiKeepsFiles DEF Went
  <2>4. CASE hmi.goal = "parse" /\ a = "yes"
    <3>1. Went("file", "parse") /\ UNCHANGED auto /\ UsesFiles
      BY <1>0, <1>10, <2>4, HmiGoesThere DEF Resume
    <3> QED BY <3>1, HmiKeepsFiles DEF Went
  <2>5. CASE /\ hmi.goal \notin {"auto", "catalog"}
             /\ ~(hmi.goal \in {"catalog?", "parse"} /\ a = "yes")
    <3>1. Went("loop", None) /\ UNCHANGED auto
      BY <1>0, <1>10, <2>5, HmiGoesThere DEF Resume
    <3> QED BY <3>1, HmiKeepsFiles DEF Went, None
  <2> QED BY <2>1, <2>2, <2>3, <2>4, <2>5
<1>11. CASE Answered \/ GivesUp
  BY <1>10, <1>11 DEF Answered, GivesUp
<1> QED BY <1>1, <1>2, <1>3, <1>4, <1>5, <1>6, <1>7, <1>8, <1>9, <1>11
        DEF Hmi, Keys

LEMMA NextFiles ==
  TypeOK /\ OwnerInv /\ RecorderInv /\ RequestsInv /\ FilesInv /\ [Next]_vars
    => FilesInv'
<1> SUFFICES ASSUME TypeOK, OwnerInv, RecorderInv, RequestsInv, FilesInv, [Next]_vars
             PROVE  FilesInv'
  OBVIOUS
<1>1. CASE Hmi
  BY <1>1, HmiFiles
<1>2. CASE ~Hmi
  <2>1. UNCHANGED hmis
    BY <1>2, RecorderLeavesHmi DEF Next, Plug, Packet, Msc, MscCheck, MscBegin,
       MscEnd, Eject, EjectStore, Utils, UtilsConnection, UtilsPrepare, UtilsUnmount,
       UtilsExpose, UtilsReclaim, UtilsRemount, vars
  <2>2. CASE Give
    <3>1. CASE rec.cmd.live
      <4>1. InFlight(0).type = "share" /\ InFlight(0).live /\ 0 \in 0 .. Len(queue)
        BY <2>2, <3>1 DEF Give, RequestsInv, InFlight, TypeOK, TypeQueue
      <4>2. hmi.pc = "await" /\ hmi.goal \in {"auto", "share"}
        BY <4>1 DEF RequestsInv
      <4> QED BY <2>1, <4>2 DEF FilesInv, UsesFiles, hmis
    <3>2. CASE ~rec.cmd.live
      BY <2>1, <2>2, <3>2 DEF Give, FilesInv, UsesFiles, hmis
    <3> QED BY <3>1, <3>2
  <2>3. CASE ~Give
    <3>1. Leaving' => Leaving
      BY <2>3, OnlyGiveLeaves
    <3>2. Leaving' => late' = late
      BY <2>3, OnlyMountEnds
    <3> QED BY <2>1, <3>1, <3>2 DEF FilesInv, UsesFiles, hmis
  <2> QED BY <2>2, <2>3
<1> QED BY <1>1, <1>2

(* The file system stays under the HMI while it reads a log or saves the
   configuration past the recorder, from the claim to the end and through
   every answer it waits for, except when a request to share the flash is
   carried out that the HMI had given up on. *)
THEOREM HmiKeepsFileSystem == Spec => []HmiWorksMounted
<1>1. Init => OwnerInv /\ RecorderInv
  BY DEF Init, OwnerInv, NeverBoth, RecorderInv, Leaving
<1>2. Init => RequestsInv
  BY DEF Init, RequestsInv, InFlight, NoCommand, None
<1>3. Init => FilesInv
  BY DEF Init, FilesInv, UsesFiles
<1>4. FilesInv => HmiWorksMounted
  BY DEF FilesInv, UsesFiles, Leaving, HmiWorksMounted
<1>5. TypeOK /\ RequestsInv /\ [Next]_vars => RequestsInv'
  BY NextRequests
<1> QED BY <1>1, <1>2, <1>3, <1>4, <1>5, NextOwner, NextRecorder, NextFiles,
           TypeCorrect, PTL DEF Spec
=============================================================================
