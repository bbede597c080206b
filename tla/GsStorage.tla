----------------------------- MODULE GsStorage -----------------------------
(***************************************************************************)
(* Who owns the flash of the ground station: the firmware, through the     *)
(* FatFs file system, or the computer on the USB port, through raw         *)
(* sectors.  Four tasks move the ownership: Utils::update hands it over    *)
(* and takes it back, the USB task serves the computer, the recorder       *)
(* shares it and claims it back for flight samples, the HMI asks for both. *)
(* usbStorageState is a plain volatile: a check and the store that follows *)
(* it are two steps wherever another task may come between.                *)
(*                                                                         *)
(* The receiver is in SINGLE mode and stops logging at touchdown.  The     *)
(* screens are reduced to DATA and the rest (MENU).                        *)
(***************************************************************************)
EXTENDS Naturals, Sequences

CONSTANTS
  QueueDepth,    (* kQueueDepth: commands the recorder can have waiting.    *)
  MayTimeOut,    (* What the HMI wants when submitAndWait may run into its  *)
                 (* three seconds.                                          *)
  MayFail,       (* May a flash or file operation fail?                     *)
  Samples        (* The packets the radio delivers, by state of the flight. *)

ASSUME StorageAssumption ==
  /\ QueueDepth \in Nat \ {0}
  /\ MayTimeOut \subseteq {"auto", "share", "parse", "catalog", "catalog?"}
  /\ MayFail \in BOOLEAN
  /\ Samples \subseteq {"ready", "flight", "touchdown"}

Storage    == {"FirmwareOwned", "Preparing", "HostOwned", "Reclaiming", "Fault"}
Connection == {"Disconnected", "Active", "Suspended"}
Flying     == {"flight", "touchdown"}
Request    == {"share", "catalog", "sync", "finalize", "delete"}
Recording  == {"Idle", "Recording", "Finalizing", "Fault"}
None       == "none"

VARIABLES
  storage,   (* usbStorageState.                                            *)
  mounted,   (* filesystemMounted.                                          *)
  media,     (* mscReady: the computer is told that a medium is present.    *)
  conn,      (* usbConnectionState.                                         *)
  lock,      (* Holder of storageAccessMutex.                               *)
  late,      (* History: the flash is on its way to the computer and back   *)
             (* for a request to share it that nobody waits for any more.   *)
  utils,     (* Utils::update: where it is, previousState, currentState.    *)
  usb,       (* The USB task: where it is in a callback.                    *)
  rec,       (* Recorder::recordTask: where it is, and its command.         *)
  queue,     (* Its commands.  live: the HMI still waits for the answer     *)
             (* (a late one has a request number nobody waits for).         *)
  file,      (* fileCreated, armed; catalogCache, of which only the active  *)
             (* flags of its entries are kept.                              *)
  rstate,    (* RecorderStatus::state.                                      *)
  hmi,       (* The HMI: where it is, what for, and the screen.             *)
  answer,    (* The answer to the HMI's request.                            *)
  auto       (* automaticUsbSharePending; steady: usbPreviouslyConnected    *)
             (* with previousRecorderState = Idle; dataCatalog.             *)

disk  == << storage, mounted, media, lock, late >>
recs  == << rec, queue, file, rstate, answer >>
hmis  == << hmi, auto >>
vars  == << disk, conn, utils, usb, recs, hmis >>

Outcome == IF MayFail THEN BOOLEAN ELSE {TRUE}

Available_NotHost == storage \notin {"Preparing", "HostOwned"}

(* isFilesystemAvailable. *)
Available == storage = "FirmwareOwned" /\ mounted

(* On its way to the computer, or there. *)
Shared == storage \in {"Preparing", "HostOwned"}

-----------------------------------------------------------------------------
(* The cable and the computer. *)

Plug(c) ==
  /\ conn' = c
  /\ UNCHANGED << disk, utils, usb, recs, hmis >>

(* A callback of coreMscRead, coreMscWrite or msc_flush_cb looks at the
   owner, then waits up to 100 ms for the mutex, then touches sectors. *)
MscCheck ==
  /\ usb = "idle" /\ conn = "Active" /\ storage = "HostOwned"
  /\ usb' = "checked"
  /\ UNCHANGED << disk, conn, utils, recs, hmis >>

MscBegin ==
  /\ usb = "checked" /\ lock = None
  /\ usb' = "raw" /\ lock' = "usb"
  /\ UNCHANGED << storage, mounted, media, late, conn, utils, recs, hmis >>

MscEnd ==
  \/ /\ usb = "raw"
     /\ usb' = "idle" /\ lock' = None
     /\ UNCHANGED << storage, mounted, media, late, conn, utils, recs, hmis >>
  \/ /\ usb = "checked" /\ lock # None
     /\ usb' = "idle"
     /\ UNCHANGED << disk, conn, utils, recs, hmis >>

(* The computer ejects the drive: coreMscStartStop. *)
Eject ==
  /\ usb = "idle" /\ conn = "Active" /\ storage = "HostOwned"
  /\ usb' = "eject"
  /\ UNCHANGED << disk, conn, utils, recs, hmis >>

EjectStore ==
  /\ usb = "eject"
  /\ usb' = "idle" /\ storage' = "Reclaiming"
  /\ UNCHANGED << mounted, media, lock, late, conn, utils, recs, hmis >>

-----------------------------------------------------------------------------
(* Utils::update, five times a second. *)

UtilsAt(from, to) == utils.pc = from /\ utils' = [utils EXCEPT !.pc = to]

(* The connection as it is now, against the last iteration. *)
UtilsConnection ==
  /\ utils.pc = "top"
  /\ utils' = [pc |-> "prepare", prev |-> conn]
  /\ storage' =
       IF /\ conn = "Disconnected" /\ utils.prev # "Disconnected"
          /\ Shared
       THEN "Reclaiming" ELSE storage
  /\ UNCHANGED << mounted, media, lock, late, conn, usb, recs, hmis >>

MayExpose_Always(c) == TRUE

(* Only an active connection, as this iteration saw it, gets the drive. *)
MayExpose(c) == c = "Active"

(* The next iteration asks no more than whether there was a connection. *)
Remembered(c) == IF c = "Suspended" THEN "Active" ELSE c

UtilsPrepare ==
  /\ utils.pc = "prepare"
  /\ utils' = [utils EXCEPT !.pc =
       IF storage = "Preparing" /\ MayExpose(utils.prev)
       THEN "unmount" ELSE "reclaim", !.prev = Remembered(@)]
  /\ storage' = IF storage = "Preparing" /\ ~MayExpose(utils.prev)
                THEN "Reclaiming" ELSE storage
  /\ UNCHANGED << mounted, media, lock, late, conn, usb, recs, hmis >>

Unmounted == FALSE

(* fatfs.end(), under the mutex; filesystemMounted goes with it. *)
UtilsUnmount ==
  /\ UtilsAt("unmount", "expose") /\ lock = None
  /\ lock' = "utils"
  /\ mounted' = Unmounted
  /\ UNCHANGED << storage, media, late, conn, usb, recs, hmis >>

(* The store overwrites what became of usbStorageState since its check. *)
UtilsExpose(ok) ==
  /\ UtilsAt("expose", "reclaim")
  /\ storage' = IF ok THEN "HostOwned" ELSE "Reclaiming"
  /\ media' = (media \/ ok)
  /\ lock' = None
  /\ UNCHANGED << mounted, late, conn, usb, recs, hmis >>

MediaGone_Stays == media

MediaGone == FALSE

UtilsReclaim ==
  /\ utils.pc = "reclaim"
  /\ utils' = [utils EXCEPT !.pc =
       IF storage = "Reclaiming" THEN "remount" ELSE "top"]
  /\ media' = IF storage = "Reclaiming" THEN MediaGone ELSE media
  /\ UNCHANGED << storage, mounted, lock, late, conn, usb, recs, hmis >>

(* fatfs.begin(), under the mutex.  usbStorageState is not looked at again:
   a drive that was given away meanwhile is taken back. *)
UtilsRemount(synced, began) ==
  /\ UtilsAt("remount", "top") /\ lock = None
  /\ mounted' = (mounted \/ began)
  /\ storage' = IF synced /\ mounted' THEN "FirmwareOwned" ELSE "Fault"
  /\ late' = (late /\ ~mounted')
  /\ UNCHANGED << media, lock, conn, usb, recs, hmis >>

-----------------------------------------------------------------------------
(* The recorder.  Each command starts in the pc named for its work. *)

HasRoom == Len(queue) < QueueDepth

NoCommand == [type |-> None, live |-> FALSE]

(* A packet arrives; a full queue loses it and reports a fault. *)
Packet(kind) ==
  /\ IF HasRoom
     THEN /\ queue' = Append(queue, [type |-> kind, live |-> FALSE])
          /\ UNCHANGED rstate
     ELSE /\ rstate' = "Fault"
          /\ UNCHANGED queue
  /\ UNCHANGED << disk, conn, utils, usb, rec, file, answer, hmis >>

(* The record task is done with its command and answers it. *)
Done(result) ==
  /\ rec' = [pc |-> "wait", cmd |-> NoCommand]
  /\ answer' = IF rec.cmd.live THEN (IF result THEN "yes" ELSE "no") ELSE answer

Work(cmd) ==
  CASE cmd.type = "share"    -> "share"
    [] cmd.type = "catalog"  -> "scan"
    [] cmd.type = "finalize" -> "finalize"
    [] cmd.type = "delete"   -> "delete"
    [] cmd.type = "sync"     -> "sync"
    [] cmd.type \in Flying /\ file.armed      -> "check"
    [] cmd.type = "ready"   /\ ~file.armed     -> "arm"
    [] OTHER                                   -> "skip"

Take ==
  /\ rec.pc = "wait" /\ queue # << >>
  /\ rec' = [pc |-> Work(Head(queue)), cmd |-> Head(queue)]
  /\ queue' = Tail(queue)
  /\ UNCHANGED << disk, conn, utils, usb, file, rstate, answer, hmis >>

(* After a flight the recorder waits for a packet from the pad. *)
Arm ==
  /\ rec.pc \in {"arm", "skip"}
  /\ file' = [file EXCEPT !.armed = @ \/ rec.pc = "arm"]
  /\ Done(TRUE)
  /\ UNCHANGED << disk, conn, utils, usb, queue, rstate, hmis >>

RecGoes(from, to) == rec.pc = from /\ rec' = [rec EXCEPT !.pc = to]

(* A flight sample needs the file system: available, or claimed. *)
CheckAvailable ==
  /\ \/ Available /\ RecGoes("check", "write")
     \/ /\ ~Available
        /\ RecGoes("check", IF Shared THEN "store" ELSE "claim")
  /\ UNCHANGED << disk, conn, utils, usb, queue, file, rstate, answer, hmis >>

(* requestFirmwareStorage; its check was the step before. *)
RecStore ==
  /\ RecGoes("store", "claim")
  /\ storage' = "Reclaiming"
  /\ UNCHANGED << mounted, media, lock, late, conn, utils, usb, queue, file,
                  rstate, answer, hmis >>

(* claimFirmwareStorage succeeds, or gives up on a fault or after 3 s. *)
Claimed ==
  /\ Available /\ RecGoes("claim", "write")
  /\ UNCHANGED << disk, conn, utils, usb, queue, file, rstate, answer, hmis >>

ClaimFails ==
  /\ rec.pc = "claim" /\ ~Available
  /\ rstate' = "Fault"
  /\ Done(FALSE)
  /\ UNCHANGED << disk, conn, utils, usb, queue, file, hmis >>

(* writeSample, which creates the file first when there is none. *)
Write ==
  /\ rec.pc = "write"
  /\ \/ /\ file' = [file EXCEPT !.created = TRUE]
        /\ rstate' = IF file.created THEN rstate ELSE "Recording"
        /\ IF rec.cmd.type = "touchdown"
           THEN rec' = [rec EXCEPT !.pc = "finalize"] /\ UNCHANGED answer
           ELSE Done(TRUE)
     \/ /\ MayFail
        /\ rstate' = "Fault"
        /\ \E created \in {file.created, TRUE} :
             file' = [file EXCEPT !.created = created]
        /\ Done(FALSE)
  /\ UNCHANGED << disk, conn, utils, usb, queue, hmis >>

(* finalizeFile closes the file; after a failed sync it still counts as
   created. *)
Finalize ==
  /\ rec.pc = "finalize"
  /\ IF ~file.created
     THEN Done(FALSE) /\ UNCHANGED << file, rstate >>
     ELSE /\ rstate' = "Finalizing"
          /\ rec' = [rec EXCEPT !.pc = "close"]
          /\ UNCHANGED << file, answer >>
  /\ UNCHANGED << disk, conn, utils, usb, queue, hmis >>

Close(ok) ==
  /\ rec.pc = "close"
  /\ file'   = IF ok THEN [file EXCEPT !.created = FALSE, !.armed = FALSE]
               ELSE file
  /\ rstate' = IF ok THEN "Idle" ELSE "Fault"
  /\ Done(ok)
  /\ UNCHANGED << disk, conn, utils, usb, queue, hmis >>

(* scanCatalog: with an open log at least that one is in the list. *)
Scan(entries) ==
  /\ rec.pc = "scan"
  /\ file.created <=> TRUE \in entries
  /\ file' = [file EXCEPT !.cache = entries]
  /\ Done(TRUE)
  /\ UNCHANGED << disk, conn, utils, usb, queue, rstate, hmis >>

(* file.sync() of the open log. *)
Sync(ok) ==
  /\ rec.pc = "sync"
  /\ rstate' = IF file.created /\ ~ok THEN "Fault" ELSE rstate
  /\ Done(~file.created \/ ok)
  /\ UNCHANGED << disk, conn, utils, usb, queue, file, hmis >>

(* deleteFile. *)
Delete ==
  /\ rec.pc = "delete"
  /\ IF Available THEN rec' = [rec EXCEPT !.pc = "remove"] /\ UNCHANGED answer
                  ELSE Done(FALSE)
  /\ UNCHANGED << disk, conn, utils, usb, queue, file, rstate, hmis >>

Remove(ok) ==
  /\ rec.pc = "remove"
  /\ Done(ok)
  /\ UNCHANGED << disk, conn, utils, usb, queue, file, rstate, hmis >>

MayShare_AnyTime == TRUE

(* Only an idle recorder shares the flash. *)
MayShare == ~file.created /\ rstate = "Idle"

(* requestMassStorage: under the mutex, a check and a store. *)
Share ==
  /\ rec.pc = "share"
  /\ \/ /\ MayShare /\ lock = None
        /\ conn = "Active" /\ Available
        /\ lock' = "rec"
        /\ rec' = [rec EXCEPT !.pc = "give"]
        /\ UNCHANGED answer
     \/ /\ ~(MayShare /\ lock = None /\ conn = "Active" /\ Available)
        /\ Done(FALSE)
        /\ UNCHANGED lock
  /\ UNCHANGED << storage, mounted, media, late, conn, utils, usb, queue, file,
                  rstate, hmis >>

Give ==
  /\ rec.pc = "give"
  /\ storage' = "Preparing" /\ lock' = None
  /\ late' = ~rec.cmd.live
  /\ Done(TRUE)
  /\ UNCHANGED << mounted, media, conn, utils, usb, queue, file, rstate, hmis >>

-----------------------------------------------------------------------------
(* The HMI.  hmi.goal says what a claim or an answer is waited for. *)

HmiGoes(pc, goal) == hmi' = [hmi EXCEPT !.pc = pc, !.goal = goal]

(* submitAndWait; nothing is sent when the queue stays full for 250 ms. *)
Submit(goal, type, otherwise) ==
  \/ /\ HasRoom
     /\ queue' = Append(queue, [type |-> type, live |-> TRUE])
     /\ answer' = None
     /\ HmiGoes("await", goal)
  \/ /\ ~HasRoom
     /\ HmiGoes(otherwise, None)
     /\ UNCHANGED << queue, answer >>

(* updateAutomaticUsbStorage: is a share still to be asked for? *)
Pending ==
  /\ conn # "Disconnected"
  /\ rstate = "Idle"
  /\ ~auto.steady \/ auto.pending

(* Not more than two attempts a second: an iteration may leave it out. *)
HmiLoop(attempt) ==
  /\ hmi.pc = "loop"
  /\ auto' = [auto EXCEPT !.pending = Pending,
                          !.steady = conn # "Disconnected" /\ rstate = "Idle"]
  /\ IF attempt
     THEN /\ Pending /\ hmi.view # "DATA" /\ storage = "FirmwareOwned"
          /\ Submit("auto", "share", "keys")
     ELSE HmiGoes("keys", None) /\ UNCHANGED << queue, answer >>
  /\ UNCHANGED << disk, conn, utils, usb, rec, file, rstate >>

(* claimStorageForFirmware, up to the store of requestFirmwareStorage. *)
BeginClaim(goal) ==
  /\ HmiGoes(IF Shared THEN "store" ELSE "claim", goal)
  /\ auto' = [auto EXCEPT !.pending = FALSE]

(* No key, or one that changes nothing here. *)
NoKey ==
  /\ hmi.pc = "keys"
  /\ HmiGoes("loop", None)
  /\ UNCHANGED << disk, conn, utils, usb, recs, auto >>

(* The DATA screen: initData when it opens and after a log is left. *)
OpenData ==
  /\ hmi.pc = "keys"
  /\ hmi' = [pc |-> IF Shared THEN "store" ELSE "claim", goal |-> "catalog",
             view |-> "DATA"]
  /\ auto' = [auto EXCEPT !.pending = FALSE]
  /\ UNCHANGED << disk, conn, utils, usb, recs >>

(* The list is left behind (initData fills it again before it is used), and
   a computer that is connected is to get the drive again. *)
LeaveData ==
  /\ hmi.pc = "keys" /\ hmi.view = "DATA"
  /\ hmi' = [pc |-> "loop", goal |-> None, view |-> "MENU"]
  /\ auto' = [auto EXCEPT !.catalog = {}, !.pending = conn # "Disconnected"]
  /\ UNCHANGED << disk, conn, utils, usb, recs >>

(* openSelectedLog: an active one is synced by the recorder first. *)
OpenLog(active) ==
  /\ hmi.pc = "keys" /\ hmi.view = "DATA" /\ active \in auto.catalog
  /\ IF active
     THEN Submit("parse", "sync", "loop")
     ELSE HmiGoes("file", "parse") /\ UNCHANGED << queue, answer >>
  /\ UNCHANGED << disk, conn, utils, usb, rec, file, rstate, auto >>

(* The confirmed end of the active log, or deletion of another. *)
EndLog(active) ==
  /\ hmi.pc = "keys" /\ hmi.view = "DATA" /\ active \in auto.catalog
  /\ IF active \/ Available
     THEN Submit("catalog?", IF active THEN "finalize" ELSE "delete", "loop")
     ELSE HmiGoes("loop", None) /\ UNCHANGED << queue, answer >>
  /\ UNCHANGED << disk, conn, utils, usb, rec, file, rstate, auto >>

(* Leaving the settings or the calibration saves the configuration. *)
SaveConfig ==
  /\ hmi.pc = "keys" /\ hmi.view = "MENU"
  /\ BeginClaim("save")
  /\ UNCHANGED << disk, conn, utils, usb, recs >>

(* The USB Drive screen: share, or close what is shared. *)
OpenDrive ==
  /\ hmi.pc = "keys" /\ hmi.view = "MENU"
  /\ auto' = [auto EXCEPT !.pending = FALSE]
  /\ IF /\ storage \in {"FirmwareOwned", "Fault"}
        /\ conn # "Disconnected" /\ rstate = "Idle"
     THEN Submit("share", "share", "loop")
     ELSE HmiGoes("loop", None) /\ UNCHANGED << queue, answer >>
  /\ UNCHANGED << disk, conn, utils, usb, rec, file, rstate >>

CloseDrive ==
  /\ hmi.pc = "keys" /\ hmi.view = "MENU" /\ Shared
  /\ HmiGoes("store", "close")
  /\ UNCHANGED << disk, conn, utils, usb, recs, auto >>

HmiStore ==
  /\ hmi.pc = "store"
  /\ storage' = "Reclaiming"
  /\ IF hmi.goal = "close" THEN HmiGoes("loop", None)
                           ELSE HmiGoes("claim", hmi.goal)
  /\ UNCHANGED << mounted, media, lock, late, conn, utils, usb, recs, auto >>

HmiClaimed ==
  /\ hmi.pc = "claim" /\ Available
  /\ IF hmi.goal = "save"
     THEN HmiGoes("file", "save") /\ UNCHANGED << queue, answer >>
     ELSE Submit("catalog", "catalog", "loop")
  /\ auto' = IF hmi.goal = "catalog" /\ ~HasRoom
             THEN [auto EXCEPT !.catalog = {}] ELSE auto
  /\ UNCHANGED << disk, conn, utils, usb, rec, file, rstate >>

HmiClaimFails ==
  /\ hmi.pc = "claim" /\ ~Available
  /\ auto' = IF hmi.goal = "catalog" THEN [auto EXCEPT !.catalog = {}] ELSE auto
  /\ HmiGoes("loop", None)
  /\ UNCHANGED << disk, conn, utils, usb, recs >>

(* The HMI reads a log or writes the configuration by itself. *)
HmiFile ==
  /\ hmi.pc = "file"
  /\ auto' = IF hmi.goal = "save"
             THEN [auto EXCEPT !.pending = conn # "Disconnected"] ELSE auto
  /\ HmiGoes("loop", None)
  /\ UNCHANGED << disk, conn, utils, usb, recs >>

(* The HMI takes the answer a to what it asked for.  catalogCache is read
   here only, once after a scan, and forgotten. *)
Resume(a) ==
  CASE hmi.goal = "auto" ->
         /\ HmiGoes("keys", None)
         /\ auto' = [auto EXCEPT !.pending = @ /\ a = "no"]
    [] hmi.goal = "catalog" ->
         /\ HmiGoes("loop", None)
         /\ auto' = [auto EXCEPT !.catalog = IF a = "yes" THEN file.cache ELSE {}]
    [] hmi.goal = "catalog?" /\ a = "yes" ->
         BeginClaim("catalog")
    [] hmi.goal = "parse" /\ a = "yes" ->
         HmiGoes("file", "parse") /\ UNCHANGED auto
    [] OTHER ->
         HmiGoes("loop", None) /\ UNCHANGED auto

Answered ==
  /\ hmi.pc = "await" /\ answer # None
  /\ Resume(answer)
  /\ answer' = None
  /\ file' = [file EXCEPT !.cache = {}]
  /\ UNCHANGED << disk, conn, utils, usb, rec, queue, rstate >>

(* After three seconds the HMI goes on; its request stays queued. *)
GivesUp ==
  /\ hmi.pc = "await" /\ answer = None /\ hmi.goal \in MayTimeOut
  /\ Resume("no")
  /\ queue' = [i \in DOMAIN queue |-> [queue[i] EXCEPT !.live = FALSE]]
  /\ rec'   = [rec EXCEPT !.cmd.live = FALSE]
  /\ UNCHANGED << disk, conn, utils, usb, file, rstate, answer >>

-----------------------------------------------------------------------------
Init ==
  /\ storage = "FirmwareOwned" /\ mounted = TRUE /\ media = FALSE
  /\ late = FALSE
  /\ conn \in {"Disconnected", "Active"}
  /\ lock = None
  /\ utils = [pc |-> "top", prev |-> "Disconnected"]
  /\ usb = "idle"
  /\ rec = [pc |-> "wait", cmd |-> NoCommand] /\ queue = << >>
  /\ file = [created |-> FALSE, armed |-> TRUE, cache |-> {}]
  /\ rstate = "Idle" /\ answer = None
  /\ hmi = [pc |-> "loop", goal |-> None, view |-> "MENU"]
  /\ auto = [pending |-> FALSE, steady |-> FALSE, catalog |-> {}]

Msc   == MscCheck \/ MscBegin \/ MscEnd \/ Eject \/ EjectStore

Utils == \/ UtilsConnection \/ UtilsPrepare \/ UtilsUnmount \/ UtilsReclaim
         \/ \E ok \in Outcome : UtilsExpose(ok)
         \/ \E synced, began \in Outcome : UtilsRemount(synced, began)

Recorder == \/ Take \/ Arm \/ CheckAvailable \/ RecStore \/ Claimed \/ ClaimFails
            \/ Write \/ Finalize \/ Delete \/ Share \/ Give
            \/ \E ok \in Outcome : Close(ok) \/ Sync(ok) \/ Remove(ok)
            \/ \E entries \in SUBSET BOOLEAN : Scan(entries)

Keys == \/ NoKey \/ OpenData \/ LeaveData \/ SaveConfig \/ OpenDrive \/ CloseDrive
        \/ \E active \in BOOLEAN : OpenLog(active) \/ EndLog(active)

Hmi  == \/ HmiLoop(TRUE) \/ HmiLoop(FALSE) \/ Keys \/ HmiStore \/ HmiClaimed \/ HmiClaimFails \/ HmiFile
        \/ Answered \/ GivesUp

Next == \/ \E c \in Connection \ {conn} : Plug(c)
        \/ \E kind \in Samples : Packet(kind)
        \/ Msc \/ Utils \/ Recorder \/ Hmi

Spec == Init /\ [][Next]_vars

(* The tasks of the ground station share the processor, the USB task of
   TinyUSB is above the others.  Utils::update runs, and the others run at
   least until they have released the mutex. *)
Fairness == WF_vars(Utils) /\ WF_vars(MscEnd) /\ WF_vars(Give)

FairSpec == Spec /\ Fairness

-----------------------------------------------------------------------------
Command == [type : Request \union Samples \union {None}, live : BOOLEAN]

TypeDisk ==
  /\ storage \in Storage /\ mounted \in BOOLEAN /\ media \in BOOLEAN
  /\ lock \in {None, "utils", "usb", "rec"} /\ late \in BOOLEAN

TypeUsb ==
  /\ conn \in Connection
  /\ utils \in [pc : {"top", "prepare", "unmount", "expose", "reclaim", "remount"},
                prev : Connection]
  /\ usb \in {"idle", "checked", "raw", "eject"}

TypeRec ==
  /\ rec \in [pc : {"wait", "skip", "arm", "check", "store", "claim", "write",
                    "finalize", "close", "scan", "sync", "delete", "remove",
                    "share", "give"}, cmd : Command]
  /\ file \in [created : BOOLEAN, armed : BOOLEAN, cache : SUBSET BOOLEAN]
  /\ rstate \in Recording
  /\ answer \in {None, "yes", "no"}

TypeQueue == queue \in Seq(Command) /\ Len(queue) <= QueueDepth

HmiPc == {"loop", "keys", "store", "claim", "await", "file"}

Goal == {None, "auto", "share", "close", "save", "parse", "catalog", "catalog?"}

TypeHmi ==
  /\ hmi \in [pc : HmiPc, goal : Goal, view : {"MENU", "DATA"}]
  /\ auto \in [pending : BOOLEAN, steady : BOOLEAN, catalog : SUBSET BOOLEAN]

(* The state has its type, and the command queue its bound. *)
TypeOK == TypeDisk /\ TypeUsb /\ TypeRec /\ TypeQueue /\ TypeHmi

(* While the computer is told of a medium, the firmware has no file system
   on it: usb_msc.mediaPresent goes away before fatfs.begin, and a host that
   owns the sectors owns them alone. *)
NeverBoth == (media \/ storage = "HostOwned") => ~mounted

(* The recorder has a file system under it from the first byte it writes or
   the file it removes to the end of that work, and under a log that was
   created and not finalized all the time, also after a failed write. *)
RecorderWorksMounted ==
  (file.created \/ rec.pc \in {"write", "close", "remove"}) => mounted

(* The HMI, reading a log or saving the configuration past the recorder, has
   a file system under it until it is done.  Only one thing can take it away:
   a request to share the flash that the HMI has given up on after three
   seconds, and that the recorder carries out later all the same. *)
HmiWorksMounted == hmi.pc = "file" => mounted \/ late

(* A computer that is gone for good does not keep the flash: the firmware gets
   it back, or knows that it could not be mounted. *)
FlashComesBack ==
  <>[](conn = "Disconnected")
    => <>[](storage \in {"FirmwareOwned", "Fault"} /\ ~media)
=============================================================================
