----------------------------- MODULE FlashStore -----------------------------
(***************************************************************************)
(* What the flight computer keeps in its flash, and what is left of it     *)
(* when the power goes: the number of the last flight, the settings, and   *)
(* a log for each flight.                                                  *)
(*                                                                         *)
(* LittleFS commits: what is written to a file is in the flash, all of it  *)
(* at once, when the file is synced or closed, and is not when the power   *)
(* goes before that.  A file that was created and is still empty is read   *)
(* like one that is not there.  lfs_t is not thread-safe: the commands of  *)
(* the console that touch the flash are assumed to come while the Recorder *)
(* task waits for a command and has no log open.                           *)
(* Removing flight_counter by hand, which makes the numbers start again,   *)
(* and the commands that write raw pages are left out.                     *)
(***************************************************************************)
EXTENDS Naturals, Sequences, SequencesExt

CONSTANTS
  Firmware,      (* The values of CONFIG_VERSION of the programs flashed.    *)
  Values,        (* What the settings may be.                                *)
  Factory,       (* What they are in DEFAULT_CONFIG.                         *)
  SyncPeriod,    (* The recorder syncs after that many blocks: 32.           *)
  Capacity,      (* Blocks of logs for which the flash has room.             *)
  MaxFlights,    (* Bound: flights that are recorded.                        *)
  MaxBlocks,     (* Bound: blocks of one flight.                             *)
  Absent

ASSUME FlashAssumption ==
  /\ Firmware \subseteq Nat \ {0} /\ Factory \in Values
  /\ SyncPeriod \in Nat \ {0} /\ Capacity \in Nat
  /\ MaxFlights \in Nat /\ MaxBlocks \in Nat
  /\ Absent \notin Nat \cup [version : Nat, value : Values, user : BOOLEAN]

VARIABLES
  firmware,      (* The version that is flashed.                             *)
  mountable,     (* lfs_mount finds a file system.                           *)
  counter_file, config_file,     (* Their content, or Absent.                *)
  logs,          (* flights/flight_n: for each block the flight it is of.    *)
  boot,          (* Where the boot is, "run" after it.                       *)
  flight_counter, config,        (* In RAM.                                  *)
  non_user_cfg,  (* CATS_ERR_NON_USER_CFG is shown.                          *)
  formatting,    (* A command of the console formats the flash.              *)
  rec,           (* Where the Recorder task is.                              *)
  file,          (* current_flight_file: blocks, position, LFS_F_ERRED.      *)
  sync_counter,  (* Modulo SyncPeriod.                                       *)
  flights,       (* Flights recorded up to now.                              *)
  written,       (* The blocks that LittleFS has accepted, for each log.     *)
  whole,         (* Logs that were closed, and the flash was never full.     *)
  kept           (* The settings the user saved last; Absent when they are   *)
                 (* gone: removed, formatted, or replaced by the defaults of *)
                 (* another firmware.                                        *)

flashFiles == << mountable, counter_file, config_file, logs >>
settings   == << config, non_user_cfg >>
recorder   == << rec, file, sync_counter >>
history    == << flights, written, whole >>
flashVars  == << firmware, flashFiles, boot, flight_counter, settings,
                 formatting, recorder, history, kept >>

(* The flash after lfs_format: nothing is in it. *)
NoLogs == [n \in {} |-> << >>]

WithLog(dir, n, blocks) ==
  [m \in DOMAIN dir \cup {n} |-> IF m = n THEN blocks ELSE dir[m]]

Only(dir, S) == [n \in S |-> dir[n]]

NoFile == [blocks |-> << >>, pos |-> 0, erred |-> FALSE]

(* cc_defaults. *)
Default(user) == [version |-> firmware, value |-> Factory, user |-> user]

FlashInit ==
  /\ firmware \in Firmware
  /\ mountable = FALSE /\ counter_file = Absent /\ config_file = Absent
  /\ logs = NoLogs
  /\ boot = "mount"
  /\ flight_counter = 0
  /\ config = [version |-> 0, value |-> Factory, user |-> FALSE]
  /\ non_user_cfg = FALSE /\ formatting = FALSE
  /\ rec = "wait" /\ file = NoFile /\ sync_counter = 0
  /\ flights = 0 /\ written = NoLogs /\ whole = {} /\ kept = Absent

-----------------------------------------------------------------------------
(* The power, and the boot.                                                 *)

Emptied ==
  /\ counter_file' = Absent /\ config_file' = Absent /\ logs' = NoLogs
  /\ written' = NoLogs /\ whole' = {} /\ kept' = Absent
  /\ UNCHANGED flights

(* The power goes, or NVIC_SystemReset is called; perhaps another program is
   flashed.  A format that is interrupted leaves the old file system, none,
   or the new one. *)
PowerLoss ==
  /\ firmware' \in Firmware
  /\ boot' = "mount"
  /\ flight_counter' = 0
  /\ config' = [version |-> 0, value |-> Factory, user |-> FALSE]
  /\ non_user_cfg' = FALSE
  /\ formatting' = FALSE
  /\ rec' = "wait" /\ file' = NoFile /\ sync_counter' = 0
  /\ \/ UNCHANGED << flashFiles, history, kept >>
     \/ formatting /\ mountable' \in BOOLEAN /\ Emptied

(* init_lfs, up to the mount: what cannot be mounted is formatted. *)
Mount ==
  /\ boot = "mount"
  /\ boot' = "counter"
  /\ mountable' = TRUE
  /\ IF mountable
     THEN UNCHANGED << counter_file, config_file, logs, history, kept >>
     ELSE Emptied
  /\ UNCHANGED << firmware, flight_counter, settings, formatting, recorder >>

(* init_lfs, the rest: the counter is read, or a file with 0 made. *)
LoadCounter ==
  /\ boot = "counter"
  /\ boot' = "config"
  /\ IF counter_file = Absent
     THEN counter_file' = flight_counter /\ UNCHANGED flight_counter
     ELSE flight_counter' = counter_file /\ UNCHANGED counter_file
  /\ UNCHANGED << firmware, mountable, config_file, logs, settings,
                  formatting, recorder, history, kept >>

Outdated_Never(c) == FALSE

Outdated(c) == c.version # firmware

(* cc_load: defaults for want of a configuration of this version. *)
LoadConfig ==
  LET read == IF config_file = Absent THEN config ELSE config_file
  IN  /\ boot = "config"
      /\ IF Outdated(read)
         THEN /\ config' = Default(FALSE) /\ boot' = "save"
              /\ UNCHANGED non_user_cfg
         ELSE /\ config' = read /\ boot' = "run"
              /\ non_user_cfg' = ~ read.user
      /\ UNCHANGED << firmware, flashFiles, flight_counter, formatting,
                      recorder, history, kept >>

(* ... which are saved before the error is set. *)
SaveDefaults ==
  /\ boot = "save"
  /\ config_file' = config /\ kept' = Absent
  /\ boot' = "run"
  /\ non_user_cfg' = ~ config.user
  /\ UNCHANGED << firmware, mountable, counter_file, logs, flight_counter,
                  config, formatting, recorder, history >>

-----------------------------------------------------------------------------
(* The console.                                                             *)

(* set NAME = VALUE, and defaults. *)
Change ==
  /\ boot = "run" /\ ~ formatting
  /\ \/ \E v \in Values : config' = [config EXCEPT !.value = v, !.user = TRUE]
     \/ config' = Default(TRUE)
  /\ UNCHANGED << firmware, flashFiles, boot, flight_counter, non_user_cfg,
                  formatting, recorder, history, kept >>

(* A command that touches the flash may be given. *)
ConsoleOwnsFlash == boot = "run" /\ rec = "wait" /\ ~ formatting

Save ==
  /\ ConsoleOwnsFlash
  /\ config_file' = config /\ kept' = config
  /\ UNCHANGED << firmware, mountable, counter_file, logs, boot,
                  flight_counter, settings, formatting, recorder, history >>

RemoveConfig ==
  /\ ConsoleOwnsFlash
  /\ config_file' = Absent /\ kept' = Absent
  /\ UNCHANGED << firmware, mountable, counter_file, logs, boot,
                  flight_counter, settings, formatting, recorder, history >>

RemoveLog(n) ==
  /\ ConsoleOwnsFlash
  /\ logs'    = Only(logs, DOMAIN logs \ {n})
  /\ written' = Only(written, DOMAIN logs \ {n})
  /\ whole'   = whole \ {n}
  /\ UNCHANGED << firmware, mountable, counter_file, config_file, boot,
                  flight_counter, settings, formatting, recorder, flights,
                  kept >>

(* lfs_format and flash_erase, which take a while. *)
FormatBegin ==
  /\ ConsoleOwnsFlash
  /\ formatting' = TRUE
  /\ UNCHANGED << firmware, flashFiles, boot, flight_counter, settings,
                  recorder, history, kept >>

FormatEnd ==
  /\ formatting
  /\ formatting' = FALSE
  /\ mountable' = TRUE /\ Emptied
  /\ flight_counter' = 0
  /\ UNCHANGED << firmware, boot, settings, recorder >>

-----------------------------------------------------------------------------
(* The Recorder task.                                                       *)

(* REC_CMD_WRITE. *)
StartFlight ==
  /\ ConsoleOwnsFlash
  /\ flights < MaxFlights
  /\ flights' = flights + 1
  /\ flight_counter' = flight_counter + 1
  /\ rec' = "counter"
  /\ UNCHANGED << firmware, flashFiles, boot, settings, formatting, file,
                  sync_counter, written, whole, kept >>

CounterToStore_Stale == counter_file

CounterToStore == flight_counter

StoreCounter ==
  /\ rec = "counter"
  /\ counter_file' = CounterToStore
  /\ rec' = "open"
  /\ UNCHANGED << firmware, mountable, config_file, logs, boot,
                  flight_counter, settings, formatting, file, sync_counter,
                  history, kept >>

(* The log is created, but not truncated if it is there. *)
OpenLog ==
  LET old == IF flight_counter \in DOMAIN logs THEN logs[flight_counter]
                                               ELSE << >>
  IN  /\ rec = "open"
      /\ logs' = WithLog(logs, flight_counter, old)
      /\ written' = WithLog(written, flight_counter, << >>)
      /\ file' = [NoFile EXCEPT !.blocks = old]
      /\ sync_counter' = 0
      /\ rec' = "write"
      /\ UNCHANGED << firmware, mountable, counter_file, config_file, boot,
                      flight_counter, settings, formatting, flights, whole,
                      kept >>

(* Blocks that are in use, those of the open log that are not synced too. *)
BlocksOf(dir) == FoldFunction(LAMBDA blocks, sum : sum + Len(blocks), 0, dir)

InUse ==
  BlocksOf(Only(logs, DOMAIN logs \ {flight_counter})) + Len(file.blocks)

(* lfs_file_write takes the block, or there is no room for it: then no sync
   and no close commits anything, until a write succeeds. *)
WriteBlock ==
  /\ rec = "write" /\ file.pos < MaxBlocks
  /\ IF InUse < Capacity
     THEN /\ file' = [blocks |-> SubSeq(file.blocks, 1, file.pos)
                                   \o << flights >>
                                   \o SubSeq(file.blocks, file.pos + 2,
                                             Len(file.blocks)),
                      pos |-> file.pos + 1, erred |-> FALSE]
          /\ written' = [written EXCEPT ![flight_counter] =
                           Append(@, flights)]
     ELSE /\ file' = [file EXCEPT !.erred = TRUE]
          /\ UNCHANGED written
  /\ sync_counter' = (sync_counter + 1) % SyncPeriod
  /\ rec' = "check"
  /\ UNCHANGED << firmware, flashFiles, boot, flight_counter, settings,
                  formatting, flights, whole, kept >>

Synced ==
  IF file.erred THEN logs ELSE WithLog(logs, flight_counter, file.blocks)

SyncDue_Never == FALSE

SyncDue == sync_counter = 0

(* The sync that is due; one more if there is a command. *)
SyncIfDue ==
  /\ rec = "check"
  /\ rec' \in {"write", "stop"}
  /\ logs' = IF SyncDue \/ rec' = "stop" THEN Synced ELSE logs
  /\ UNCHANGED << firmware, mountable, counter_file, config_file, boot,
                  flight_counter, settings, formatting, file, sync_counter,
                  history, kept >>

(* REC_CMD_WRITE_STOP: the log is closed, which syncs it.  *)
CloseLog ==
  /\ rec = "stop"
  /\ rec' = "wait"
  /\ logs' = Synced
  /\ whole' = IF file.erred THEN whole ELSE whole \cup {flight_counter}
  /\ file' = NoFile
  /\ UNCHANGED << firmware, mountable, counter_file, config_file, boot,
                  flight_counter, settings, formatting, sync_counter,
                  flights, written, kept >>

-----------------------------------------------------------------------------
Boot == Mount \/ LoadCounter \/ LoadConfig \/ SaveDefaults

Console ==
  \/ Change \/ Save \/ RemoveConfig \/ FormatBegin \/ FormatEnd
  \/ \E n \in DOMAIN logs : RemoveLog(n)

RecorderTask ==
  StartFlight \/ StoreCounter \/ OpenLog \/ WriteBlock \/ SyncIfDue \/ CloseLog

FlashNext == Boot \/ Console \/ RecorderTask \/ PowerLoss

FlashSpec == FlashInit /\ [][FlashNext]_flashVars

-----------------------------------------------------------------------------
Archive == INSTANCE LogArchive WITH
  Flight <- 1 .. MaxFlights, logs <- logs

(* No log is overwritten and none is given a number that is in use or lower
   than one in use, although the counter and the log are two files and the
   power may go between any two commits: of init_lfs, of the Recorder task
   and of the console. *)
LogsAreKept == Archive!Spec

(* A log on the flash is the beginning of what was recorded.  At most the
   blocks of one sync period are missing at its end, and none if the log was
   closed before the flash was full. *)
OnlyTheTailIsLost ==
  /\ \A n \in DOMAIN logs :
       /\ IsPrefix(logs[n], written[n])
       /\ Len(written[n]) - Len(logs[n]) <= SyncPeriod
  /\ \A n \in whole : logs[n] = written[n]

(* A boot ends with the settings that the user saved last under a firmware
   of this version, unless they are gone; with the defaults otherwise, and
   then with an error: whenever the power went, also in the middle of an
   earlier boot, and whatever firmware ran in between. *)
BootFindsSettings ==
  [][boot # "run" /\ boot' = "run" =>
       IF kept' # Absent /\ kept'.version = firmware
       THEN config' = kept' /\ (non_user_cfg' <=> ~ kept'.user)
       ELSE config' = Default(FALSE) /\ non_user_cfg']_flashVars
=============================================================================
