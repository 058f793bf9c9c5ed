---------------------------- MODULE TesterUpdate ----------------------------
(***************************************************************************)
(* Mass production of a device: MP.execute (api/util/mp.py), run by one    *)
(* process per tester on a common host.                                    *)
(*                                                                         *)
(* A process loads the tester with its production firmware, runs the       *)
(* production tool, and loads the tester with the firmware of the SDK.     *)
(* The loader (MultiISP) of a directory reports in one SlotState.ini, so   *)
(* the directory is guarded by a file lock; a loaded tester leaves the bus *)
(* and comes back under any free drive number.  The production tool runs   *)
(* in a folder of the tester's port and leaves report files there.         *)
(***************************************************************************)
EXTENDS Integers, FiniteSets

CONSTANTS
  Testers,      \* the testers of the host; a process is named after its tester
  Port,         \* port_num of a tester
  Generation,   \* tester_generation
  Drives,       \* drive numbers
  MaxScans,     \* 60, scans for a tester that left the bus
  MaxRetries,   \* 4, retries of the production tool
  NONE

Options == {"TESTER_ISP", "TESTER_FW"}

(* Folders and records are named after the port alone: no two testers of a *)
(* host share it.                                                          *)
ASSUME UpdateAssumption ==
  /\ Port \in [Testers -> Nat]
  /\ \A t, u \in Testers : Port[t] = Port[u] => t = u
  /\ Generation \in [Testers -> STRING]
  /\ NONE \notin Drives /\ NONE \notin Testers
  /\ MaxScans \in Nat \ {0} /\ MaxRetries \in Nat

VARIABLES
  drive,        \* of a tester on the bus, the number it has; else NONE
  firmware,     \* what a tester runs
  lock,         \* per directory, the process that holds its file lock, or NONE
  slot_state,   \* per directory, the records of SlotState.ini
  reports,      \* per port, the report files of its folder
  pc,
  option,       \* of the load that is under way, or last was
  target_drive, \* tester_info.target_drive of the process, to which its SDK is bound
  scans,        \* scans made in vain
  retry_cnt,
  loaded,       \* history: what the process's last load came to
  mp_result     \* history: the report that was read last

worldVars   == <<drive, firmware>>
vars == <<worldVars, lock, slot_state, reports, pc, option, target_drive, scans, retry_cnt,
          loaded, mp_result>>

Directories == {Generation[t] : t \in Testers} \X Options
Ports == {Port[t] : t \in Testers}
IspDir(t) == <<Generation[t], option[t]>>

Goto(t, label) == pc' = [pc EXCEPT ![t] = label]

Released(t) == [d \in Directories |-> IF lock[d] = t THEN NONE ELSE lock[d]]

(* execute() is left: the lock, if it is held, and the locals.             *)
Leave(t, how) ==
  /\ Goto(t, how) /\ lock' = Released(t)
  /\ option' = [option EXCEPT ![t] = "TESTER_ISP"]
  /\ scans' = [scans EXCEPT ![t] = 0] /\ retry_cnt' = [retry_cnt EXCEPT ![t] = 0]
  /\ mp_result' = [mp_result EXCEPT ![t] = NONE]
  /\ UNCHANGED <<slot_state, reports>>

Raise(t) ==
  /\ Leave(t, "raised")
  /\ loaded' = [loaded EXCEPT ![t] = NONE]
  /\ UNCHANGED target_drive

-----------------------------------------------------------------------------
(* execute() is called; it begins with the production firmware.            *)
Call(t) ==
  /\ pc[t] \in {"idle", "returned", "raised"}
  /\ drive[t] # NONE
  /\ Goto(t, "update")
  /\ target_drive' = [target_drive EXCEPT ![t] = drive[t]]
  /\ loaded' = [loaded EXCEPT ![t] = NONE]
  /\ UNCHANGED <<worldVars, lock, slot_state, reports, option, scans, retry_cnt, mp_result>>

(* There is no folder with a loader for the generation and the firmware.   *)
LoaderNotFound(t) ==
  /\ pc[t] = "update"
  /\ Raise(t)
  /\ UNCHANGED worldVars

(* Lock taken, SlotState.ini removed, loader started: the tester is off    *)
(* the bus.                                                                *)
RemoveSlotState(t) == slot_state' = [slot_state EXCEPT ![IspDir(t)] = [p \in Ports |-> NONE]]

LockNotAsked(t) == TRUE
LockFree(t) == lock[IspDir(t)] = NONE

StartLoader(t) ==
  /\ pc[t] = "update" /\ LockFree(t)
  /\ lock' = [lock EXCEPT ![IspDir(t)] = t]
  /\ RemoveSlotState(t)
  /\ drive' = [drive EXCEPT ![t] = NONE]
  /\ loaded' = [loaded EXCEPT ![t] = NONE]
  /\ scans' = [scans EXCEPT ![t] = 0]
  /\ Goto(t, "load")
  /\ UNCHANGED <<firmware, reports, option, target_drive, retry_cnt, mp_result>>

LockWithoutTimeout(t) == FALSE

(* Thirty minutes without the lock.                                        *)
LockTimeout(t) ==
  /\ pc[t] = "update" /\ ~LockFree(t)
  /\ Raise(t)
  /\ UNCHANGED worldVars

(* The loader ends with the record Pass for its tester, or without.        *)
LoaderEnds(t, record) ==
  /\ pc[t] = "load"
  /\ slot_state' = [slot_state EXCEPT ![IspDir(t)][Port[t]] = record]
  /\ loaded' = [loaded EXCEPT ![t] = record]
  /\ firmware' = [firmware EXCEPT ![t] = IF record = "Pass" THEN option[t] ELSE "unknown"]
  /\ Goto(t, "check")
  /\ UNCHANGED <<drive, lock, reports, option, target_drive, scans, retry_cnt, mp_result>>

(* It runs into its timeout and is killed, or writes to stderr.            *)
LoaderFails(t) ==
  /\ pc[t] = "load"
  /\ Raise(t)
  /\ firmware' = [firmware EXCEPT ![t] = "unknown"]
  /\ UNCHANGED drive

(* The tester comes back on the bus.                                       *)
Reattach(t, d) ==
  /\ drive[t] = NONE /\ \A u \in Testers : drive[u] # d
  /\ drive' = [drive EXCEPT ![t] = d]
  /\ UNCHANGED <<firmware, lock, slot_state, reports, pc, option, target_drive, scans,
                 retry_cnt, loaded, mp_result>>

(* Without the scan after a failed load.                                   *)
CheckLoaderOnly(t) ==
  /\ pc[t] = "check"
  /\ IF slot_state[IspDir(t)][Port[t]] = "Pass"
     THEN Goto(t, "scan") /\ UNCHANGED <<lock, slot_state, reports, option, scans, retry_cnt,
                                         mp_result>>
     ELSE IF option[t] = "TESTER_FW" THEN Leave(t, "returned")
          ELSE /\ Goto(t, "folder") /\ lock' = Released(t)
               /\ UNCHANGED <<slot_state, reports, option, scans, retry_cnt, mp_result>>
  /\ UNCHANGED <<worldVars, target_drive, loaded>>

(* The record is read.  If it is not Pass the lock is left, and the scan   *)
(* for the tester is made all the same.                                    *)
CheckLoader(t) ==
  /\ pc[t] = "check"
  /\ Goto(t, "scan")
  /\ lock' = IF slot_state[IspDir(t)][Port[t]] = "Pass" THEN lock ELSE Released(t)
  /\ UNCHANGED <<worldVars, slot_state, reports, option, target_drive, scans, retry_cnt,
                 loaded, mp_result>>

(* A tester of that port and generation, wherever it is now.               *)
Found(t) == {u \in Testers : drive[u] # NONE /\ Port[u] = Port[t] /\ Generation[u] = Generation[t]}

Scan(t) ==
  /\ pc[t] = "scan"
  /\ \/ \E u \in Found(t) :
          /\ target_drive' = [target_drive EXCEPT ![t] = drive[u]]
          /\ UNCHANGED loaded
          /\ IF option[t] = "TESTER_FW" THEN Leave(t, "returned")
             ELSE /\ Goto(t, "folder") /\ lock' = Released(t)
                  /\ UNCHANGED <<slot_state, reports, option, scans, retry_cnt, mp_result>>
     \/ /\ Found(t) = {} /\ scans[t] + 1 < MaxScans
        /\ scans' = [scans EXCEPT ![t] = @ + 1]
        /\ UNCHANGED <<pc, lock, slot_state, reports, option, target_drive, retry_cnt, loaded,
                       mp_result>>
     \/ /\ Found(t) = {} /\ scans[t] + 1 >= MaxScans
        /\ Raise(t)
  /\ UNCHANGED worldVars

-----------------------------------------------------------------------------
(* The production tool. *)

(* The folder of the port is made anew; the tool, its files and a matching *)
(* parameter file are needed.                                              *)
KeepFolder(t) == UNCHANGED reports
EmptyFolder(t) == reports' = [reports EXCEPT ![Port[t]] = {}]

CreateFolder(t) ==
  /\ pc[t] = "folder"
  /\ EmptyFolder(t)
  /\ Goto(t, "mp")
  /\ UNCHANGED <<worldVars, lock, slot_state, option, target_drive, scans, retry_cnt, loaded,
                 mp_result>>

(* A copy is refused five times, or the tool or its parameters are missing.*)
FolderFails(t) ==
  /\ pc[t] = "folder"
  /\ Raise(t)
  /\ UNCHANGED worldVars

(* The tool runs on the drive it is given; older reports become old.       *)
StartTool(t) ==
  /\ pc[t] = "mp"
  /\ Goto(t, "producing")
  /\ reports' = [reports EXCEPT ![Port[t]] = {[r EXCEPT !.current = FALSE] : r \in @}]
  /\ UNCHANGED <<worldVars, lock, slot_state, option, target_drive, scans, retry_cnt, loaded,
                 mp_result>>

(* It ends with a report or without one, or fails: timeout, stderr.        *)
ToolEnds(t, result, failed) ==
  /\ pc[t] = "producing"
  /\ reports' = [reports EXCEPT ![Port[t]] =
       @ \cup {r \in {[by |-> t, result |-> result, current |-> TRUE]} : result # NONE}]
  /\ Goto(t, IF failed THEN "failed" ELSE "result")
  /\ UNCHANGED <<worldVars, lock, slot_state, option, target_drive, scans, retry_cnt, loaded,
                 mp_result>>

CheckResultOnly(t) ==
  /\ pc[t] = "result"
  /\ \/ /\ reports[Port[t]] = {}
        /\ Raise(t)
     \/ \E r \in reports[Port[t]] :
          /\ IF r.result = "PASS" THEN Leave(t, "returned") /\ UNCHANGED <<target_drive, loaded>>
             ELSE /\ Goto(t, "failed") /\ mp_result' = [mp_result EXCEPT ![t] = r]
                  /\ UNCHANGED <<option, lock, slot_state, reports, target_drive, scans,
                                 retry_cnt, loaded>>
  /\ UNCHANGED worldVars

(* The first report that is met decides; without any, execute() raises.    *)
CheckResult(t) ==
  /\ pc[t] = "result"
  /\ \/ /\ reports[Port[t]] = {}
        /\ Raise(t)
     \/ \E r \in reports[Port[t]] :
          /\ mp_result' = [mp_result EXCEPT ![t] = r]
          /\ IF r.result = "PASS"
             THEN Goto(t, "update") /\ option' = [option EXCEPT ![t] = "TESTER_FW"]
             ELSE Goto(t, "failed") /\ UNCHANGED option
          /\ UNCHANGED <<lock, slot_state, reports, target_drive, scans, retry_cnt, loaded>>
  /\ UNCHANGED worldVars

RetryOnceMore(t) ==
  /\ pc[t] = "failed"
  /\ IF retry_cnt[t] <= MaxRetries
     THEN /\ retry_cnt' = [retry_cnt EXCEPT ![t] = @ + 1]
          /\ EmptyFolder(t)
          /\ Goto(t, "mp")
          /\ UNCHANGED <<lock, slot_state, option, target_drive, scans, loaded, mp_result>>
     ELSE Raise(t)
  /\ UNCHANGED worldVars

(* The reports are deleted before the next attempt.                        *)
Retry(t) ==
  /\ pc[t] = "failed"
  /\ IF retry_cnt[t] < MaxRetries
     THEN /\ retry_cnt' = [retry_cnt EXCEPT ![t] = @ + 1]
          /\ EmptyFolder(t)
          /\ Goto(t, "mp")
          /\ UNCHANGED <<lock, slot_state, option, target_drive, scans, loaded, mp_result>>
     ELSE Raise(t)
  /\ UNCHANGED worldVars

-----------------------------------------------------------------------------
Init ==
  /\ drive \in [Testers -> Drives] /\ \A t, u \in Testers : drive[t] = drive[u] => t = u
  /\ firmware = [t \in Testers |-> "TESTER_FW"]
  /\ lock = [d \in Directories |-> NONE]
  /\ slot_state = [d \in Directories |-> [p \in Ports |-> NONE]]
  /\ reports = [p \in Ports |-> {}]
  /\ pc = [t \in Testers |-> "idle"]
  /\ option = [t \in Testers |-> "TESTER_ISP"]
  /\ target_drive = drive
  /\ scans = [t \in Testers |-> 0] /\ retry_cnt = [t \in Testers |-> 0]
  /\ loaded = [t \in Testers |-> NONE]
  /\ mp_result = [t \in Testers |-> NONE]

(* A step of execute(), or of a tool it waits for.                         *)
Step(t) ==
  \/ StartLoader(t) \/ LockTimeout(t)
  \/ (\E record \in {"Pass", NONE} : LoaderEnds(t, record)) \/ LoaderFails(t)
  \/ CheckLoader(t) \/ Scan(t)
  \/ CreateFolder(t) \/ FolderFails(t) \/ StartTool(t)
  \/ \E result \in {"PASS", "FAIL", NONE}, failed \in BOOLEAN : ToolEnds(t, result, failed)
  \/ CheckResult(t) \/ Retry(t)

Next ==
  \E t \in Testers : Call(t) \/ LoaderNotFound(t) \/ Step(t) \/ \E d \in Drives : Reattach(t, d)

(* Every step is code that runs on, or a wait with a timeout; calls, a     *)
(* missing folder and the return of a tester to the bus are not owed.      *)
Spec == Init /\ [][Next]_vars /\ \A t \in Testers : WF_vars(Step(t))

-----------------------------------------------------------------------------
(* Properties *)

InLoad == {"load", "check"}
Labels == {"idle", "update", "load", "check", "scan", "folder", "mp", "producing", "result",
           "failed", "returned", "raised"}

Report == [by : Testers, result : {"PASS", "FAIL"}, current : BOOLEAN]

(* Types.                                                                  *)
TypeOK ==
  /\ drive \in [Testers -> Drives \cup {NONE}]
  /\ firmware \in [Testers -> Options \cup {"unknown"}]
  /\ lock \in [Directories -> Testers \cup {NONE}]
  /\ slot_state \in [Directories -> [Ports -> {"Pass", NONE}]]
  /\ reports \in [Ports -> SUBSET Report]
  /\ pc \in [Testers -> Labels]
  /\ option \in [Testers -> Options]
  /\ target_drive \in [Testers -> Drives]
  /\ scans \in [Testers -> 0 .. MaxScans - 1]
  /\ retry_cnt \in [Testers -> 0 .. MaxRetries]
  /\ loaded \in [Testers -> {"Pass", NONE}]
  /\ mp_result \in [Testers -> Report \cup {NONE}]

(* What a process finds in SlotState.ini is what its own loader reported   *)
(* of its own run, although every process of the generation uses the file. *)
VerdictIsOwn ==
  \A t \in Testers : pc[t] = "check" => slot_state[IspDir(t)][Port[t]] = loaded[t]

(* The production tool runs on the process's own tester, and execute()     *)
(* returns with tester and SDK bound to it, whatever numbers the testers   *)
(* took when they came back and however the load ended.                    *)
DriveIsOwn ==
  \A t \in Testers : pc[t] \in {"folder", "mp", "producing", "result", "failed", "returned"} =>
    drive[t] # NONE /\ target_drive[t] = drive[t]

(* The verdict on a production run is that of the tool's last run for this *)
(* process, not of an earlier attempt or call nor of another process.      *)
ResultIsOwn ==
  \A t \in Testers :
    pc[t] = "update" /\ option[t] = "TESTER_FW" =>
      /\ mp_result[t] = [by |-> t, result |-> "PASS", current |-> TRUE]
      /\ mp_result[t] \in reports[Port[t]]

(* The tool meets the production firmware, and execute() returns with the  *)
(* firmware of the SDK, unless the loader reported that it failed.         *)
FirmwareAsLoaded ==
  \A t \in Testers :
    /\ pc[t] = "producing" => firmware[t] = "TESTER_ISP" \/ loaded[t] # "Pass"
    /\ pc[t] = "returned" => firmware[t] = "TESTER_FW" \/ loaded[t] # "Pass"

(* A call ends, also of a process that waits for the others' loads, whose  *)
(* tester never comes back, or whose tool always fails.                    *)
CallsEnd ==
  \A t \in Testers : pc[t] = "update" ~> pc[t] \in {"returned", "raised"}
=============================================================================
