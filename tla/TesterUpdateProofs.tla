------------------------- MODULE TesterUpdateProofs -------------------------
(***************************************************************************)
(* Theorems about MP.execute, for any testers, drives and bounds.          *)
(***************************************************************************)
EXTENDS TesterUpdate, TLAPS

USE UpdateAssumption DEF Options, Labels, worldVars

ToolLabels == {"folder", "mp", "producing", "result", "failed"}

(* The file lock is held from the removal of SlotState.ini to the reading  *)
(* of the record, which until then is of the process's own run.            *)
LoadIsOwn(t) ==
  /\ pc[t] \in InLoad => lock[IspDir(t)] = t
  /\ pc[t] = "check" => slot_state[IspDir(t)][Port[t]] = loaded[t]

DriveKnown(t) ==
  pc[t] \in ToolLabels \cup {"returned"} => drive[t] # NONE /\ target_drive[t] = drive[t]

(* The folder holds reports of its own tester only, none before the tool   *)
(* runs, and only that of the last run while the result is looked for.     *)
FolderIsOwn(t) ==
  /\ \A r \in reports[Port[t]] : r.by = t
  /\ pc[t] \in {"mp", "producing"} => reports[Port[t]] = {}
  /\ pc[t] = "result" => \A r \in reports[Port[t]] : r.current = TRUE
  /\ pc[t] \in ToolLabels \cup {"idle", "returned", "raised"} => option[t] = "TESTER_ISP"
  /\ pc[t] = "update" /\ option[t] = "TESTER_FW" =>
       /\ mp_result[t] = [by |-> t, result |-> "PASS", current |-> TRUE]
       /\ mp_result[t] \in reports[Port[t]]

Own(t) == LoadIsOwn(t) /\ DriveKnown(t) /\ FolderIsOwn(t)

IInv == TypeOK /\ \A t \in Testers : Own(t)

LEMMA Initially == Init => IInv
<1> SUFFICES ASSUME Init PROVE IInv
  OBVIOUS
<1>1. \A t \in Testers : pc[t] = "idle" /\ option[t] = "TESTER_ISP"
  BY DEF Init
<1>2. \A t \in Testers : reports[Port[t]] = {}
  BY DEF Init, Ports
<1>3. TypeOK
  BY DEF Init, TypeOK
<1> QED BY <1>1, <1>2, <1>3 DEF IInv, Own, LoadIsOwn, DriveKnown, FolderIsOwn, InLoad, ToolLabels

LEMMA DirTypes ==
  ASSUME TypeOK, NEW t \in Testers
  PROVE  IspDir(t) \in Directories /\ Port[t] \in Ports
  BY DEF TypeOK, IspDir, Directories, Ports

(* The lock is left by its holder alone.                                   *)
LEMMA ReleaseFacts ==
  ASSUME TypeOK, NEW t \in Testers
  PROVE  /\ Released(t) \in [Directories -> Testers \cup {NONE}]
         /\ \A u \in Testers : u # t =>
              \A d \in Directories : lock[d] = u => Released(t)[d] = u
  BY DEF TypeOK, Released

(* What the other processes keep when a process takes a step.              *)
Untouched(u) ==
  /\ pc'[u] = pc[u] /\ option'[u] = option[u] /\ mp_result'[u] = mp_result[u]
  /\ loaded'[u] = loaded[u] /\ target_drive'[u] = target_drive[u] /\ drive'[u] = drive[u]
  /\ reports'[Port[u]] = reports[Port[u]]
  /\ pc[u] \in InLoad =>
       lock'[IspDir(u)] = u /\ slot_state'[IspDir(u)][Port[u]] = slot_state[IspDir(u)][Port[u]]

LEMMA Frame ==
  ASSUME NEW u \in Testers, Own(u), Untouched(u)
  PROVE  Own(u)'
<1>1. IspDir(u)' = IspDir(u)
  BY DEF IspDir, Untouched
<1>2. LoadIsOwn(u)'
  BY <1>1 DEF Own, LoadIsOwn, Untouched, InLoad
<1>3. DriveKnown(u)' /\ FolderIsOwn(u)'
  BY DEF Own, DriveKnown, FolderIsOwn, Untouched
<1> QED BY <1>2, <1>3 DEF Own

LEMMA OthersKeep ==
  ASSUME IInv, NEW t \in Testers, TypeOK', Own(t)',
         \A u \in Testers \ {t} : Untouched(u)
  PROVE  IInv'
  BY Frame DEF IInv

(* Leaving execute() keeps the invariant.                                  *)
LEMMA LeaveStep ==
  ASSUME IInv, NEW t \in Testers, NEW how \in {"returned", "raised"}, Leave(t, how),
         drive' = drive,
         firmware' \in [Testers -> Options \cup {"unknown"}],
         loaded' \in [Testers -> {"Pass", NONE}],
         \A u \in Testers \ {t} : loaded'[u] = loaded[u],
         target_drive' \in [Testers -> Drives],
         \A u \in Testers \ {t} : target_drive'[u] = target_drive[u],
         how = "returned" => drive[t] # NONE /\ target_drive'[t] = drive[t]
  PROVE  IInv'
<1>0. TypeOK
  BY DEF IInv
<1>1. /\ pc' = [pc EXCEPT ![t] = how] /\ lock' = Released(t)
      /\ option' = [option EXCEPT ![t] = "TESTER_ISP"]
      /\ scans' = [scans EXCEPT ![t] = 0] /\ retry_cnt' = [retry_cnt EXCEPT ![t] = 0]
      /\ mp_result' = [mp_result EXCEPT ![t] = NONE]
      /\ UNCHANGED <<slot_state, reports>>
  BY DEF Leave, Goto
<1>2. TypeOK'
  <2>1. lock' \in [Directories -> Testers \cup {NONE}]
    BY <1>0, <1>1, ReleaseFacts
  <2>2. pc' \in [Testers -> Labels] /\ option' \in [Testers -> Options]
    BY <1>0, <1>1 DEF TypeOK
  <2>3. scans' \in [Testers -> 0 .. MaxScans - 1] /\ retry_cnt' \in [Testers -> 0 .. MaxRetries]
    BY <1>0, <1>1 DEF TypeOK
  <2>4. mp_result' \in [Testers -> Report \cup {NONE}]
    BY <1>0, <1>1 DEF TypeOK
  <2> QED BY <1>0, <1>1, <2>1, <2>2, <2>3, <2>4 DEF TypeOK
<1>3. /\ pc'[t] = how /\ option'[t] = "TESTER_ISP"
      /\ \A u \in Testers \ {t} : pc'[u] = pc[u] /\ option'[u] = option[u] /\ mp_result'[u] = mp_result[u]
  BY <1>0, <1>1 DEF TypeOK
<1>4. Own(t)'
  BY <1>1, <1>3 DEF IInv, Own, LoadIsOwn, DriveKnown, FolderIsOwn, ToolLabels, InLoad
<1>5. ASSUME NEW u \in Testers \ {t}
      PROVE  Untouched(u)
  <2>1. pc[u] \in InLoad => lock'[IspDir(u)] = u
    BY <1>0, <1>1, ReleaseFacts, DirTypes DEF IInv, Own, LoadIsOwn
  <2> QED BY <1>1, <1>3, <2>1 DEF Untouched
<1> QED BY <1>2, <1>4, <1>5, OthersKeep

LEMMA RaiseStep ==
  ASSUME IInv, NEW t \in Testers, Raise(t), drive' = drive,
         firmware' \in [Testers -> Options \cup {"unknown"}]
  PROVE  IInv'
<1>1. /\ Leave(t, "raised") /\ target_drive' = target_drive
      /\ loaded' = [loaded EXCEPT ![t] = NONE]
  BY DEF Raise
<1>2. /\ loaded' \in [Testers -> {"Pass", NONE}]
      /\ \A u \in Testers \ {t} : loaded'[u] = loaded[u]
      /\ target_drive' \in [Testers -> Drives]
  BY <1>1 DEF IInv, TypeOK
<1> QED BY <1>1, <1>2, LeaveStep

(* A step that touches the lock of no other process, no SlotState.ini and  *)
(* no folder.                                                              *)
LEMMA LocalStep ==
  ASSUME IInv, NEW t \in Testers, TypeOK', Own(t)',
         \A u \in Testers \ {t} :
           /\ pc'[u] = pc[u] /\ option'[u] = option[u] /\ mp_result'[u] = mp_result[u]
           /\ loaded'[u] = loaded[u] /\ target_drive'[u] = target_drive[u] /\ drive'[u] = drive[u]
           /\ reports'[Port[u]] = reports[Port[u]],
         lock' \in {lock, Released(t)}, slot_state' = slot_state
  PROVE  IInv'
<1>1. ASSUME NEW u \in Testers \ {t}
      PROVE  Untouched(u)
  <2>1. pc[u] \in InLoad => lock'[IspDir(u)] = u
    BY ReleaseFacts, DirTypes DEF IInv, Own, LoadIsOwn
  <2> QED BY <2>1 DEF Untouched
<1> QED BY <1>1, OthersKeep

-----------------------------------------------------------------------------
(* One lemma per action. *)

LEMMA CallStep ==
  ASSUME IInv, NEW t \in Testers, Call(t)
  PROVE  IInv'
<1>0. TypeOK /\ Own(t)
  BY DEF IInv
<1>1. /\ pc' = [pc EXCEPT ![t] = "update"] /\ drive[t] # NONE
      /\ target_drive' = [target_drive EXCEPT ![t] = drive[t]]
      /\ loaded' = [loaded EXCEPT ![t] = NONE]
      /\ UNCHANGED <<worldVars, lock, slot_state, reports, option, scans, retry_cnt, mp_result>>
      /\ pc[t] \in {"idle", "returned", "raised"} /\ option[t] = "TESTER_ISP"
  BY <1>0 DEF Call, Goto, Own, FolderIsOwn
<1>2. TypeOK'
  BY <1>0, <1>1 DEF TypeOK
<1>3. pc'[t] = "update" /\ option'[t] = "TESTER_ISP"
  BY <1>0, <1>1 DEF TypeOK
<1>4. Own(t)'
  BY <1>0, <1>1, <1>3 DEF Own, LoadIsOwn, DriveKnown, FolderIsOwn, ToolLabels, InLoad
<1> QED BY <1>0, <1>1, <1>2, <1>4, LocalStep DEF TypeOK

LEMMA StartLoaderStep ==
  ASSUME IInv, NEW t \in Testers, StartLoader(t)
  PROVE  IInv'
<1>0. TypeOK /\ Own(t) /\ IspDir(t) \in Directories
  BY DirTypes DEF IInv
<1>1. /\ pc[t] = "update" /\ lock[IspDir(t)] = NONE
      /\ lock' = [lock EXCEPT ![IspDir(t)] = t]
      /\ slot_state' = [slot_state EXCEPT ![IspDir(t)] = [p \in Ports |-> NONE]]
      /\ drive' = [drive EXCEPT ![t] = NONE]
      /\ loaded' = [loaded EXCEPT ![t] = NONE]
      /\ scans' = [scans EXCEPT ![t] = 0]
      /\ pc' = [pc EXCEPT ![t] = "load"]
      /\ UNCHANGED <<firmware, reports, option, target_drive, retry_cnt, mp_result>>
  BY DEF StartLoader, Goto, LockFree, RemoveSlotState
<1>2. TypeOK'
  <2>1. lock' \in [Directories -> Testers \cup {NONE}]
    BY <1>0, <1>1 DEF TypeOK
  <2>2. slot_state' \in [Directories -> [Ports -> {"Pass", NONE}]]
    <3>1. [p \in Ports |-> NONE] \in [Ports -> {"Pass", NONE}]
      OBVIOUS
    <3> QED BY <1>0, <1>1, <3>1 DEF TypeOK
  <2>3. drive' \in [Testers -> Drives \cup {NONE}] /\ loaded' \in [Testers -> {"Pass", NONE}]
    BY <1>0, <1>1 DEF TypeOK
  <2>4. scans' \in [Testers -> 0 .. MaxScans - 1] /\ pc' \in [Testers -> Labels]
    BY <1>0, <1>1 DEF TypeOK
  <2> QED BY <1>0, <1>1, <2>1, <2>2, <2>3, <2>4 DEF TypeOK
<1>3. pc'[t] = "load" /\ IspDir(t)' = IspDir(t) /\ lock'[IspDir(t)] = t
  BY <1>0, <1>1 DEF TypeOK, IspDir
<1>4. Own(t)'
  BY <1>0, <1>1, <1>3 DEF Own, LoadIsOwn, DriveKnown, FolderIsOwn, ToolLabels, InLoad
<1>5. ASSUME NEW u \in Testers \ {t}
      PROVE  Untouched(u)
  <2>1. CASE pc[u] \in InLoad
    <3>1. lock[IspDir(u)] = u /\ IspDir(u) \in Directories
      BY <1>0, <2>1, DirTypes DEF IInv, Own, LoadIsOwn
    <3>2. IspDir(u) # IspDir(t)
      BY <1>1, <3>1
    <3>3. lock'[IspDir(u)] = u /\ slot_state'[IspDir(u)] = slot_state[IspDir(u)]
      BY <1>0, <1>1, <3>1, <3>2 DEF TypeOK
    <3> QED BY <1>0, <1>1, <3>3 DEF Untouched, TypeOK
  <2>2. CASE pc[u] \notin InLoad
    BY <1>0, <1>1, <2>2 DEF Untouched, TypeOK
  <2> QED BY <2>1, <2>2
<1> QED BY <1>2, <1>4, <1>5, OthersKeep

LEMMA LoaderNotFoundStep ==
  ASSUME IInv, NEW t \in Testers, LoaderNotFound(t)
  PROVE  IInv'
  BY RaiseStep DEF LoaderNotFound, IInv, TypeOK

LEMMA LockTimeoutStep ==
  ASSUME IInv, NEW t \in Testers, LockTimeout(t)
  PROVE  IInv'
  BY RaiseStep DEF LockTimeout, IInv, TypeOK

LEMMA LoaderEndsStep ==
  ASSUME IInv, NEW t \in Testers, NEW record \in {"Pass", NONE}, LoaderEnds(t, record)
  PROVE  IInv'
<1>0. TypeOK /\ Own(t) /\ IspDir(t) \in Directories /\ Port[t] \in Ports
  BY DirTypes DEF IInv
<1> DEFINE records == [slot_state[IspDir(t)] EXCEPT ![Port[t]] = record]
<1>1. /\ pc[t] = "load"
      /\ slot_state' = [slot_state EXCEPT ![IspDir(t)] = records]
      /\ loaded' = [loaded EXCEPT ![t] = record]
      /\ firmware' = [firmware EXCEPT ![t] = IF record = "Pass" THEN option[t] ELSE "unknown"]
      /\ pc' = [pc EXCEPT ![t] = "check"]
      /\ UNCHANGED <<drive, lock, reports, option, target_drive, scans, retry_cnt, mp_result>>
  BY DEF LoaderEnds, Goto
<1>a. records \in [Ports -> {"Pass", NONE}] /\ records[Port[t]] = record
  BY <1>0 DEF TypeOK
<1> HIDE DEF records
<1>2. TypeOK'
  <2>1. slot_state' \in [Directories -> [Ports -> {"Pass", NONE}]]
    BY <1>0, <1>1, <1>a DEF TypeOK
  <2>2. firmware' \in [Testers -> Options \cup {"unknown"}]
    BY <1>0, <1>1 DEF TypeOK
  <2>3. loaded' \in [Testers -> {"Pass", NONE}] /\ pc' \in [Testers -> Labels]
    BY <1>0, <1>1 DEF TypeOK
  <2> QED BY <1>0, <1>1, <2>1, <2>2, <2>3 DEF TypeOK
<1>3. /\ pc'[t] = "check" /\ loaded'[t] = record
      /\ IspDir(t)' = IspDir(t) /\ slot_state'[IspDir(t)][Port[t]] = record
  BY <1>0, <1>1, <1>a DEF TypeOK, IspDir
<1>4. Own(t)'
  BY <1>0, <1>1, <1>3 DEF Own, LoadIsOwn, DriveKnown, FolderIsOwn, ToolLabels, InLoad
<1>5. ASSUME NEW u \in Testers \ {t}
      PROVE  Untouched(u)
  <2>1. CASE pc[u] \in InLoad
    <3>1. lock[IspDir(u)] = u /\ IspDir(u) \in Directories
      BY <1>0, <2>1, DirTypes DEF IInv, Own, LoadIsOwn
    <3>2. IspDir(u) # IspDir(t)
      BY <1>0, <1>1, <3>1 DEF Own, LoadIsOwn, InLoad
    <3>3. slot_state'[IspDir(u)] = slot_state[IspDir(u)]
      BY <1>0, <1>1, <3>1, <3>2 DEF TypeOK
    <3> QED BY <1>0, <1>1, <3>1, <3>3 DEF Untouched, TypeOK
  <2>2. CASE pc[u] \notin InLoad
    BY <1>0, <1>1, <2>2 DEF Untouched, TypeOK
  <2> QED BY <2>1, <2>2
<1> QED BY <1>2, <1>4, <1>5, OthersKeep

LEMMA LoaderFailsStep ==
  ASSUME IInv, NEW t \in Testers, LoaderFails(t)
  PROVE  IInv'
<1>1. Raise(t) /\ drive' = drive /\ firmware' = [firmware EXCEPT ![t] = "unknown"]
  BY DEF LoaderFails
<1>2. firmware' \in [Testers -> Options \cup {"unknown"}]
  BY <1>1 DEF IInv, TypeOK
<1> QED BY <1>1, <1>2, RaiseStep

LEMMA ReattachStep ==
  ASSUME IInv, NEW t \in Testers, NEW d \in Drives, Reattach(t, d)
  PROVE  IInv'
<1>0. TypeOK /\ Own(t)
  BY DEF IInv
<1>1. /\ drive[t] = NONE /\ drive' = [drive EXCEPT ![t] = d]
      /\ UNCHANGED <<firmware, lock, slot_state, reports, pc, option, target_drive, scans,
                     retry_cnt, loaded, mp_result>>
  BY DEF Reattach
<1>2. TypeOK'
  BY <1>0, <1>1 DEF TypeOK
<1>3. Own(t)'
  <2>1. LoadIsOwn(t)' /\ FolderIsOwn(t)'
    BY <1>0, <1>1 DEF Own, LoadIsOwn, FolderIsOwn, IspDir
  <2>2. DriveKnown(t)'
    BY <1>0, <1>1 DEF Own, DriveKnown
  <2> QED BY <2>1, <2>2 DEF Own
<1> QED BY <1>0, <1>1, <1>2, <1>3, LocalStep DEF TypeOK

LEMMA CheckLoaderStep ==
  ASSUME IInv, NEW t \in Testers, CheckLoader(t)
  PROVE  IInv'
<1>0. TypeOK /\ Own(t)
  BY DEF IInv
<1>1. /\ pc' = [pc EXCEPT ![t] = "scan"] /\ lock' \in {lock, Released(t)}
      /\ UNCHANGED <<worldVars, slot_state, reports, option, target_drive, scans, retry_cnt,
                     loaded, mp_result>>
  BY DEF CheckLoader, Goto
<1>2. TypeOK'
  <2>1. lock' \in [Directories -> Testers \cup {NONE}]
    BY <1>0, <1>1, ReleaseFacts DEF TypeOK
  <2>2. pc' \in [Testers -> Labels]
    BY <1>0, <1>1 DEF TypeOK
  <2> QED BY <1>0, <1>1, <2>1, <2>2 DEF TypeOK
<1>3. pc'[t] = "scan"
  BY <1>0, <1>1 DEF TypeOK
<1>4. Own(t)'
  BY <1>0, <1>1, <1>3 DEF Own, LoadIsOwn, DriveKnown, FolderIsOwn, ToolLabels, InLoad
<1> QED BY <1>0, <1>1, <1>2, <1>4, LocalStep DEF TypeOK

LEMMA ScanStep ==
  ASSUME IInv, NEW t \in Testers, Scan(t)
  PROVE  IInv'
<1>0. TypeOK /\ Own(t)
  BY DEF IInv
<1>1. pc[t] = "scan" /\ UNCHANGED worldVars
  BY DEF Scan
<1>2. CASE \E u \in Found(t) :
             /\ target_drive' = [target_drive EXCEPT ![t] = drive[u]]
             /\ UNCHANGED loaded
             /\ IF option[t] = "TESTER_FW" THEN Leave(t, "returned")
                ELSE /\ Goto(t, "folder") /\ lock' = Released(t)
                     /\ UNCHANGED <<slot_state, reports, option, scans, retry_cnt, mp_result>>
  <2>1. PICK u \in Found(t) :
             /\ target_drive' = [target_drive EXCEPT ![t] = drive[u]]
             /\ UNCHANGED loaded
             /\ IF option[t] = "TESTER_FW" THEN Leave(t, "returned")
                ELSE /\ Goto(t, "folder") /\ lock' = Released(t)
                     /\ UNCHANGED <<slot_state, reports, option, scans, retry_cnt, mp_result>>
    BY <1>2
  <2>2. u = t /\ drive[t] # NONE
    BY DEF Found
  <2>3. /\ target_drive' \in [Testers -> Drives] /\ target_drive'[t] = drive[t]
        /\ \A v \in Testers \ {t} : target_drive'[v] = target_drive[v]
    BY <1>0, <2>1, <2>2 DEF TypeOK
  <2>4. CASE option[t] = "TESTER_FW"
    <3>1. Leave(t, "returned") /\ loaded' = loaded
      BY <2>1, <2>4
    <3> QED BY <1>0, <1>1, <2>2, <2>3, <3>1, LeaveStep DEF TypeOK
  <2>5. CASE option[t] # "TESTER_FW"
    <3>1. /\ pc' = [pc EXCEPT ![t] = "folder"] /\ lock' = Released(t)
          /\ UNCHANGED <<slot_state, reports, option, scans, retry_cnt, mp_result, loaded>>
      BY <2>1, <2>5 DEF Goto
    <3>2. TypeOK'
      <4>1. lock' \in [Directories -> Testers \cup {NONE}]
        BY <1>0, <3>1, ReleaseFacts
      <4>2. pc' \in [Testers -> Labels]
        BY <1>0, <3>1 DEF TypeOK
      <4> QED BY <1>0, <1>1, <2>3, <3>1, <4>1, <4>2 DEF TypeOK
    <3>3. pc'[t] = "folder" /\ option[t] = "TESTER_ISP"
      BY <1>0, <2>5, <3>1 DEF TypeOK
    <3>4. Own(t)'
      BY <1>0, <1>1, <2>2, <2>3, <3>1, <3>3 DEF Own, LoadIsOwn, DriveKnown, FolderIsOwn, ToolLabels,
         InLoad
    <3> QED BY <1>0, <1>1, <2>3, <3>1, <3>2, <3>4, LocalStep DEF TypeOK
  <2> QED BY <2>4, <2>5
<1>3. CASE /\ scans[t] + 1 < MaxScans
           /\ scans' = [scans EXCEPT ![t] = @ + 1]
           /\ UNCHANGED <<pc, lock, slot_state, reports, option, target_drive, retry_cnt, loaded,
                          mp_result>>
  <2>1. TypeOK'
    <3>1. scans[t] + 1 \in 0 .. MaxScans - 1
      BY <1>0, <1>3 DEF TypeOK
    <3> QED BY <1>0, <1>1, <1>3, <3>1 DEF TypeOK
  <2>2. Own(t)'
    BY <1>0, <1>1, <1>3 DEF Own, LoadIsOwn, DriveKnown, FolderIsOwn, ToolLabels, InLoad
  <2> QED BY <1>1, <1>3, <2>1, <2>2, LocalStep
<1>4. CASE Raise(t)
  BY <1>0, <1>1, <1>4, RaiseStep DEF TypeOK
<1> QED BY <1>2, <1>3, <1>4 DEF Scan

LEMMA FolderFailsStep ==
  ASSUME IInv, NEW t \in Testers, FolderFails(t)
  PROVE  IInv'
  BY RaiseStep DEF FolderFails, IInv, TypeOK

(* Steps of the production tool change the folder of their own port.       *)
LEMMA ToolStep ==
  ASSUME IInv, NEW t \in Testers, pc[t] \in ToolLabels,
         pc' \in [Testers -> Labels], pc'[t] \in {"mp", "producing", "result", "failed"},
         \A u \in Testers \ {t} : pc'[u] = pc[u],
         reports' \in [Ports -> SUBSET Report],
         \A p \in Ports \ {Port[t]} : reports'[p] = reports[p],
         \A r \in reports'[Port[t]] : r.by = t /\ r.current = TRUE,
         pc'[t] \in {"mp", "producing"} => reports'[Port[t]] = {},
         retry_cnt' \in [Testers -> 0 .. MaxRetries],
         UNCHANGED <<worldVars, lock, slot_state, option, target_drive, scans, loaded, mp_result>>
  PROVE  IInv'
<1>0. TypeOK /\ Own(t)
  BY DEF IInv
<1>1. TypeOK'
  BY <1>0 DEF TypeOK
<1>2. Own(t)'
  BY <1>0 DEF Own, LoadIsOwn, DriveKnown, FolderIsOwn, ToolLabels, InLoad
<1>3. ASSUME NEW u \in Testers \ {t}
      PROVE  reports'[Port[u]] = reports[Port[u]] /\ pc'[u] = pc[u]
  <2>1. Port[u] # Port[t] /\ Port[u] \in Ports
    BY <1>0, DirTypes
  <2> QED BY <2>1
<1> QED BY <1>1, <1>2, <1>3, LocalStep

LEMMA CreateFolderStep ==
  ASSUME IInv, NEW t \in Testers, CreateFolder(t)
  PROVE  IInv'
<1>0. TypeOK
  BY DEF IInv
<1>1. /\ pc[t] = "folder" /\ pc' = [pc EXCEPT ![t] = "mp"]
      /\ reports' = [reports EXCEPT ![Port[t]] = {}]
      /\ UNCHANGED <<worldVars, lock, slot_state, option, target_drive, scans, retry_cnt, loaded,
                     mp_result>>
  BY DEF CreateFolder, EmptyFolder, Goto
<1>2. /\ pc[t] \in ToolLabels /\ pc' \in [Testers -> Labels] /\ pc'[t] = "mp"
      /\ \A u \in Testers \ {t} : pc'[u] = pc[u]
  BY <1>0, <1>1 DEF TypeOK, ToolLabels
<1>3. /\ reports' \in [Ports -> SUBSET Report] /\ reports'[Port[t]] = {}
      /\ \A p \in Ports \ {Port[t]} : reports'[p] = reports[p]
  BY <1>0, <1>1, DirTypes DEF TypeOK
<1>4. retry_cnt' \in [Testers -> 0 .. MaxRetries]
  BY <1>0, <1>1 DEF TypeOK
<1> QED BY <1>1, <1>2, <1>3, <1>4, ToolStep

LEMMA StartToolStep ==
  ASSUME IInv, NEW t \in Testers, StartTool(t)
  PROVE  IInv'
<1>0. TypeOK /\ Own(t)
  BY DEF IInv
<1>1. /\ pc[t] = "mp" /\ pc' = [pc EXCEPT ![t] = "producing"]
      /\ reports' = [reports EXCEPT ![Port[t]] = {[r EXCEPT !.current = FALSE] : r \in @}]
      /\ UNCHANGED <<worldVars, lock, slot_state, option, target_drive, scans, retry_cnt, loaded,
                     mp_result>>
  BY DEF StartTool, Goto
<1>2. reports[Port[t]] = {}
  BY <1>0, <1>1 DEF Own, FolderIsOwn
<1>3. reports' = [reports EXCEPT ![Port[t]] = {}]
  BY <1>1, <1>2
<1>4. /\ pc[t] \in ToolLabels /\ pc' \in [Testers -> Labels] /\ pc'[t] = "producing"
      /\ \A u \in Testers \ {t} : pc'[u] = pc[u]
  BY <1>0, <1>1 DEF TypeOK, ToolLabels
<1>5. /\ reports' \in [Ports -> SUBSET Report] /\ reports'[Port[t]] = {}
      /\ \A p \in Ports \ {Port[t]} : reports'[p] = reports[p]
  BY <1>0, <1>3, DirTypes DEF TypeOK
<1>6. retry_cnt' \in [Testers -> 0 .. MaxRetries]
  BY <1>0, <1>1 DEF TypeOK
<1> QED BY <1>1, <1>4, <1>5, <1>6, ToolStep

LEMMA ToolEndsStep ==
  ASSUME IInv, NEW t \in Testers, NEW result \in {"PASS", "FAIL", NONE}, NEW failed \in BOOLEAN,
         ToolEnds(t, result, failed)
  PROVE  IInv'
<1> DEFINE report == [by |-> t, result |-> result, current |-> TRUE]
           files  == {r \in {report} : result # NONE}
           label  == IF failed THEN "failed" ELSE "result"
<1>0. TypeOK /\ Own(t)
  BY DEF IInv
<1>1. /\ pc[t] = "producing" /\ pc' = [pc EXCEPT ![t] = label]
      /\ reports' = [reports EXCEPT ![Port[t]] = reports[Port[t]] \cup files]
      /\ UNCHANGED <<worldVars, lock, slot_state, option, target_drive, scans, retry_cnt, loaded,
                     mp_result>>
  BY DEF ToolEnds, Goto
<1>2. reports[Port[t]] = {}
  BY <1>0, <1>1 DEF Own, FolderIsOwn
<1>3. /\ report.by = t /\ report.current = TRUE
      /\ result # NONE => report \in Report
  BY DEF Report
<1>4. label \in {"failed", "result"}
  OBVIOUS
<1> HIDE DEF report, label
<1>5. files \in SUBSET Report /\ \A r \in files : r.by = t /\ r.current = TRUE
  BY <1>3
<1> HIDE DEF files
<1>6. /\ pc[t] \in ToolLabels /\ pc' \in [Testers -> Labels] /\ pc'[t] \in {"failed", "result"}
      /\ \A u \in Testers \ {t} : pc'[u] = pc[u]
  BY <1>0, <1>1, <1>4 DEF TypeOK, ToolLabels
<1>7. reports' = [reports EXCEPT ![Port[t]] = files]
  BY <1>1, <1>2
<1>8. /\ reports' \in [Ports -> SUBSET Report] /\ reports'[Port[t]] = files
      /\ \A p \in Ports \ {Port[t]} : reports'[p] = reports[p]
  BY <1>0, <1>5, <1>7, DirTypes DEF TypeOK
<1>9. retry_cnt' \in [Testers -> 0 .. MaxRetries]
  BY <1>0, <1>1 DEF TypeOK
<1> QED BY <1>1, <1>5, <1>6, <1>8, <1>9, ToolStep

LEMMA RetryStep ==
  ASSUME IInv, NEW t \in Testers, Retry(t)
  PROVE  IInv'
<1>0. TypeOK
  BY DEF IInv
<1>1. pc[t] = "failed" /\ UNCHANGED worldVars
  BY DEF Retry
<1>2. CASE retry_cnt[t] < MaxRetries
  <2>1. /\ retry_cnt' = [retry_cnt EXCEPT ![t] = retry_cnt[t] + 1]
        /\ reports' = [reports EXCEPT ![Port[t]] = {}]
        /\ pc' = [pc EXCEPT ![t] = "mp"]
        /\ UNCHANGED <<lock, slot_state, option, target_drive, scans, loaded, mp_result>>
    BY <1>2 DEF Retry, EmptyFolder, Goto
  <2>2. retry_cnt' \in [Testers -> 0 .. MaxRetries]
    BY <1>0, <1>2, <2>1 DEF TypeOK
  <2>3. /\ pc[t] \in ToolLabels /\ pc' \in [Testers -> Labels] /\ pc'[t] = "mp"
        /\ \A u \in Testers \ {t} : pc'[u] = pc[u]
    BY <1>0, <1>1, <2>1 DEF TypeOK, ToolLabels
  <2>4. /\ reports' \in [Ports -> SUBSET Report] /\ reports'[Port[t]] = {}
        /\ \A p \in Ports \ {Port[t]} : reports'[p] = reports[p]
    BY <1>0, <2>1, DirTypes DEF TypeOK
  <2> QED BY <1>1, <2>1, <2>2, <2>3, <2>4, ToolStep
<1>3. CASE ~(retry_cnt[t] < MaxRetries)
  <2>1. Raise(t)
    BY <1>3 DEF Retry
  <2> QED BY <1>0, <1>1, <2>1, RaiseStep DEF TypeOK
<1> QED BY <1>2, <1>3

LEMMA CheckResultStep ==
  ASSUME IInv, NEW t \in Testers, CheckResult(t)
  PROVE  IInv'
<1>0. TypeOK /\ Own(t)
  BY DEF IInv
<1>1. pc[t] = "result" /\ UNCHANGED worldVars
  BY DEF CheckResult
<1>2. CASE Raise(t)
  BY <1>0, <1>1, <1>2, RaiseStep DEF TypeOK
<1>3. CASE \E r \in reports[Port[t]] :
             /\ mp_result' = [mp_result EXCEPT ![t] = r]
             /\ IF r.result = "PASS"
                THEN Goto(t, "update") /\ option' = [option EXCEPT ![t] = "TESTER_FW"]
                ELSE Goto(t, "failed") /\ UNCHANGED option
             /\ UNCHANGED <<lock, slot_state, reports, target_drive, scans, retry_cnt, loaded>>
  <2>1. PICK r \in reports[Port[t]] :
             /\ mp_result' = [mp_result EXCEPT ![t] = r]
             /\ IF r.result = "PASS"
                THEN Goto(t, "update") /\ option' = [option EXCEPT ![t] = "TESTER_FW"]
                ELSE Goto(t, "failed") /\ UNCHANGED option
             /\ UNCHANGED <<lock, slot_state, reports, target_drive, scans, retry_cnt, loaded>>
    BY <1>3
  <2>2. r \in Report /\ r.by = t /\ r.current = TRUE
    BY <1>0, <1>1, DirTypes DEF TypeOK, Own, FolderIsOwn
  <2>3. mp_result' \in [Testers -> Report \cup {NONE}] /\ mp_result'[t] = r
    BY <1>0, <2>1, <2>2 DEF TypeOK
  <2>4. CASE r.result = "PASS"
    <3>1. pc' = [pc EXCEPT ![t] = "update"] /\ option' = [option EXCEPT ![t] = "TESTER_FW"]
      BY <2>1, <2>4 DEF Goto
    <3>2. TypeOK'
      <4>1. pc' \in [Testers -> Labels] /\ option' \in [Testers -> Options]
        BY <1>0, <3>1 DEF TypeOK
      <4> QED BY <1>0, <1>1, <2>1, <2>3, <4>1 DEF TypeOK
    <3>3. pc'[t] = "update"
      BY <1>0, <3>1 DEF TypeOK
    <3>4. r = [by |-> t, result |-> "PASS", current |-> TRUE]
      BY <2>2, <2>4 DEF Report
    <3>5. Own(t)'
      BY <1>0, <2>1, <2>3, <3>3, <3>4 DEF Own, LoadIsOwn, DriveKnown, FolderIsOwn, ToolLabels,
         InLoad
    <3> QED BY <1>0, <1>1, <2>1, <3>1, <3>2, <3>5, LocalStep DEF TypeOK
  <2>5. CASE r.result # "PASS"
    <3>1. pc' = [pc EXCEPT ![t] = "failed"] /\ option' = option
      BY <2>1, <2>5 DEF Goto
    <3>2. TypeOK'
      <4>1. pc' \in [Testers -> Labels]
        BY <1>0, <3>1 DEF TypeOK
      <4> QED BY <1>0, <1>1, <2>1, <2>3, <3>1, <4>1 DEF TypeOK
    <3>3. pc'[t] = "failed"
      BY <1>0, <3>1 DEF TypeOK
    <3>4. Own(t)'
      BY <1>0, <1>1, <2>1, <3>1, <3>3 DEF Own, LoadIsOwn, DriveKnown, FolderIsOwn, ToolLabels,
         InLoad
    <3> QED BY <1>0, <1>1, <2>1, <3>1, <3>2, <3>4, LocalStep DEF TypeOK
  <2> QED BY <2>4, <2>5
<1> QED BY <1>2, <1>3 DEF CheckResult

LEMMA StutterStep ==
  ASSUME IInv, UNCHANGED vars
  PROVE  IInv'
<1>1. TypeOK'
  BY DEF vars, IInv, TypeOK
<1>2. \A t \in Testers : Own(t)'
  BY DEF vars, IInv, Own, LoadIsOwn, DriveKnown, FolderIsOwn, IspDir
<1> QED BY <1>1, <1>2 DEF IInv

LEMMA Inductive == IInv /\ [Next]_vars => IInv'
<1> SUFFICES ASSUME IInv, [Next]_vars PROVE IInv'
  OBVIOUS
<1>1. ASSUME NEW t \in Testers, Step(t)
      PROVE  IInv'
  BY <1>1, StartLoaderStep, LockTimeoutStep, LoaderEndsStep, LoaderFailsStep, CheckLoaderStep,
     ScanStep, CreateFolderStep, FolderFailsStep, StartToolStep, ToolEndsStep, CheckResultStep,
     RetryStep DEF Step
<1> QED BY <1>1, CallStep, LoaderNotFoundStep, ReattachStep, StutterStep DEF Next

LEMMA Invariant == Spec => []IInv
  BY Initially, Inductive, PTL DEF Spec

-----------------------------------------------------------------------------
(* The theorems. *)

(* The types of the processes' state.                                      *)
THEOREM UpdateTyped == Spec => []TypeOK
<1>1. IInv => TypeOK
  BY DEF IInv
<1> QED BY <1>1, Invariant, PTL

(* SlotState.ini tells a process of its own load.                          *)
THEOREM VerdictsAreOwn == Spec => []VerdictIsOwn
<1>1. IInv => VerdictIsOwn
  BY DEF IInv, Own, LoadIsOwn, VerdictIsOwn
<1> QED BY <1>1, Invariant, PTL

(* The production tool, and the caller afterwards, work on the process's   *)
(* own tester.                                                             *)
THEOREM DrivesAreOwn == Spec => []DriveIsOwn
<1>1. IInv => DriveIsOwn
  BY DEF IInv, Own, DriveKnown, DriveIsOwn, ToolLabels
<1> QED BY <1>1, Invariant, PTL

(* A production run is judged by its own report.                           *)
THEOREM ResultsAreOwn == Spec => []ResultIsOwn
<1>1. IInv => ResultIsOwn
  BY DEF IInv, Own, FolderIsOwn, ResultIsOwn
<1> QED BY <1>1, Invariant, PTL

-----------------------------------------------------------------------------
(* The firmware of a tester. *)

(* From the loader's report on, a tester whose loader passed runs what was *)
(* asked for; execute() returns with the last load of the call.            *)
FirmwareOwn(t) ==
  loaded[t] = "Pass" =>
    /\ pc[t] \in {"check", "scan"} \cup ToolLabels => firmware[t] = option[t]
    /\ pc[t] = "returned" => firmware[t] = "TESTER_FW"

FirmwareInv == \A t \in Testers : FirmwareOwn(t)

LEMMA OtherFirmware ==
  ASSUME TypeOK, NEW t \in Testers, NEW u \in Testers \ {t}, FirmwareOwn(u),
         [Step(t) \/ Call(t) \/ LoaderNotFound(t) \/ \E d \in Drives : Reattach(t, d)]_vars
  PROVE  FirmwareOwn(u)'
<1> SUFFICES /\ pc'[u] = pc[u] /\ option'[u] = option[u]
             /\ loaded'[u] = loaded[u] /\ firmware'[u] = firmware[u]
  BY DEF FirmwareOwn
<1>1. ASSUME NEW how, Leave(t, how)
      PROVE  pc'[u] = pc[u] /\ option'[u] = option[u]
  BY <1>1 DEF TypeOK, Leave, Goto
<1>2. ASSUME Raise(t)
      PROVE  pc'[u] = pc[u] /\ option'[u] = option[u] /\ loaded'[u] = loaded[u]
  <2>1. pc'[u] = pc[u] /\ option'[u] = option[u]
    BY <1>1, <1>2 DEF Raise
  <2> QED BY <1>2, <2>1 DEF TypeOK, Raise
<1>3. CASE LoaderNotFound(t) \/ LockTimeout(t) \/ FolderFails(t)
  BY <1>2, <1>3 DEF LoaderNotFound, LockTimeout, FolderFails
<1>4. CASE LoaderFails(t)
  BY <1>2, <1>4 DEF TypeOK, LoaderFails
<1>5. CASE Scan(t)
  BY <1>1, <1>2, <1>5 DEF TypeOK, Scan, Goto
<1>6. CASE CheckResult(t)
  BY <1>2, <1>6 DEF TypeOK, CheckResult, Goto
<1>7. CASE Retry(t)
  BY <1>2, <1>7 DEF TypeOK, Retry, Goto
<1>8. CASE StartLoader(t) \/ CheckLoader(t) \/ CreateFolder(t) \/ StartTool(t) \/ Call(t)
  BY <1>8 DEF TypeOK, StartLoader, CheckLoader, CreateFolder, StartTool, Call, Goto
<1>9. CASE \/ \E record \in {"Pass", NONE} : LoaderEnds(t, record)
           \/ \E result \in {"PASS", "FAIL", NONE}, failed \in BOOLEAN : ToolEnds(t, result, failed)
  BY <1>9 DEF TypeOK, LoaderEnds, ToolEnds, Goto
<1>10. CASE (\E d \in Drives : Reattach(t, d)) \/ UNCHANGED vars
  BY <1>10 DEF Reattach, vars
<1> QED BY <1>3, <1>4, <1>5, <1>6, <1>7, <1>8, <1>9, <1>10 DEF Step

LEMMA OwnFirmware ==
  ASSUME IInv, NEW t \in Testers, FirmwareOwn(t),
         [Step(t) \/ Call(t) \/ LoaderNotFound(t) \/ \E d \in Drives : Reattach(t, d)]_vars
  PROVE  FirmwareOwn(t)'
<1>0. TypeOK /\ Own(t)
  BY DEF IInv
<1>1. ASSUME NEW label, label \notin {"check", "scan", "returned"} \cup ToolLabels, pc'[t] = label
      PROVE  FirmwareOwn(t)'
  BY <1>1 DEF FirmwareOwn
<1>2. ASSUME Raise(t)
      PROVE  FirmwareOwn(t)'
  <2>1. pc'[t] = "raised"
    BY <1>0, <1>2 DEF TypeOK, Raise, Leave, Goto
  <2> QED BY <1>1, <2>1 DEF ToolLabels
<1>3. CASE LoaderNotFound(t) \/ LockTimeout(t) \/ FolderFails(t) \/ LoaderFails(t)
  BY <1>2, <1>3 DEF LoaderNotFound, LockTimeout, FolderFails, LoaderFails
<1>4. CASE StartLoader(t) \/ Call(t)
  <2>1. pc'[t] \in {"update", "load"}
    BY <1>0, <1>4 DEF TypeOK, StartLoader, Call, Goto
  <2> QED BY <1>1, <2>1 DEF ToolLabels
<1>5. CASE \E record \in {"Pass", NONE} : LoaderEnds(t, record)
  <2>1. pc'[t] = "check" /\ option' = option /\ (loaded'[t] = "Pass" => firmware'[t] = option[t])
    BY <1>0, <1>5 DEF TypeOK, LoaderEnds, Goto
  <2> QED BY <2>1 DEF FirmwareOwn
<1>6. CASE Scan(t)
  <2>1. pc[t] = "scan" /\ firmware' = firmware
    BY <1>6 DEF Scan
  <2>2. CASE Raise(t)
    BY <1>2, <2>2
  <2>3. CASE option[t] = "TESTER_FW" /\ Leave(t, "returned") /\ loaded' = loaded
    <3>1. pc'[t] = "returned"
      BY <1>0, <2>3 DEF TypeOK, Leave, Goto
    <3> QED BY <2>1, <2>3, <3>1 DEF FirmwareOwn, ToolLabels
  <2>4. CASE pc'[t] \in {"folder", "scan"} /\ loaded' = loaded /\ option' = option
    BY <2>1, <2>4 DEF FirmwareOwn, ToolLabels
  <2>5. \/ Raise(t) \/ (option[t] = "TESTER_FW" /\ Leave(t, "returned") /\ loaded' = loaded)
        \/ (pc'[t] \in {"folder", "scan"} /\ loaded' = loaded /\ option' = option)
    BY <1>0, <1>6 DEF TypeOK, Scan, Goto
  <2> QED BY <2>2, <2>3, <2>4, <2>5
<1>7. CASE CheckResult(t)
  <2>1. pc[t] = "result" /\ firmware' = firmware
    BY <1>7 DEF CheckResult
  <2>2. CASE pc'[t] = "failed" /\ option' = option /\ loaded' = loaded
    BY <2>1, <2>2 DEF FirmwareOwn, ToolLabels
  <2>3. CASE pc'[t] = "update"
    BY <1>1, <2>3 DEF ToolLabels
  <2>4. Raise(t) \/ pc'[t] = "update" \/ (pc'[t] = "failed" /\ option' = option /\ loaded' = loaded)
    BY <1>0, <1>7 DEF TypeOK, CheckResult, Goto
  <2> QED BY <1>2, <2>2, <2>3, <2>4
<1>8. CASE Retry(t)
  <2>1. pc[t] = "failed" /\ firmware' = firmware
    BY <1>8 DEF Retry
  <2>2. Raise(t) \/ (pc'[t] = "mp" /\ option' = option /\ loaded' = loaded)
    BY <1>0, <1>8 DEF TypeOK, Retry, Goto
  <2> QED BY <1>2, <2>1, <2>2 DEF FirmwareOwn, ToolLabels
<1>9. CASE CheckLoader(t) \/ CreateFolder(t) \/ StartTool(t)
  <2>1. /\ pc[t] \in {"check"} \cup ToolLabels /\ pc'[t] \in {"scan"} \cup ToolLabels
        /\ option' = option /\ loaded' = loaded /\ firmware' = firmware
    BY <1>0, <1>9 DEF TypeOK, CheckLoader, CreateFolder, StartTool, Goto, ToolLabels
  <2> QED BY <2>1 DEF FirmwareOwn, ToolLabels
<1>10. CASE \E result \in {"PASS", "FAIL", NONE}, failed \in BOOLEAN : ToolEnds(t, result, failed)
  <2>1. /\ pc[t] = "producing" /\ pc'[t] \in {"failed", "result"}
        /\ option' = option /\ loaded' = loaded /\ firmware' = firmware
    BY <1>0, <1>10 DEF TypeOK, ToolEnds, Goto
  <2> QED BY <2>1 DEF FirmwareOwn, ToolLabels
<1>11. CASE (\E d \in Drives : Reattach(t, d)) \/ UNCHANGED vars
  BY <1>11 DEF Reattach, vars, FirmwareOwn
<1> QED BY <1>3, <1>4, <1>5, <1>6, <1>7, <1>8, <1>9, <1>10, <1>11 DEF Step

(* The production tool meets the production firmware, and the caller the   *)
(* firmware of the SDK, unless the loader reported that it failed.         *)
THEOREM FirmwareIsAsLoaded == Spec => []FirmwareAsLoaded
<1>1. Init => FirmwareInv
  <2> SUFFICES ASSUME Init, NEW t \in Testers
               PROVE  FirmwareOwn(t)
    BY DEF FirmwareInv
  <2>1. pc[t] = "idle"
    BY DEF Init
  <2> QED BY <2>1 DEF FirmwareOwn, ToolLabels
<1>2. IInv /\ FirmwareInv /\ [Next]_vars => FirmwareInv'
  <2> SUFFICES ASSUME IInv, FirmwareInv, [Next]_vars, NEW u \in Testers
               PROVE  FirmwareOwn(u)'
    BY DEF FirmwareInv
  <2>1. TypeOK /\ FirmwareOwn(u)
    BY DEF IInv, FirmwareInv
  <2>2. CASE UNCHANGED vars
    BY <2>1, <2>2 DEF vars, FirmwareOwn
  <2>3. CASE Next
    <3>1. PICK t \in Testers :
            Step(t) \/ Call(t) \/ LoaderNotFound(t) \/ \E d \in Drives : Reattach(t, d)
      BY <2>3 DEF Next
    <3>2. CASE u = t
      BY <2>1, <3>1, <3>2, OwnFirmware
    <3>3. CASE u # t
      BY <2>1, <3>1, <3>3, OtherFirmware
    <3> QED BY <3>2, <3>3
  <2> QED BY <2>2, <2>3
<1>3. IInv /\ FirmwareInv => FirmwareAsLoaded
  <2> SUFFICES ASSUME IInv, FirmwareInv, NEW t \in Testers, loaded[t] = "Pass"
               PROVE  /\ pc[t] = "producing" => firmware[t] = "TESTER_ISP"
                      /\ pc[t] = "returned" => firmware[t] = "TESTER_FW"
    BY DEF FirmwareAsLoaded
  <2>1. FirmwareOwn(t) /\ (pc[t] = "producing" => option[t] = "TESTER_ISP")
    BY DEF FirmwareInv, IInv, Own, FolderIsOwn, ToolLabels
  <2> QED BY <2>1 DEF FirmwareOwn, ToolLabels
<1> QED BY <1>1, <1>2, <1>3, Invariant, PTL DEF Spec
====
