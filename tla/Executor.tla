------------------------------ MODULE Executor ------------------------------
(***************************************************************************)
(* The command-sequence executor: api/cmd_seq/executor.py with the buffer  *)
(* manager and the cycle tracker it owns, and the tester it drives.        *)
(*                                                                         *)
(* A pattern enqueues commands into one package, sends the package, reads  *)
(* the responses and clears it.  All of this state is module-global and a  *)
(* call that raises leaves behind whatever it had already changed, so the  *)
(* order of the checks and of the assignments is kept.  send() is a        *)
(* sequence of steps (pc): one push per command, the transmission, and the *)
(* wait for the tester, which completes commands out of order.             *)
(***************************************************************************)
EXTENDS BufferLayout, Sequences, FiniteSets

CONSTANTS
  Commands,      \* the commands a pattern may enqueue (records of CommandType)
  TagCount,      \* number of task tags; 256 in the code
  Funcs,         \* function codes of tester commands
  TmDummy,       \* 0xFE, the function code of the reply for an aborted command
  PatternModes,  \* CmdParamPatternMode
  ManualAlign,   \* 4096: the unit of a manual read or write
  EhsSupported,  \* sdk_ver1 >= 7
  QueueDepths,   \* the depths a caller may ask for or set as limit
  MaxCommands,   \* bound on the length of a package
  NONE           \* Python's None

AUTO == -1       \* b3_tasktag of a command that has not been given a tag

Tags == 0 .. TagCount - 1
Keys == ({"upiu"} \X Tags) \cup ({"sdk"} \X (Funcs \cup {TmDummy}))

NoIndicator == <<-1, <<"upiu", AUTO>>>>

NoOpts == [qd |-> NONE, hwCompare |-> FALSE, clear |-> TRUE, pushed |-> 0]

(***************************************************************************)
(* What the executor looks at in a command.  "rw" stands for Read/Write    *)
(* 6/10/16, "scsi" for the other SCSI commands, "query" for the descriptor *)
(* requests, "plain" for requests without data.                            *)
(***************************************************************************)
Classes == {"rw", "hpb", "readbuffer", "scsi", "query", "plain", "tm", "tester"}

CommandType ==
  [class : Classes, tag : Int, manual : BOOLEAN, pattern : PatternModes,
   length : Nat, payload : Nat, ehs : Nat, ehsField : Nat,
   func : Funcs, target : Int]

ASSUME ExecutorAssumption ==
  /\ Commands \subseteq CommandType
  /\ \A c \in Commands : c.class = "tester" => c.ehs = 0 /\ c.payload = 0
  /\ TagCount \in Nat \ {0}
  /\ TmDummy \notin Funcs
  /\ NONE \notin BOOLEAN /\ NONE \notin PatternModes /\ NONE \notin QueueDepths
  /\ ManualAlign \in Nat \ {0}
  /\ EhsSupported \in BOOLEAN
  /\ QueueDepths \subseteq Nat \ {0}
  /\ MaxCommands \in Nat

VARIABLES
  cmd_list, total_payload, total_ehs, task_tag, rw_manual_mode, pattern_mode,
  active_task_mgmt, has_hpb, has_read_buffer, is_cmd_sent, tracker, qd_limit,
  entry_ptr, data_ptr, ehs_ptr, data_begin, buffer, rsp_offset,
  pc,          \* "idle", or where send() is: "push", "monitor"
  opts,        \* the arguments of the send() that runs
  wire,        \* what the tester was given: the entries it parsed
  issued,      \* how many of them it has started
  outstanding, \* those started and not answered
  done_queue   \* its answers, in completion order

enqueueVars == <<cmd_list, total_payload, total_ehs, active_task_mgmt, has_hpb,
                 has_read_buffer, tracker>>
modeVars    == <<rw_manual_mode, pattern_mode>>
bufferVars  == <<entry_ptr, data_ptr, ehs_ptr, data_begin, buffer>>
testerVars  == <<wire, issued, outstanding, done_queue>>
vars == <<enqueueVars, modeVars, task_tag, is_cmd_sent, qd_limit, bufferVars,
          rsp_offset, pc, opts, testerVars>>

-----------------------------------------------------------------------------
(* _auto_tune_param *)

ReadsOrWrites(c) == c.class = "rw"
CanBeManual(c)   == c.class \in {"rw", "hpb"}
IsTester(c)      == c.class = "tester"

DataLength(c) ==
  IF (CanBeManual(c) /\ ~c.manual) \/ c.class \in {"plain", "tm", "tester"}
  THEN 0
  ELSE AlignUp(c.length, BlockSize)

MisalignedManual(c) == CanBeManual(c) /\ c.manual /\ c.length % ManualAlign # 0
DataModeMixed(c)    == ReadsOrWrites(c) /\ rw_manual_mode \notin {NONE, c.manual}

PatternModeUnchecked(c) == FALSE
PatternModeMixed(c) == ReadsOrWrites(c) /\ pattern_mode \notin {NONE, c.pattern}

(* The exception raised while the parameters are tuned, in source order.   *)
TuneResult(c) ==
  IF MisalignedManual(c)              THEN "MANUAL_RW_DATA_SHALL_ALIGN_4KB"
  ELSE IF DataModeMixed(c)            THEN "AUTO_MODE_AND_MANUAL_MODE_MIX"
  ELSE IF PatternModeMixed(c)         THEN "PATTERN_MODE_SHALL_BE_ALL_SAME"
  ELSE IF c.ehs # 0 /\ ~EhsSupported  THEN "EHS_FEATURE_NOT_SUPPORT"
  ELSE IF c.ehsField # c.ehs          THEN "EHS_LENGTH_MISMATCH"
  ELSE "ok"

(* The first read or write fixes both modes of the package, and does so    *)
(* before the EHS checks and before the package is known to have room.     *)
SetsModes(c) ==
  /\ ReadsOrWrites(c)
  /\ ~(MisalignedManual(c) \/ DataModeMixed(c) \/ PatternModeMixed(c))

TuneModes(c) ==
  IF SetsModes(c)
  THEN rw_manual_mode' = c.manual /\ pattern_mode' = c.pattern
  ELSE UNCHANGED modeVars

DrawsTag(c) == ~IsTester(c) /\ c.tag = AUTO
NextTagUnmasked == task_tag + 1
NextTag     == (task_tag + 1) % TagCount
TunedTag(c) == IF DrawsTag(c) THEN NextTag ELSE c.tag

-----------------------------------------------------------------------------
(* enqueue *)

DataBlocks(c) == IF IsTester(c) THEN 0 ELSE CeilDiv(DataLength(c), BlockSize)
EhsUnits(c)   == IF IsTester(c) THEN 0 ELSE CeilDiv(c.ehs, EhsUnit)

KeyOf(c) == IF IsTester(c) THEN <<"sdk", c.func>> ELSE <<"upiu", TunedTag(c)>>

TagValid(c) == IsTester(c) \/ TunedTag(c) \in Tags

NotClearUnchecked == FALSE
NotClear == is_cmd_sent

EnqueueResult(c) ==
  IF NotClear THEN "CMD_LIST_NOT_CLEAR"
  ELSE IF ~IsTester(c) /\ TuneResult(c) # "ok" THEN TuneResult(c)
  ELSE IF EarlyFull(Len(cmd_list) + 2, total_payload + DataBlocks(c), total_ehs + EhsUnits(c))
       THEN "CMD_LIST_IS_FULL"
  ELSE IF ~TagValid(c) THEN "INVALID_TASKTAG_VALUE"
  ELSE "ok"

(* The element the list gets.  The last two fields are auxiliary: the      *)
(* totals at the time of the append, used to state where payloads lie.     *)
ListElement(c, ci) ==
  [cmd |-> c, key |-> KeyOf(c), dataLength |-> DataLength(c), ci |-> ci,
   l42 |-> 0, l54 |-> 0, blocksBefore |-> total_payload, ehsBefore |-> total_ehs]

IncrementCycle(t, key) == [t EXCEPT ![key] = @ + 1]

(* Everything from the flags to the cycle indicator.  A tag out of range   *)
(* raises in the last step, when the command is already in the list.       *)
AppendCommand(c) ==
  LET key == KeyOf(c)
      ci  == IF TagValid(c) THEN <<tracker[key] + 1, key>> ELSE NoIndicator
  IN  /\ active_task_mgmt' = (active_task_mgmt \/ c.class = "tm")
      /\ has_hpb'          = (has_hpb \/ c.class = "hpb")
      /\ has_read_buffer'  = (has_read_buffer \/ c.class = "readbuffer")
      /\ cmd_list'         = Append(cmd_list, ListElement(c, ci))
      /\ total_payload'    = total_payload + DataBlocks(c)
      /\ total_ehs'        = total_ehs + EhsUnits(c)
      /\ tracker'          = IF TagValid(c) THEN IncrementCycle(tracker, key) ELSE tracker

Enqueue(c) ==
  /\ pc = "idle"
  /\ Len(cmd_list) < MaxCommands
  /\ IF NotClear \/ IsTester(c) THEN UNCHANGED <<task_tag, modeVars>>
     ELSE TuneModes(c) /\ task_tag' = IF DrawsTag(c) THEN NextTag ELSE task_tag
  /\ IF EnqueueResult(c) \in {"ok", "INVALID_TASKTAG_VALUE"}
     THEN AppendCommand(c)
     ELSE UNCHANGED enqueueVars
  /\ UNCHANGED <<is_cmd_sent, qd_limit, bufferVars, rsp_offset, pc, opts, testerVars>>

-----------------------------------------------------------------------------
(* send, up to the transmission *)

HpbUnchecked == FALSE
HpbInPackage == has_hpb

SendRefusal(hwCompare) ==
  IF NotClear                                   THEN "CMD_LIST_NOT_CLEAR"
  ELSE IF hwCompare /\ rw_manual_mode = TRUE    THEN "HW_CMP_WITH_MANUAL_MODE"
  ELSE IF hwCompare /\ HpbInPackage             THEN "HW_CMP_WITH_HPB_READ"
  ELSE IF hwCompare /\ has_read_buffer          THEN "HW_CMP_WITH_READ_BUFFER"
  ELSE "ok"

(* The call until its push loop: the checks, the sent flag, the data area. *)
Send(qd, hwCompare, clearOnSuccess) ==
  /\ pc = "idle"
  /\ IF SendRefusal(hwCompare) = "ok"
     THEN /\ is_cmd_sent' = TRUE
          /\ data_begin'  = DataBegin(Len(cmd_list) + 1)
          /\ data_ptr'    = data_begin'
          /\ opts' = [qd |-> qd, hwCompare |-> hwCompare, clear |-> clearOnSuccess, pushed |-> 0]
          /\ pc'   = "push"
     ELSE UNCHANGED <<is_cmd_sent, data_begin, data_ptr, opts, pc>>
  /\ UNCHANGED <<enqueueVars, modeVars, task_tag, qd_limit, entry_ptr, ehs_ptr, buffer,
                 rsp_offset, testerVars>>

NextCommand == cmd_list[opts.pushed + 1]

(* compose_entry_buf packs the tag into one byte and raises if it cannot.  *)
AnyTagEncodable(e) == TRUE
TagEncodable(e) == e.key[1] = "sdk" \/ e.key[2] \in Tags

PushResult(e) ==
  IF ~TagEncodable(e) THEN "TASKTAG_NOT_ENCODABLE"
  ELSE IF ~HasRoom(entry_ptr, data_ptr, ehs_ptr, data_begin, e.dataLength, e.cmd.ehs)
       THEN "BUF_IS_FULL"
  ELSE IF e.cmd.payload > e.dataLength THEN "PAYLOAD_SIZE_EXCEEDS_EXPECTATION"
  ELSE "ok"

(* push_cmd, and the offsets written back to the command in the list.      *)
PushCmd ==
  /\ pc = "push"
  /\ opts.pushed < Len(cmd_list)
  /\ LET e == NextCommand IN
       IF PushResult(e) = "ok"
       THEN    /\ data_ptr'  = data_ptr + AlignUp(e.dataLength, BlockSize)
               /\ ehs_ptr'   = ehs_ptr + AlignUp(e.cmd.ehs, EhsUnit)
               /\ buffer'    = [o \in DOMAIN buffer \cup {entry_ptr} |->
                                  IF o = entry_ptr
                                  THEN [key |-> e.key, id |-> opts.pushed + 1]
                                  ELSE buffer[o]]
               /\ entry_ptr' = NextEntryPtr(entry_ptr)
               /\ cmd_list'  = IF IsTester(e.cmd) THEN cmd_list
                               ELSE [cmd_list EXCEPT ![opts.pushed + 1].l42 = data_ptr,
                                                     ![opts.pushed + 1].l54 = ehs_ptr]
               /\ opts' = [opts EXCEPT !.pushed = @ + 1]
               /\ pc'   = pc
       ELSE    /\ pc' = "idle" /\ opts' = NoOpts
               /\ UNCHANGED <<data_ptr, ehs_ptr, buffer, entry_ptr, cmd_list>>
  /\ UNCHANGED <<total_payload, total_ehs, active_task_mgmt, has_hpb, has_read_buffer, tracker,
                 modeVars, task_tag, is_cmd_sent, qd_limit, data_begin, rsp_offset, testerVars>>

(* The tester reads entries at the offsets of the layout until it meets    *)
(* one that was never written (0xFF, the ending command).                  *)
Contiguous(buf) ==
  CHOOSE n \in 0 .. Cardinality(DOMAIN buf) :
    /\ EntryOffset(n) \notin DOMAIN buf
    /\ \A i \in 0 .. n - 1 : EntryOffset(i) \in DOMAIN buf

ParsedEntries(buf) == [i \in 1 .. Contiguous(buf) |-> buf[EntryOffset(i - 1)]]

(* _build_cmd_seq_buf, which insists on a depth limit whatever depth the   *)
(* caller asked for, and send_cmd_seq, which may fail in the SDK.          *)
Transmit ==
  /\ pc = "push"
  /\ opts.pushed = Len(cmd_list)
  /\ \/ /\ pc' = "idle" /\ opts' = NoOpts       \* SHALL_SET_QD_LIMIT, or a DLL error
        /\ UNCHANGED testerVars
     \/ /\ qd_limit # NONE
        /\ pc' = "monitor"
        /\ opts' = [opts EXCEPT !.qd = IF @ = NONE THEN qd_limit ELSE @]
        /\ wire' = ParsedEntries(buffer)
        /\ issued' = 0
        /\ outstanding' = {}
        /\ UNCHANGED done_queue
  /\ UNCHANGED <<enqueueVars, modeVars, task_tag, is_cmd_sent, qd_limit, bufferVars, rsp_offset>>

-----------------------------------------------------------------------------
(* The tester and the device behind it.  External: it starts the entries   *)
(* in order, keeps at most qd UPIUs outstanding and never two with one     *)
(* tag, and completes them in any order.                                   *)

hostUnchanged == UNCHANGED <<enqueueVars, modeVars, task_tag, is_cmd_sent, qd_limit, bufferVars,
                             rsp_offset, pc, opts>>

Answer(i) == [key |-> wire[i].key, id |-> wire[i].id]

TesterIssue ==
  /\ pc = "monitor"
  /\ issued < Len(wire)
  /\ wire[issued + 1].key[1] = "upiu"
  /\ Cardinality(outstanding) < opts.qd
  /\ \A i \in outstanding : wire[i].key # wire[issued + 1].key
  /\ issued' = issued + 1
  /\ outstanding' = outstanding \cup {issued + 1}
  /\ hostUnchanged /\ UNCHANGED <<wire, done_queue>>

TesterFunction ==
  /\ pc = "monitor"
  /\ issued < Len(wire)
  /\ wire[issued + 1].key[1] = "sdk"
  /\ issued' = issued + 1
  /\ done_queue' = Append(done_queue, Answer(issued + 1))
  /\ hostUnchanged /\ UNCHANGED <<wire, outstanding>>

TesterComplete(i) ==
  /\ pc = "monitor"
  /\ i \in outstanding
  /\ outstanding' = outstanding \ {i}
  /\ done_queue' = Append(done_queue, Answer(i))
  /\ hostUnchanged /\ UNCHANGED <<wire, issued>>

(* A task-management request that aborts an outstanding command: the       *)
(* command gets no response of its own but a dummy one from the tester.    *)
TesterAbort(tm, i) ==
  /\ pc = "monitor"
  /\ {tm, i} \subseteq outstanding
  /\ tm # i
  /\ cmd_list[tm].cmd.class = "tm"
  /\ cmd_list[i].cmd.class \in {"rw", "hpb", "readbuffer", "scsi"}
  /\ cmd_list[i].key = <<"upiu", cmd_list[tm].cmd.target>>
  /\ outstanding' = outstanding \ {tm, i}
  /\ done_queue' = done_queue \o
       <<[key |-> <<"sdk", TmDummy>>, id |-> i], Answer(tm)>>
  /\ hostUnchanged /\ UNCHANGED <<wire, issued>>

-----------------------------------------------------------------------------
(* send, after the transmission; read_response; clear *)

(* The buffer cmd_seq_monitor returns: the answers, in completion order,   *)
(* at the offsets of the layout.                                           *)
InfoBuf ==
  [o \in {EntryOffset(i - 1) : i \in DOMAIN done_queue} |->
     done_queue[CHOOSE i \in DOMAIN done_queue : EntryOffset(i - 1) = o]]

(* gen_rsp_cycle_indicator: slot c answers the n-th command of its key,    *)
(* n being the number of earlier slots with that key.                      *)
SlotIndicatorOffByOne(buf, c) ==
  LET key == buf[EntryOffset(c)].key
  IN  <<Cardinality({d \in 0 .. c : buf[EntryOffset(d)].key = key}), key>>

SlotIndicator(buf, c) ==
  LET key == buf[EntryOffset(c)].key
  IN  <<Cardinality({d \in 0 .. c - 1 : buf[EntryOffset(d)].key = key}), key>>

RspOffsets(buf, entryCnt) ==
  LET slots == {c \in 0 .. Contiguous(buf) - 1 : c < entryCnt}
  IN  [ci \in {SlotIndicator(buf, c) : c \in slots} |->
         EntryOffset(CHOOSE c \in slots : SlotIndicator(buf, c) = ci)]

ReturnBuffers ==
  /\ buffer' = InfoBuf
  /\ rsp_offset' = RspOffsets(InfoBuf, Len(cmd_list))
  /\ UNCHANGED <<entry_ptr, data_ptr, ehs_ptr, data_begin>>

NoFunction == [x \in {} |-> x]

ResetBuffer ==                       \* reset_module
  /\ entry_ptr' = 0 /\ data_ptr' = 0 /\ ehs_ptr' = 0 /\ data_begin' = -1
  /\ buffer' = NoFunction /\ rsp_offset' = NoFunction

ResetTracker == tracker' = [k \in Keys |-> -1]

ResetPackage ==
  /\ cmd_list' = <<>> /\ total_payload' = 0 /\ total_ehs' = 0
  /\ rw_manual_mode' = NONE /\ pattern_mode' = NONE
  /\ active_task_mgmt' = FALSE /\ has_hpb' = FALSE /\ has_read_buffer' = FALSE
  /\ is_cmd_sent' = FALSE

(* Variants that leave the tracker, or the answers in the SDK, as they are.*)
ClearStateNotTracker ==
  ResetPackage /\ ResetBuffer /\ UNCHANGED tracker /\ done_queue' = <<>>
ClearStateNotDoneQueue ==
  ResetPackage /\ ResetBuffer /\ ResetTracker /\ UNCHANGED done_queue

ClearState ==
  ResetPackage /\ ResetBuffer /\ ResetTracker /\ done_queue' = <<>>   \* clear_done_queue

TesterIdle == wire' = <<>> /\ issued' = 0 /\ outstanding' = {}

AllAnswered == issued = Len(wire) /\ outstanding = {}

MonitorSuccess ==
  /\ pc = "monitor"
  /\ AllAnswered
  /\ pc' = "idle" /\ opts' = NoOpts
  /\ TesterIdle
  /\ IF opts.clear
     THEN ClearState
     ELSE ReturnBuffers /\ UNCHANGED <<enqueueVars, modeVars, is_cmd_sent, done_queue>>
  /\ UNCHANGED <<task_tag, qd_limit>>

(* Errors that come with the info buffer: a response that reports an       *)
(* error, a CRC mismatch, a timeout.  The package stays sent.              *)
MonitorErrorWithInfo ==
  /\ pc = "monitor"
  /\ pc' = "idle" /\ opts' = NoOpts
  /\ TesterIdle
  /\ ReturnBuffers
  /\ UNCHANGED <<enqueueVars, modeVars, task_tag, is_cmd_sent, qd_limit, done_queue>>

(* Any other DLL error, a power cycle among them: no buffer is taken.      *)
MonitorError ==
  /\ pc = "monitor"
  /\ pc' = "idle" /\ opts' = NoOpts
  /\ TesterIdle
  /\ UNCHANGED <<enqueueVars, modeVars, task_tag, is_cmd_sent, qd_limit, bufferVars, rsp_offset,
                 done_queue>>

Clear ==
  /\ pc = "idle"
  /\ ClearState
  /\ UNCHANGED <<task_tag, qd_limit, pc, opts, wire, issued, outstanding>>

SetQdLimit(qd) ==
  /\ pc = "idle"
  /\ qd_limit' = qd
  /\ UNCHANGED <<enqueueVars, modeVars, task_tag, is_cmd_sent, bufferVars, rsp_offset, pc, opts,
                 testerVars>>

(* read_response changes nothing; this is what it finds.                   *)
HasResponse(i)  == cmd_list[i].ci \in DOMAIN rsp_offset
ReadResponse(i) == buffer[rsp_offset[cmd_list[i].ci]]

-----------------------------------------------------------------------------
Init ==
  /\ cmd_list = <<>> /\ total_payload = 0 /\ total_ehs = 0 /\ task_tag = 0
  /\ rw_manual_mode = NONE /\ pattern_mode = NONE
  /\ active_task_mgmt = FALSE /\ has_hpb = FALSE /\ has_read_buffer = FALSE
  /\ is_cmd_sent = FALSE
  /\ tracker = [k \in Keys |-> -1]
  /\ qd_limit = NONE
  /\ entry_ptr = 0 /\ data_ptr = 0 /\ ehs_ptr = 0 /\ data_begin = -1
  /\ buffer = NoFunction /\ rsp_offset = NoFunction
  /\ pc = "idle"
  /\ opts = NoOpts
  /\ wire = <<>> /\ issued = 0 /\ outstanding = {} /\ done_queue = <<>>

TesterNext ==
  \/ TesterIssue
  \/ TesterFunction
  \/ \E i \in outstanding : TesterComplete(i)
  \/ \E tm, i \in outstanding : TesterAbort(tm, i)

SendNext ==
  \/ PushCmd
  \/ Transmit
  \/ MonitorSuccess
  \/ MonitorErrorWithInfo
  \/ MonitorError

PatternNext ==
  \/ \E c \in Commands : Enqueue(c)
  \/ \E qd \in QueueDepths \cup {NONE}, hw, clr \in BOOLEAN : Send(qd, hw, clr)
  \/ Clear
  \/ \E qd \in QueueDepths : SetQdLimit(qd)

Next == PatternNext \/ SendNext \/ TesterNext

Spec == Init /\ [][Next]_vars
-----------------------------------------------------------------------------
(* Fairness: a running send() keeps executing, and the tester keeps        *)
(* starting and answering entries; send() forces a uniform timeout of 30 s *)
(* on every package, so the monitor cannot wait for ever.                  *)
Fairness == WF_vars(SendNext) /\ WF_vars(TesterNext)

FairSpec == Spec /\ Fairness

-----------------------------------------------------------------------------
(* Properties *)

ListElementType ==
  [cmd : CommandType, key : ({"upiu"} \X Int) \cup ({"sdk"} \X Funcs),
   dataLength : Nat, ci : Int \X (({"upiu"} \X Int) \cup ({"sdk"} \X Funcs)),
   l42 : Nat, l54 : Nat, blocksBefore : Nat, ehsBefore : Nat]

OptsType ==
  [qd : QueueDepths \cup {NONE}, hwCompare : BOOLEAN, clear : BOOLEAN, pushed : Nat]

(* Every variable the executor keeps between calls has the type its        *)
(* declaration gives it.                                                   *)
TypeOK ==
  /\ cmd_list \in Seq(ListElementType)
  /\ total_payload \in Nat /\ total_ehs \in Nat
  /\ task_tag \in Tags
  /\ rw_manual_mode \in BOOLEAN \cup {NONE}
  /\ pattern_mode \in PatternModes \cup {NONE}
  /\ active_task_mgmt \in BOOLEAN /\ has_hpb \in BOOLEAN /\ has_read_buffer \in BOOLEAN
  /\ is_cmd_sent \in BOOLEAN
  /\ tracker \in [Keys -> Int]
  /\ qd_limit \in QueueDepths \cup {NONE}
  /\ entry_ptr \in Nat /\ data_ptr \in Nat /\ ehs_ptr \in Nat
  /\ data_begin \in Nat \cup {-1}
  /\ pc \in {"idle", "push", "monitor"}
  /\ opts \in OptsType

(* A package that enqueue accepted is never found too big by the push of   *)
(* send(): the early check of enqueue (entries + 2, totals) implies each   *)
(* late check (_has_room_for_cmd), whose failure the code calls fatal.     *)
AcceptedFits ==
  pc = "push" /\ opts.pushed < Len(cmd_list) =>
    HasRoom(entry_ptr, data_ptr, ehs_ptr, data_begin,
            NextCommand.dataLength, NextCommand.cmd.ehs)

(* The bytes the entries 1..n occupy end before the data area, one spare   *)
(* entry (the ending command) included; the payloads pushed so far lie in  *)
(* the data area, in the buffer, one after the other, and so do the EHS.   *)
RegionsDisjoint ==
  pc \in {"push", "monitor"} =>
    /\ EntryOffset(Len(cmd_list)) + EntrySize <= data_begin
    /\ \A i \in 1 .. opts.pushed : ~IsTester(cmd_list[i].cmd) =>
         LET e == cmd_list[i] IN
           /\ data_begin <= e.l42 /\ e.l42 + e.dataLength <= BufSize
           /\ e.l54 + e.cmd.ehs <= EhsBufSize
           /\ \A j \in 1 .. i - 1 : ~IsTester(cmd_list[j].cmd) =>
                /\ cmd_list[j].l42 + cmd_list[j].dataLength <= e.l42
                /\ cmd_list[j].l54 + cmd_list[j].cmd.ehs <= e.l54

(* The tester, parsing the buffer by the layout, gets exactly the commands *)
(* of the list in their order: _push_entry's running pointer agrees with   *)
(* the offset formula of gen_rsp_cycle_indicator across group boundaries.  *)
TesterSeesTheList ==
  pc = "monitor" =>
    wire = [i \in 1 .. Len(cmd_list) |-> [key |-> cmd_list[i].key, id |-> i]]

(* A command whose enqueue raised after the append (a task tag out of      *)
(* range) never reaches the tester.                                        *)
RefusedNeverSent ==
  pc = "monitor" => \A i \in 1 .. Len(cmd_list) : cmd_list[i].ci # NoIndicator

(* All reads and writes of a package agree in data mode and pattern mode,  *)
(* as _auto_tune_param's docstring promises.                               *)
PackageUniform ==
  \A i, j \in 1 .. Len(cmd_list) :
    ReadsOrWrites(cmd_list[i].cmd) /\ ReadsOrWrites(cmd_list[j].cmd) =>
      /\ cmd_list[i].cmd.manual = cmd_list[j].cmd.manual
      /\ cmd_list[i].cmd.pattern = cmd_list[j].cmd.pattern

(* The option bit for task management is set for exactly the packages that *)
(* hold a task-management request, and hardware compare is never requested *)
(* with a manual read or write, an HPB read or a READ BUFFER in it.        *)
OptionsMatchPackage ==
  pc = "monitor" =>
    /\ active_task_mgmt <=> \E i \in 1 .. Len(cmd_list) : cmd_list[i].cmd.class = "tm"
    /\ opts.hwCompare => \A i \in 1 .. Len(cmd_list) :
         /\ cmd_list[i].cmd.class \notin {"hpb", "readbuffer"}
         /\ ~(ReadsOrWrites(cmd_list[i].cmd) /\ cmd_list[i].cmd.manual)

(* read_response(i) finds the response of command i, however the tester    *)
(* reordered the answers and wherever a failing package stopped.  The one  *)
(* exception the numbering by tag and cycle cannot resolve: the command, or *)
(* an earlier one with its tag, was aborted and got no response of its own.*)
AbortedUpTo(i) ==
  \E j \in 1 .. i :
    /\ cmd_list[j].key = cmd_list[i].key
    /\ \E n \in DOMAIN done_queue : done_queue[n] = [key |-> <<"sdk", TmDummy>>, id |-> j]

OwnResponse ==
  pc = "idle" =>
    \A i \in 1 .. Len(cmd_list) :
      HasResponse(i) => ReadResponse(i).id = i \/ AbortedUpTo(i)

(* A send() that succeeds and keeps its package leaves a response for      *)
(* every command that was not aborted.                                     *)
SuccessAnswersAll ==
  [][MonitorSuccess /\ ~opts.clear =>
       \A i \in 1 .. Len(cmd_list) :
         HasResponse(i)' \/ AbortedUpTo(i)]_vars

(* No answer of an earlier package is in the tester's done queue when a    *)
(* package is handed over: only clear() reopens the list, and it empties   *)
(* the queue.                                                              *)
FreshDoneQueue == [][pc = "push" /\ pc' = "monitor" => done_queue = <<>>]_<<pc, wire>>

-----------------------------------------------------------------------------
(* The inductive invariant behind AcceptedFits: what the running totals of *)
(* enqueue say about the pointers of the push loop.                        *)

Blocks(e) == CeilDiv(e.dataLength, BlockSize)
Units(e)  == CeilDiv(e.cmd.ehs, EhsUnit)

BlocksBefore(i) == IF i <= Len(cmd_list) THEN cmd_list[i].blocksBefore ELSE total_payload
EhsBefore(i)    == IF i <= Len(cmd_list) THEN cmd_list[i].ehsBefore ELSE total_ehs

(* Each command's share starts where the share of the one before it ends.  *)
TotalsInv ==
  /\ BlocksBefore(1) = 0 /\ EhsBefore(1) = 0
  /\ \A i \in 1 .. Len(cmd_list) :
       /\ BlocksBefore(i) + Blocks(cmd_list[i]) = BlocksBefore(i + 1)
       /\ BlocksBefore(i + 1) <= total_payload
       /\ EhsBefore(i) + Units(cmd_list[i]) = EhsBefore(i + 1)
       /\ EhsBefore(i + 1) <= total_ehs

(* The last command accepted was accepted with one spare entry.            *)
CapacityInv ==
  cmd_list # <<>> => ~ EarlyFull(Len(cmd_list) + 1, total_payload, total_ehs)

(* An open package has an untouched buffer; a running one is marked sent.  *)
OpenInv ==
  /\ pc # "idle" => is_cmd_sent
  /\ ~is_cmd_sent => entry_ptr = 0 /\ ehs_ptr = 0

(* After the push of k commands every pointer is where k shares put it.    *)
PushInv ==
  pc = "push" =>
    /\ opts.pushed <= Len(cmd_list)
    /\ entry_ptr = EntryOffset(opts.pushed)
    /\ data_begin = DataBegin(Len(cmd_list) + 1)
    /\ data_ptr = data_begin + BlocksBefore(opts.pushed + 1) * BlockSize
    /\ ehs_ptr = EhsBefore(opts.pushed + 1) * EhsUnit

FitInv == TotalsInv /\ CapacityInv /\ OpenInv /\ PushInv

(* The inductive invariant behind PackageUniform: the first read or write  *)
(* of the list fixed the modes, and no later one differs from them.        *)
ModesInv ==
  \A i \in 1 .. Len(cmd_list) : ReadsOrWrites(cmd_list[i].cmd) =>
    /\ cmd_list[i].cmd.manual = rw_manual_mode
    /\ cmd_list[i].cmd.pattern = pattern_mode

(* The inductive invariant behind RefusedNeverSent: a command without a    *)
(* cycle indicator cannot be encoded, and what was pushed was encoded.     *)
EncodedInv ==
  /\ \A i \in 1 .. Len(cmd_list) :
       TagEncodable(cmd_list[i]) => cmd_list[i].ci # NoIndicator
  /\ pc = "push" => \A i \in 1 .. opts.pushed : TagEncodable(cmd_list[i])
  /\ pc = "monitor" => \A i \in 1 .. Len(cmd_list) : TagEncodable(cmd_list[i])

(* The inductive invariant behind FreshDoneQueue.                          *)
QueueInv ==
  /\ pc # "idle" => is_cmd_sent
  /\ ~is_cmd_sent \/ pc = "push" => done_queue = <<>>
=============================================================================
