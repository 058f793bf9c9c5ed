----------------------------- MODULE RwFunctions -----------------------------
(***************************************************************************)
(* The read and write helpers of patterns: ufs_api/rw_functions.py, and    *)
(* random_write_spor of ufs_api/spor_functions.py.                         *)
(*                                                                         *)
(* A helper draws or computes commands, enqueues them into the one global  *)
(* package, sends it, and, if it writes, enters what it sent in the write  *)
(* record; read_compare reads every recorded extent back.  A helper that   *)
(* raises returns to its pattern at once and leaves the package as it is:  *)
(* unsent commands go out with those of the next helper, a sent package    *)
(* blocks every helper until the pattern clears it.  The executor is taken *)
(* as CommandPackage promises it, a record as the set of its extents; the  *)
(* device executes a package in any order and may fail at any point.       *)
(***************************************************************************)
EXTENDS Integers, Sequences, FiniteSets, SequencesExt

CONSTANTS
  MaxNumberLU,   \* gMaxNumberLU
  Enabled,       \* the units with b3_lu_enable
  Capacity,      \* gLUCapacity
  Requests,      \* the calls patterns make (records of RequestType)
  MaxTransfer,   \* 65535, the longest READ (10) or WRITE (10)
  MaxChunk,      \* 65535, the chunk of write_all_lun
  MaxCommands,   \* bound on the package of the next call
  MaxTag,        \* bound on the mark tags drawn
  NONE

Luns == 0 .. MaxNumberLU - 1

RandomHelpers == {"write", "read", "erase", "spor"}

RequestType ==
  [fn : RandomHelpers \cup {"sequential", "all", "compare"},
   min_lun : Nat, max_lun : Nat, min_lba : Nat, max_lba : Nat,
   min_size : Nat \ {0}, max_size : Nat \ {0}, count : Nat,
   need_compare : BOOLEAN, method : {"HW", "SW"}]

(* A sequential request writes count blocks from min_lba of the unit       *)
(* min_lun, min_size blocks at a time; it has no check of its range.       *)
ASSUME HelpersAssumption ==
  /\ MaxNumberLU \in Nat \ {0}
  /\ Enabled \subseteq Luns
  /\ Capacity \in [Luns -> Nat \ {0}]
  /\ Requests \subseteq RequestType
  /\ \A r \in Requests :
       r.fn = "sequential" => r.min_lun \in Luns /\ r.min_lba + r.count <= Capacity[r.min_lun]
  /\ MaxTransfer \in Nat \ {0} /\ MaxChunk \in 1 .. MaxTransfer
  /\ MaxCommands \in Nat /\ MaxTag \in Nat

VARIABLES
  cmd_list, is_cmd_sent, pattern_mode,   \* the package
  read_hw_compare,  \* option of the send() that runs
  mark_tag,         \* last tag drawn
  pc,               \* "idle", "draw", "unit", "chunk", "compare", "running", "save"
  req,              \* the call that runs
  left,             \* commands still to draw, or blocks still to write
  at,               \* the unit of write_all_lun and of read_compare
  lba,              \* the next block of the chunk loops
  _max_lba,         \* the local of the random helpers
  stage, todo,      \* read_compare ("none" outside it): "unit", "plain", "erased" or "sw";
                    \* and the nodes it has still to enqueue
  read10,           \* its local of that name is bound
  write_record,     \* per unit, the extents of the record
  device,           \* per unit, what the medium holds
  served,           \* commands of the running package the device has executed
  saved,            \* commands of it the helper has recorded
  outcome,          \* how the last call ended: "ok", "raised", or "reset", caught
  blame,            \* blocks on which a comparison failed
  doubt,            \* history: blocks written and not recorded since
  verdict           \* history: what the running read_compare knows of a block

packageVars == <<cmd_list, is_cmd_sent, pattern_mode>>
loopVars    == <<req, left, at, lba, _max_lba>>
compareVars == <<stage, todo, read10>>
worldVars   == <<write_record, device, doubt>>
vars == <<packageVars, read_hw_compare, mark_tag, pc, loopVars, compareVars, worldVars,
          served, saved, outcome, blame, verdict>>

Erased == <<"PTN_ERASE", 0>>
Written(mode, tag) == <<mode, tag>>

AllBlocks == UNION {{<<lun, l>> : l \in 0 .. Capacity[lun] - 1} : lun \in Luns}
BlocksOf(c) == {<<c.lun, l>> : l \in c.start .. c.start + c.length - 1}
Changes(c)  == c.kind \in {"write", "erase"}

NoRequest ==
  [fn |-> "compare", min_lun |-> 0, max_lun |-> 0, min_lba |-> 0, max_lba |-> 0, min_size |-> 1,
   max_size |-> 1, count |-> 0, need_compare |-> FALSE, method |-> "SW"]

-----------------------------------------------------------------------------
(* The write record, as WriteRecord shows it to be: extents that do not    *)
(* overlap; a save cuts those it meets.                                    *)
Node(first, last, data) == [start |-> first, end |-> last, data |-> data]

Cut(old, new) ==
  IF old.end < new.start \/ old.start > new.end THEN {old}
  ELSE {n \in {Node(old.start, new.start - 1, old.data), Node(new.end + 1, old.end, old.data)} :
          n.start <= n.end}

Save(nodes, new) == {new} \cup UNION {Cut(old, new) : old \in nodes}

RecordedIn(nodes, l) ==
  LET holders == {n \in nodes : l \in n.start .. n.end}
  IN  IF holders = {} THEN NONE ELSE (CHOOSE n \in holders : TRUE).data

Recorded(b) == RecordedIn(write_record[b[1]], b[2])

(* save_write_info_by_cmd: commands that change nothing are skipped.       *)
SaveWritesOnly(record, c) ==
  IF c.kind = "write"
  THEN [record EXCEPT ![c.lun] = Save(@, Node(c.start, c.start + c.length - 1, c.data))]
  ELSE record

SaveByCmd(record, c) ==
  IF Changes(c)
  THEN [record EXCEPT ![c.lun] = Save(@, Node(c.start, c.start + c.length - 1, c.data))]
  ELSE record

-----------------------------------------------------------------------------
(* The package, and how a helper ends.                                     *)

(* What a read is compared with, by block.                                 *)
Expectation(blocks) == [b \in blocks |-> Recorded(b)]

Command(kind, lun, start, length, mode, data, compare, expect) ==
  [kind |-> kind, lun |-> lun, start |-> start, length |-> length, mode |-> mode,
   data |-> data, compare |-> compare, expect |-> expect]

Write(lun, start, length, mode) ==
  Command("write", lun, start, length, mode, Written(mode, mark_tag + 1), "none", <<>>)

Read(lun, start, length, mode, compare) ==
  LET blocks == {<<lun, l>> : l \in start .. start + length - 1}
  IN  Command("read", lun, start, length, mode, NONE, compare,
              IF compare = "none" THEN <<>> ELSE Expectation(blocks))

Unmap(lun, start, length) == Command("erase", lun, start, length, NONE, Erased, "none", <<>>)

(* assign() of the command refuses a length that does not fit its CDB;     *)
(* enqueue refuses a sent package and a second pattern mode.               *)
RefusedWhenUnsent(c) ==
  \/ c.kind # "erase" /\ c.length > MaxTransfer
  \/ c.kind # "erase" /\ pattern_mode \notin {NONE, c.mode}

Refused(c) ==
  \/ c.kind # "erase" /\ c.length > MaxTransfer
  \/ is_cmd_sent
  \/ c.kind # "erase" /\ pattern_mode \notin {NONE, c.mode}

Enqueue(c) ==
  /\ cmd_list' = Append(cmd_list, c)
  /\ pattern_mode' = IF c.kind = "erase" THEN pattern_mode ELSE c.mode
  /\ mark_tag' = IF c.kind = "write" THEN mark_tag + 1 ELSE mark_tag
  /\ UNCHANGED is_cmd_sent

ClearPackage == cmd_list' = <<>> /\ is_cmd_sent' = FALSE /\ pattern_mode' = NONE

(* The helper is left; its locals are gone.                                *)
Leave(result) ==
  /\ pc' = "idle" /\ outcome' = result
  /\ req' = NoRequest
  /\ left' = 0 /\ at' = 0 /\ lba' = 0 /\ _max_lba' = 0
  /\ stage' = "none" /\ todo' = {} /\ read10' = FALSE
  /\ served' = {} /\ saved' = 0 /\ read_hw_compare' = FALSE
  /\ verdict' = [b \in AllBlocks |-> "unread"]

Raise ==
  /\ Leave("raised")
  /\ UNCHANGED <<packageVars, mark_tag, worldVars>>

Send(hw) ==
  /\ UNCHANGED blame
  /\ IF is_cmd_sent THEN Raise
     ELSE /\ is_cmd_sent' = TRUE /\ read_hw_compare' = hw
          /\ pc' = "running" /\ served' = {}
          /\ UNCHANGED <<cmd_list, pattern_mode, mark_tag, loopVars, compareVars, worldVars, saved,
                         outcome, verdict>>

-----------------------------------------------------------------------------
(* Calls *)

WrongArguments(r) ==
  \/ r.fn \in RandomHelpers /\ (r.max_lba < r.min_lba \/ r.count \notin 1 .. 256)
  \/ r.fn \in RandomHelpers /\ (r.max_lun > MaxNumberLU - 1 \/ r.max_lun < r.min_lun)
  \/ r.fn = "sequential" /\ r.min_lun > MaxNumberLU - 1

(* read_compare until its first unit.                                      *)
EnterCompare ==
  /\ pc' = "compare" /\ at' = -1
  /\ stage' = "unit" /\ todo' = {} /\ read10' = FALSE
  /\ verdict' = [b \in AllBlocks |-> "unread"]

Chunks(blocks, size) == (blocks + size - 1) \div size

(* The tags a call draws at most: a bound of the model.                    *)
TagsOf(r) ==
  CASE r.fn \in RandomHelpers -> r.count
    [] r.fn = "sequential" -> Chunks(r.count, r.min_size)
    [] r.fn = "all" -> MapThenSumSet(LAMBDA l : Chunks(Capacity[l], MaxChunk), Enabled)
    [] r.fn = "compare" -> 0

Call(r) ==
  /\ pc = "idle"
  /\ Len(cmd_list) <= MaxCommands /\ mark_tag + TagsOf(r) <= MaxTag
  /\ blame' = {}
  /\ IF WrongArguments(r)
     THEN /\ outcome' = "raised"
          /\ UNCHANGED <<pc, loopVars, compareVars, verdict>>
     ELSE /\ req' = r /\ outcome' = NONE
          /\ left' = r.count
          /\ lba' = r.min_lba
          /\ _max_lba' = IF r.fn = "write" THEN r.max_lba ELSE 0
          /\ IF r.fn = "compare" THEN EnterCompare
             ELSE /\ pc' = CASE r.fn \in RandomHelpers -> "draw"
                              [] r.fn = "sequential" -> "chunk"
                              [] r.fn = "all" -> "unit"
                  /\ at' = IF r.fn = "all" THEN -1 ELSE r.min_lun
                  /\ UNCHANGED <<compareVars, verdict>>
  /\ UNCHANGED <<packageVars, read_hw_compare, mark_tag, worldVars, served, saved, saved>>

(* ExecuteCMD.clear() by a pattern that caught an exception.               *)
PatternClears ==
  /\ pc = "idle" /\ cmd_list # <<>>
  /\ ClearPackage
  /\ UNCHANGED <<read_hw_compare, mark_tag, pc, loopVars, compareVars, worldVars, served, saved,
                 outcome,
                 blame, verdict>>

-----------------------------------------------------------------------------
(* One iteration of random_write, random_read, random_erase,               *)
(* random_write_spor.                                                      *)

DrawnLuns ==
  IF req.min_lun = req.max_lun THEN {req.min_lun}
  ELSE (req.min_lun .. req.max_lun) \cap Enabled

BoundOfUnit(lun) == Capacity[lun]
Bound(lun) == IF req.max_lba >= Capacity[lun] THEN Capacity[lun] ELSE _max_lba

DataLenUncapped(lun, drawn) == drawn
DataLen(lun, drawn) == IF drawn >= Capacity[lun] THEN Capacity[lun] ELSE drawn

Starts(lun, length) ==
  IF Bound(lun) - length < req.min_lba THEN {req.min_lba}
  ELSE req.min_lba .. Bound(lun) - length

IntoUnit(lun, start, length) ==
  IF start + length > Capacity[lun] THEN Capacity[lun] - length ELSE start

(* find_record_to_gen_data_crc: -1, no comparison, unless every block is   *)
(* recorded.                                                               *)
ReadCompares(lun, start, length) ==
  IF req.need_compare /\ \A l \in start .. start + length - 1 : Recorded(<<lun, l>>) # NONE
  THEN "crc" ELSE "none"

DrawnCommand(lun, start, length) ==
  CASE req.fn \in {"write", "spor"} -> Write(lun, start, length, "HW_INCREASE")
    [] req.fn = "erase" -> Unmap(lun, start, length)
    [] req.fn = "read" ->
         Read(lun, start, length, "HW_INCREASE", ReadCompares(lun, start, length))

(* With an empty record the lookup of random_read raises.                  *)
LookupRaises(lun) == req.fn = "read" /\ req.need_compare /\ write_record[lun] = {}

Draw(lun, drawn, start) ==
  /\ pc = "draw" /\ left > 0
  /\ lun \in DrawnLuns
  /\ drawn \in req.min_size .. req.max_size
  /\ start \in Starts(lun, DataLen(lun, drawn))
  /\ LET length == DataLen(lun, drawn)
         c == DrawnCommand(lun, IntoUnit(lun, start, length), length)
     IN  IF Refused(c) \/ LookupRaises(lun)
         THEN Raise
         ELSE /\ Enqueue(c)
              /\ left' = left - 1
              /\ _max_lba' = Bound(lun)
              /\ UNCHANGED <<pc, req, at, lba, read_hw_compare, compareVars, worldVars, served,
                             saved,
                             outcome, verdict>>
  /\ UNCHANGED blame

(* More than 100 draws met disabled units only.                            *)
DrawStuck ==
  /\ pc = "draw" /\ left > 0
  /\ req.min_lun # req.max_lun
  /\ ~(req.min_lun .. req.max_lun \subseteq Enabled)
  /\ Raise
  /\ UNCHANGED blame

SendDrawn ==
  /\ pc = "draw" /\ left = 0
  /\ Send(FALSE)

-----------------------------------------------------------------------------
(* sequential_write and write_all_lun: a loop of chunks, for the latter    *)
(* once per enabled unit.                                                  *)

ChunkSize == LET limit == IF req.fn = "all" THEN MaxChunk ELSE req.min_size
             IN  IF left < limit THEN left ELSE limit

Chunk ==
  /\ pc = "chunk" /\ left > 0
  /\ LET c == Write(at, lba, ChunkSize, "HW_FIX")
     IN  IF Refused(c) THEN Raise
         ELSE /\ Enqueue(c)
              /\ left' = left - ChunkSize
              /\ lba' = lba + ChunkSize
              /\ UNCHANGED <<pc, req, at, _max_lba, read_hw_compare, compareVars, worldVars,
                             served, saved, outcome, verdict>>
  /\ UNCHANGED blame

(* The timeout of the send is that of the last command: without one,       *)
(* sequential_write raises.                                                *)
SendChunks ==
  /\ pc = "chunk" /\ left = 0
  /\ IF req.fn = "sequential" /\ req.count = 0 THEN Raise /\ UNCHANGED blame ELSE Send(FALSE)

NextUnit ==
  /\ pc = "unit"
  /\ IF at + 1 \notin Luns
     THEN Leave("ok")
     ELSE /\ at' = at + 1
          /\ IF at + 1 \in Enabled
             THEN pc' = "chunk" /\ left' = Capacity[at + 1] /\ lba' = 0
             ELSE UNCHANGED <<pc, left, lba>>
          /\ UNCHANGED <<req, _max_lba, compareVars, read_hw_compare, served, saved, outcome,
                         verdict>>
  /\ UNCHANGED <<packageVars, mark_tag, worldVars, blame>>

-----------------------------------------------------------------------------
(* read_compare: for every unit with a record, either one package of the   *)
(* extents that hold data, compared by the hardware, and one of the erased *)
(* extents, compared with a CRC; or one package of all, with CRCs.         *)

NodesOf(lun, phase) ==
  {n \in write_record[lun] : phase \in {"sw", IF n.data = Erased THEN "erased" ELSE "plain"}}

EnterStage(phase, lun) == stage' = phase /\ todo' = NodesOf(lun, phase)

CompareUnit ==
  /\ pc = "compare" /\ stage = "unit"
  /\ IF at + 1 \notin Luns
     THEN Leave("ok")
     ELSE /\ at' = at + 1
          /\ IF write_record[at + 1] = {} THEN UNCHANGED <<stage, todo>>
             ELSE EnterStage(IF req.method = "HW" THEN "plain" ELSE "sw", at + 1)
          /\ UNCHANGED <<pc, req, left, lba, _max_lba, read10, read_hw_compare, served, saved,
                         outcome,
                         verdict>>
  /\ UNCHANGED <<packageVars, mark_tag, worldVars, blame>>

ReadOf(node) ==
  Read(at, node.start, node.end - node.start + 1,
       IF stage = "plain" THEN node.data[1] ELSE "HW_INCREASE",
       IF stage = "plain" THEN "tag" ELSE "crc")

CompareNode(node) ==
  /\ pc = "compare" /\ node \in todo
  /\ \A other \in todo : node.start <= other.start
  /\ IF Refused(ReadOf(node))
     THEN Raise
     ELSE /\ Enqueue(ReadOf(node))
          /\ todo' = todo \ {node} /\ read10' = TRUE
          /\ UNCHANGED <<pc, loopVars, stage, read_hw_compare, worldVars, served, saved, outcome,
                         verdict>>
  /\ UNCHANGED blame

SkipErased == pc' = "compare" /\ stage' = "unit" /\ todo' = {} /\ UNCHANGED read10
ErasedAgain == pc' = "compare" /\ EnterStage("erased", at) /\ UNCHANGED read10

NextStage ==
  /\ pc' = "compare" /\ UNCHANGED read10
  /\ IF stage = "plain" THEN EnterStage("erased", at) ELSE stage' = "unit" /\ todo' = {}

(* The timeout of the send is taken from the last read: with commands of   *)
(* somebody else in the package and no read made yet, there is none.       *)
CompareSend ==
  /\ pc = "compare" /\ stage # "unit" /\ todo = {}
  /\ \/ /\ cmd_list = <<>>
        /\ NextStage
        /\ UNCHANGED <<packageVars, read_hw_compare, mark_tag, loopVars, worldVars, served, saved,
                       outcome, blame, verdict>>
     \/ /\ cmd_list # <<>> /\ ~read10
        /\ Raise /\ UNCHANGED blame
     \/ /\ cmd_list # <<>> /\ read10
        /\ Send(stage = "plain")

-----------------------------------------------------------------------------
(* The device executes the commands of a running package in any order.     *)

Unserved == pc = "running" /\ served # DOMAIN cmd_list

(* A CRC is checked always, a tag only in a package sent for it.           *)
Checked(c) == c.compare = "crc" \/ (c.compare = "tag" /\ read_hw_compare)

Held(b) == device[b[1]][b[2]]
Wrong(c) == {b \in DOMAIN c.expect : Checked(c) /\ c.expect[b] # Held(b)}

Execute(i) ==
  /\ Unserved /\ i \in DOMAIN cmd_list \ served
  /\ Wrong(cmd_list[i]) = {}
  /\ served' = served \cup {i}
  /\ LET c == cmd_list[i]
     IN  /\ IF Changes(c)
            THEN /\ device' = [device EXCEPT ![c.lun] =
                     [l \in DOMAIN @ |-> IF <<c.lun, l>> \in BlocksOf(c) THEN c.data ELSE @[l]]]
                 /\ doubt' = doubt \cup BlocksOf(c)
            ELSE UNCHANGED <<device, doubt>>
         /\ verdict' = [b \in AllBlocks |->
              IF stage = "none" \/ b \notin BlocksOf(c) THEN verdict[b]
              ELSE IF Changes(c) THEN "overwritten"
              ELSE IF Checked(c) THEN "equal"
              ELSE verdict[b]]
  /\ UNCHANGED <<packageVars, read_hw_compare, mark_tag, pc, loopVars, compareVars, write_record,
                 saved, outcome, blame>>

(* A comparison fails: the tester stops and send() raises.                 *)
ComparisonFails(i) ==
  /\ Unserved /\ i \in DOMAIN cmd_list \ served
  /\ Wrong(cmd_list[i]) # {}
  /\ blame' = Wrong(cmd_list[i])
  /\ Raise

(* send() raises for any other reason: timeouts, error responses.          *)
SendFails ==
  /\ pc = "running"
  /\ Raise /\ UNCHANGED blame

(* random_write_spor: the reset it armed cuts the package; the exception   *)
(* is caught and the queue of the tester cleared, but not the package.     *)
PowerCycle ==
  /\ pc = "running" /\ req.fn = "spor"
  /\ Leave("reset") /\ UNCHANGED <<packageVars, mark_tag, worldVars, blame>>

(* send() returns: of the helpers that write with the package as it was,   *)
(* for the others cleared.                                                 *)
Records == stage = "none" /\ req.fn \in {"write", "erase", "sequential", "all"}

(* What follows when a package is done with.                               *)
Proceed ==
  \/ /\ stage # "none"
     /\ NextStage
     /\ UNCHANGED <<loopVars, outcome, verdict>>
     /\ served' = {} /\ saved' = 0 /\ read_hw_compare' = FALSE
  \/ /\ stage = "none" /\ req.fn = "all"
     /\ pc' = "unit"
     /\ UNCHANGED <<loopVars, compareVars, outcome, verdict>>
     /\ served' = {} /\ saved' = 0 /\ read_hw_compare' = FALSE
  \/ /\ stage = "none" /\ req.fn \in {"write", "sequential"} /\ req.need_compare
     /\ EnterCompare
     /\ UNCHANGED <<req, left, lba, _max_lba, outcome>>
     /\ served' = {} /\ saved' = 0 /\ read_hw_compare' = FALSE
  \/ /\ stage = "none" /\ req.fn # "all"
     /\ ~(req.fn \in {"write", "sequential"} /\ req.need_compare)
     /\ Leave("ok")

SendReturns ==
  /\ pc = "running" /\ served = DOMAIN cmd_list
  /\ IF Records
     THEN /\ pc' = "save" /\ saved' = 0
          /\ UNCHANGED <<packageVars, read_hw_compare, loopVars, compareVars, served, outcome,
                         verdict>>
     ELSE ClearPackage /\ Proceed
  /\ UNCHANGED <<mark_tag, worldVars, blame>>

(* The commands of the package are recorded in the order of the list,      *)
(* whoever enqueued them; then the package is cleared.                     *)
SaveCommand ==
  /\ pc = "save" /\ saved < Len(cmd_list)
  /\ write_record' = SaveByCmd(write_record, cmd_list[saved + 1])
  /\ saved' = saved + 1
  /\ UNCHANGED <<packageVars, read_hw_compare, mark_tag, pc, loopVars, compareVars, device, doubt,
                 served, outcome, blame, verdict>>

Writers(b) == {i \in DOMAIN cmd_list : Changes(cmd_list[i]) /\ b \in BlocksOf(cmd_list[i])}

AllSaved ==
  /\ pc = "save" /\ saved = Len(cmd_list)
  /\ doubt' = {b \in doubt : \A i \in DOMAIN cmd_list : Writers(b) # {i}}
  /\ ClearPackage
  /\ Proceed
  /\ UNCHANGED <<mark_tag, write_record, device, blame>>

-----------------------------------------------------------------------------
Init ==
  /\ cmd_list = <<>> /\ is_cmd_sent = FALSE /\ pattern_mode = NONE
  /\ read_hw_compare = FALSE /\ mark_tag = 0
  /\ pc = "idle" /\ req = NoRequest
  /\ left = 0 /\ at = 0 /\ lba = 0 /\ _max_lba = 0
  /\ stage = "none" /\ todo = {} /\ read10 = FALSE
  /\ write_record = [l \in Luns |-> {}]
  /\ device = [l \in Luns |-> [b \in 0 .. Capacity[l] - 1 |-> NONE]]
  /\ served = {} /\ saved = 0 /\ outcome = "ok" /\ blame = {} /\ doubt = {}
  /\ verdict = [b \in AllBlocks |-> "unread"]

Drawing ==
  \/ \E lun \in Luns, drawn \in req.min_size .. req.max_size :
       \E start \in Starts(lun, DataLen(lun, drawn)) : Draw(lun, drawn, start)
  \/ DrawStuck \/ SendDrawn

Chunking  == Chunk \/ SendChunks \/ NextUnit
Comparing == CompareUnit \/ (\E node \in todo : CompareNode(node)) \/ CompareSend
Running   == (\E i \in DOMAIN cmd_list : Execute(i) \/ ComparisonFails(i)) \/ SendReturns
Saving    == SaveCommand \/ AllSaved
Steps     == Drawing \/ Chunking \/ Comparing \/ Running \/ Saving
Errors    == SendFails \/ PowerCycle

Next == (\E r \in Requests : Call(r)) \/ PatternClears \/ Steps \/ Errors

(* A helper is plain Python and runs once called; every send() ends, as    *)
(* the executor's own specification shows.                                 *)
Spec == Init /\ [][Next]_vars /\ WF_vars(Steps)

-----------------------------------------------------------------------------
(* Properties *)

CommandOk(c) ==
  /\ c.lun \in Luns /\ c.start \in Nat /\ c.length \in Nat
  /\ c.kind \in {"write", "read", "erase"}

(* Types.                                                                  *)
TypeOK ==
  /\ \A i \in DOMAIN cmd_list : CommandOk(cmd_list[i])
  /\ is_cmd_sent \in BOOLEAN /\ read_hw_compare \in BOOLEAN /\ read10 \in BOOLEAN
  /\ mark_tag \in Nat
  /\ pc \in {"idle", "draw", "unit", "chunk", "compare", "running", "save"}
  /\ left \in Nat /\ lba \in Nat /\ _max_lba \in Nat
  /\ at \in Int
  /\ stage \in {"none", "unit", "plain", "erased", "sw"}
  /\ served \subseteq DOMAIN cmd_list
  /\ doubt \subseteq AllBlocks /\ blame \subseteq AllBlocks

(* Whatever is drawn, capped or moved, no command reaches beyond its unit, *)
(* none is sent to a disabled unit the caller left to the draw, and one    *)
(* whose length fits the range the caller gave (and the unit) stays in it. *)
InRange(c) ==
  /\ c.start + c.length <= Capacity[c.lun]
  /\ LET end == IF req.max_lba < Capacity[c.lun] THEN req.max_lba ELSE Capacity[c.lun]
     IN  req.min_lba + c.length <= end => c.start >= req.min_lba /\ c.start + c.length <= end

CommandsInRange ==
  [][pc = "draw" /\ cmd_list' # cmd_list => InRange(cmd_list'[Len(cmd_list')])]_vars

(* The record says what the device holds, except for blocks that a package *)
(* wrote which failed, was not recorded by its helper, or wrote them twice *)
(* (the device may swap the two): until a later write of them is recorded. *)
RecordMatchesDevice == \A b \in AllBlocks \ doubt : Recorded(b) = Held(b)

(* A comparison on a device that keeps its data fails only on such blocks, *)
(* also when commands of an earlier helper travel in the package.          *)
FailsOnlyInDoubt == blame \subseteq doubt

(* read_compare has looked, in every unit it has left behind, at every     *)
(* block the record holds: those it calls equal are.                       *)
VerifiedMeansEqual ==
  stage # "none" =>
    \A b \in AllBlocks :
      /\ verdict[b] = "equal" => Recorded(b) = Held(b)
      /\ (b[1] < at \/ (b[1] = at /\ stage = "unit")) /\ Recorded(b) # NONE
           => verdict[b] # "unread"

(* Every call returns.                                                     *)
CallsReturn == pc # "idle" ~> pc = "idle"

Package == INSTANCE CommandPackage WITH
  size    <- Len(cmd_list),
  phase   <- (IF pc = "running" THEN "running" ELSE IF is_cmd_sent THEN "ended" ELSE "open"),
  answers <- <<>>

(* The helpers use the executor as CommandPackage allows: nothing is added *)
(* to a package that was sent, and it is sent once before it is cleared.   *)
UsesPackage == [][Package!Next]_(Package!vars)
=============================================================================
