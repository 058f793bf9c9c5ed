----------------------------- MODULE WriteRecord -----------------------------
(***************************************************************************)
(* The write record of a logical unit: api/util/write_record/functions.py. *)
(*                                                                         *)
(* The framework remembers which blocks it wrote, and with which data, as  *)
(* a sorted list of extents; reads are compared with what the list says.   *)
(* A write may cut, split, replace or remove the extents it overlaps.  The *)
(* list is searched by bisection and repaired in a loop; both loops are    *)
(* modelled iteration by iteration, with Python's indices (from 0).  The   *)
(* device, external, is what the recorded commands did to the medium.      *)
(***************************************************************************)
EXTENDS Integers, Sequences, SequencesExt

CONSTANTS
  MaxLba,         \* the last logical block of the unit
  Data,           \* (data_pattern_mode, add_tag, mark_tag) of a write
  Erased,         \* the data of an unmapped block (PTN_ERASE)
  Lengths,        \* the transfer lengths a pattern uses
  Write6Lengths,  \* those it uses with WRITE (6)
  Unmaps,         \* the UNMAP commands it uses: sequences of [lba, length]
  ZeroMeans,      \* blocks written by a WRITE (6) of length 0; 256 in the standard
  NONE            \* nothing known, nothing written

ASSUME RecordAssumption ==
  /\ MaxLba \in Nat
  /\ Lengths \subseteq Nat /\ Write6Lengths \subseteq Nat
  /\ Unmaps \subseteq Seq([lba : Nat, length : Nat])
  /\ \A descriptors \in Unmaps : \A i \in DOMAIN descriptors :
       /\ descriptors[i].lba \in 0 .. MaxLba
       /\ descriptors[i].lba + descriptors[i].length - 1 \in descriptors[i].lba .. MaxLba
  /\ ZeroMeans \in Nat
  /\ NONE \notin Data \cup {Erased} /\ NONE \notin BOOLEAN
  /\ NONE \notin {"crc", "-1", "UnboundLocalError"}

VARIABLES
  write_record,   \* the list of extents
  pc,             \* "idle", "next", "search", "save", "find" or "found"
  op,             \* the call that runs: "save" or "find"
  todo,           \* extents of the command not yet saved
  new,            \* the extent being saved or looked up
  left, right, mid, cover,   \* binary_search
  start_index,    \* the index the loop has reached
  insert,         \* the new extent is in the list
  met, answer,    \* of find_record_to_gen_data_crc: the data its CRC runs over, and what it returns
  device          \* what the medium holds

searchVars == <<left, right, mid, cover>>
answerVars == <<met, answer>>
vars == <<write_record, pc, op, todo, new, searchVars, start_index, insert, answerVars, device>>

Lbas == 0 .. MaxLba

Node(start, end, data) == [start |-> start, end |-> end, data |-> data]
Old == write_record[start_index + 1]

Crc      == "crc"
NotFound == "-1"
Unbound  == "UnboundLocalError"

(* The blocks a command writes, by the command standard, and those that    *)
(* save_write_info_by_cmd records for it: it takes the length as it is.    *)
DeviceBlocks(kind, length) == IF kind = "write6" /\ length = 0 THEN ZeroMeans ELSE length
RecordedBlocks(kind, length) == length

-----------------------------------------------------------------------------
(* save_write_info_by_cmd: a write has one extent, an unmap several.  It   *)
(* runs when the command was sent, so the device has executed it.          *)
Written(dev, start, blocks, data) ==
  [l \in Lbas |-> IF l \in start .. start + blocks - 1 THEN data ELSE dev[l]]

SaveWrite(kind, start, length, data) ==
  /\ pc = "idle"
  /\ start + DeviceBlocks(kind, length) - 1 \in Lbas \cup {start - 1}
  /\ device' = Written(device, start, DeviceBlocks(kind, length), data)
  /\ todo' = <<Node(start, start + RecordedBlocks(kind, length) - 1, data)>>
  /\ op' = "save" /\ pc' = "next"
  /\ UNCHANGED <<write_record, new, searchVars, start_index, insert, answerVars>>

EraseBlocks(dev, descriptors) ==
  [l \in Lbas |->
     IF \E i \in DOMAIN descriptors :
          l \in descriptors[i].lba .. descriptors[i].lba + descriptors[i].length - 1
     THEN Erased ELSE dev[l]]

SaveUnmap(descriptors) ==
  /\ pc = "idle"
  /\ device' = EraseBlocks(device, descriptors)
  /\ todo' = [i \in DOMAIN descriptors |->
               Node(descriptors[i].lba, descriptors[i].lba + descriptors[i].length - 1, Erased)]
  /\ op' = "save" /\ pc' = "next"
  /\ UNCHANGED <<write_record, new, searchVars, start_index, insert, answerVars>>

(* Leaving a call: its locals are gone.                                    *)
Return ==
  /\ new' = Node(0, 0, NONE) /\ start_index' = 0 /\ insert' = FALSE
  /\ op' = "save" /\ pc' = "idle"

(* Entering binary_search.                                                 *)
StartSearch ==
  /\ left' = 0 /\ right' = Len(write_record) - 1 /\ mid' = 0 /\ cover' = 0
  /\ pc' = "search"

(* save_write_info until its search.                                       *)
NextExtent ==
  /\ pc = "next"
  /\ todo # <<>>
  /\ todo' = Tail(todo)
  /\ new' = Head(todo)
  /\ insert' = FALSE
  /\ IF write_record = <<>>
     THEN write_record' = <<Head(todo)>> /\ UNCHANGED <<pc, searchVars>>
     ELSE StartSearch /\ UNCHANGED write_record
  /\ UNCHANGED <<op, start_index, answerVars, device>>

CommandSaved ==
  /\ pc = "next"
  /\ todo = <<>>
  /\ Return
  /\ UNCHANGED <<write_record, todo, searchVars, answerVars, device>>

(* find_record_to_gen_data_crc until its loop.                             *)
Find(start, length) ==
  /\ pc = "idle"
  /\ start + length - 1 \in Lbas
  /\ op' = "find"
  /\ new' = Node(start, start + length - 1, NONE)
  /\ met' = <<>> /\ answer' = NONE
  /\ StartSearch
  /\ UNCHANGED <<write_record, todo, start_index, insert, device>>

-----------------------------------------------------------------------------
(* binary_search *)

EndSearch(index) ==
  /\ start_index' = index
  /\ left' = 0 /\ right' = 0 /\ mid' = 0 /\ cover' = 0
  /\ pc' = op

LeftwardsNot(m) == m
Leftwards(m)    == m - 1

SearchStep ==
  /\ pc = "search"
  /\ left <= right
  /\ LET m    == (left + right) \div 2
         node == write_record[m + 1]
     IN
       IF node.start <= new.start /\ node.end >= new.start
       THEN EndSearch(m)
       ELSE /\ mid' = m
            /\ IF \/ node.start <= new.end /\ node.end >= new.end
                  \/ new.start <= node.start /\ new.end >= node.end
               THEN cover' = m /\ right' = Leftwards(m) /\ left' = left
               ELSE /\ cover' = cover
                    /\ right' = IF node.start > new.start THEN Leftwards(m) ELSE right
                    /\ left'  = IF node.start < new.start THEN m + 1 ELSE left
            /\ UNCHANGED <<pc, start_index>>
  /\ UNCHANGED <<write_record, op, todo, new, insert, answerVars, device>>

(* No extent holds the start: the leftmost one met that the new extent     *)
(* reaches, or the last one looked at.                                     *)
SearchResult == IF cover # 0 THEN cover ELSE mid

SearchOver ==
  /\ pc = "search"
  /\ left > right
  /\ EndSearch(SearchResult)
  /\ UNCHANGED <<write_record, op, todo, new, insert, answerVars, device>>

-----------------------------------------------------------------------------
(* The loop of save_write_info: its five cases, in the order it tests them.*)

Covers  == new.start <= Old.start /\ new.end >= Old.end
Inside  == ~Covers /\ Old.start <= new.start /\ Old.end > new.end
HitsTail == ~Covers /\ ~Inside /\ new.start >= Old.start /\ new.start <= Old.end
HitsHead == ~Covers /\ ~Inside /\ ~HitsTail /\ new.end >= Old.start /\ new.end <= Old.end
Apart   == ~Covers /\ ~Inside /\ ~HitsTail /\ ~HitsHead

PutAt(list, index, node) == InsertAt(list, index + 1, node)

InLoop == pc = "save" /\ start_index < Len(write_record)

unchangedInLoop == UNCHANGED <<op, todo, new, searchVars, answerVars, device>>

Continue == start_index' = start_index + 1 /\ pc' = pc
Break    == pc' = "next" /\ UNCHANGED start_index

(* Case 1: the old extent is overwritten.  The first one takes the new     *)
(* extent's place, the others are removed.                                 *)
ReplaceOld ==
  /\ InLoop /\ Covers /\ ~insert
  /\ write_record' = [write_record EXCEPT ![start_index + 1] = new]
  /\ insert' = TRUE
  /\ Continue /\ unchangedInLoop

RemoveOld ==
  /\ InLoop /\ Covers /\ insert
  /\ write_record' = RemoveAt(write_record, start_index + 1)
  /\ UNCHANGED <<pc, start_index, insert>> /\ unchangedInLoop

(* Case 2: the old extent reaches beyond the new one, and perhaps starts   *)
(* before it: it is split.                                                 *)
WithoutHeadByOne(list) == [list EXCEPT ![start_index + 1].start = new.end]
WithoutHead(list)      == [list EXCEPT ![start_index + 1].start = new.end + 1]

SplitOld ==
  /\ InLoop /\ Inside
  /\ write_record' =
       LET cut == WithoutHead(write_record)
           put == PutAt(cut, start_index, new)
       IN  IF insert THEN cut
           ELSE IF Old.start # new.start
                THEN PutAt(put, start_index, Node(Old.start, new.start - 1, Old.data))
                ELSE put
  /\ UNCHANGED insert
  /\ Break /\ unchangedInLoop

(* Case 3: the new extent starts in the old one and ends with or beyond it.*)
AfterInsertedInC == start_index + 1
AfterInserted    == start_index + 2     \* the extent inserted is not looked at again

CutTail ==
  /\ InLoop /\ HitsTail
  /\ LET cut == [write_record EXCEPT ![start_index + 1].end = new.start - 1]
     IN  IF insert
         THEN write_record' = cut /\ start_index' = start_index + 1
         ELSE write_record' = PutAt(cut, start_index + 1, new) /\ start_index' = AfterInserted
  /\ insert' = TRUE
  /\ pc' = pc
  /\ unchangedInLoop

(* Case 4: the new extent ends in the old one.                             *)
CutHead ==
  /\ InLoop /\ HitsHead
  /\ LET cut == WithoutHead(write_record)
     IN  write_record' = IF insert THEN cut ELSE PutAt(cut, start_index, new)
  /\ insert' = TRUE
  /\ Break /\ unchangedInLoop

(* Case 5: no overlap, the new extent goes before or after the old one.    *)
PutApart ==
  /\ InLoop /\ Apart
  /\ write_record' =
       IF insert THEN write_record
       ELSE PutAt(write_record, IF new.end < Old.start THEN start_index ELSE start_index + 1,
                    new)
  /\ UNCHANGED insert
  /\ Break /\ unchangedInLoop

EndOfList ==
  /\ pc = "save"
  /\ start_index >= Len(write_record)
  /\ Break /\ UNCHANGED <<write_record, insert>> /\ unchangedInLoop

-----------------------------------------------------------------------------
(* The loop of find_record_to_gen_data_crc *)

NoLeast(a, b) == b
Least(a, b)   == IF a < b THEN a ELSE b

HoldsStart == Old.start <= new.start /\ Old.end >= new.start

FindHit ==
  /\ pc = "find" /\ start_index < Len(write_record) /\ HoldsStart
  /\ met' = Append(met, Node(new.start, Least(new.end, Old.end), Old.data))
  /\ IF Old.end < new.end
     THEN /\ new' = [new EXCEPT !.start = Old.end + 1]
          /\ Continue /\ UNCHANGED answer
     ELSE /\ pc' = "found" /\ answer' = Crc
          /\ UNCHANGED <<new, start_index>>
  /\ UNCHANGED <<write_record, op, todo, searchVars, insert, device>>

FindMiss ==
  /\ pc = "find" /\ start_index < Len(write_record) /\ ~HoldsStart
  /\ answer' = NotFound
  /\ pc' = "found" /\ UNCHANGED met
  /\ UNCHANGED <<write_record, op, todo, new, searchVars, start_index, insert, device>>

(* Past the end, the code logs the last extent it looked at: with an empty *)
(* list there is none, and the log line raises.                            *)
FindEnd ==
  /\ pc = "find" /\ start_index >= Len(write_record)
  /\ answer' = IF write_record = <<>> THEN Unbound ELSE NotFound
  /\ pc' = "found" /\ UNCHANGED met
  /\ UNCHANGED <<write_record, op, todo, new, searchVars, start_index, insert, device>>

FindReturns ==
  /\ pc = "found"
  /\ met' = <<>> /\ answer' = NONE
  /\ Return
  /\ UNCHANGED <<write_record, todo, searchVars, device>>

-----------------------------------------------------------------------------
Init ==
  /\ write_record = <<>>          \* get_empty_write_record
  /\ pc = "idle" /\ op = "save"
  /\ todo = <<>> /\ new = Node(0, 0, NONE)
  /\ left = 0 /\ right = 0 /\ mid = 0 /\ cover = 0
  /\ start_index = 0 /\ insert = FALSE
  /\ met = <<>> /\ answer = NONE
  /\ device = [l \in Lbas |-> NONE]

Calls ==
  \/ \E start \in Lbas, length \in Lengths, data \in Data :
       SaveWrite("write", start, length, data)
  \/ \E start \in Lbas, length \in Write6Lengths, data \in Data :
       SaveWrite("write6", start, length, data)
  \/ \E descriptors \in Unmaps : SaveUnmap(descriptors)
  \/ \E start \in Lbas, length \in Lengths \ {0} : Find(start, length)

SearchLoop == SearchStep \/ SearchOver
SaveLoop == ReplaceOld \/ RemoveOld \/ SplitOld \/ CutTail \/ CutHead \/ PutApart \/ EndOfList
FindLoop == FindHit \/ FindMiss \/ FindEnd \/ FindReturns

Steps == NextExtent \/ CommandSaved \/ SearchLoop \/ SaveLoop \/ FindLoop

Next == Calls \/ Steps

(* A call is a plain Python call: once entered it runs.                    *)
Spec == Init /\ [][Next]_vars /\ WF_vars(Steps)

-----------------------------------------------------------------------------
(* Properties *)

(* Between two calls the extents are not empty, do not overlap and are in  *)
(* the order of their blocks: bisection depends on it, and every case of   *)
(* save_write_info must restore it.                                        *)
SortedDisjoint ==
  pc \in {"idle", "next", "search"} =>
    \A i \in 1 .. Len(write_record) :
      /\ write_record[i].start <= write_record[i].end
      /\ i > 1 => write_record[i - 1].end < write_record[i].start

Recorded(l) ==
  LET holders == {i \in 1 .. Len(write_record) :
                    l \in write_record[i].start .. write_record[i].end}
  IN  IF holders = {} THEN NONE ELSE write_record[CHOOSE i \in holders : TRUE].data

(* What the list says of a block is what the last command that wrote it    *)
(* left there, whatever that command cut, split or removed; a block it     *)
(* does not hold was never written.                                        *)
RecordMatchesDevice == pc = "idle" => \A l \in Lbas : Recorded(l) = device[l]

(* A lookup that returns a CRC ran it over consecutive extents up to the   *)
(* last block asked for, each with the data on the device; one that fails  *)
(* names the first block nobody wrote.                                     *)
LookupExact ==
  pc = "found" =>
    IF answer = Crc
    THEN /\ met # <<>> /\ Last(met).end = new.end
         /\ \A i \in 1 .. Len(met) :
              /\ i > 1 => met[i].start = met[i - 1].end + 1
              /\ \A l \in met[i].start .. met[i].end : met[i].data = device[l]
    ELSE device[new.start] = NONE
=============================================================================
